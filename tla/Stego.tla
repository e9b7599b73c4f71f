------------------------------- MODULE Stego -------------------------------
(***************************************************************************)
(* zion-stego and the commands over it: a file is cut into symbols, each   *)
(* sealed into the low bits of one host photo, the photos written one by   *)
(* one; later photos are picked, damaged or not, and read back.            *)
(*                                                                         *)
(* A channel is what its low bit tells: noise, a field of the plaintext    *)
(* header, or a piece of a ciphertext. A byte takes one channel. The AEAD  *)
(* is ideal, Argon2id and BLAKE3 collision-free, file ids fresh.           *)
(***************************************************************************)
EXTENDS Integers, Sequences, FiniteSets, Functions

CONSTANTS
    Files,               \* the files embedded
    Blocks,              \* the blocks of a file
    MinK,                \* the smallest K the codec encodes it with
    Passphrases,
    Densities,           \* EmbeddingDensity, in parts of DensityScale
    DensityScale,
    Pngs,                \* the host photos: color type, depth and pixels
    CropLengths,         \* the channels left of a cropped one
    PLAINTEXT_HEADER_CHANNELS, AEAD_TAG_LEN, CodewordLen, ZION_CODEC_MAX_K,
    Word(_, _),          \* the n-th number of the generator of a seed
    MaxHosts,            \* bound on the hosts of a call
    MaxSessions,         \* bound on the embeddings
    MaxPicked,           \* bound on the photos read back at once
    MaxDamage            \* bound on the channels damaged, and photos cropped

Fields == <<"magic", "version", "file_id", "symbol_index", "ciphertext_len">>

ASSUME ConstantsAssumption ==
    /\ PLAINTEXT_HEADER_CHANNELS = Len(Fields)
    /\ {AEAD_TAG_LEN, CodewordLen, ZION_CODEC_MAX_K, DensityScale} \subseteq Nat \ {0}
    /\ {MaxHosts, MaxSessions, MaxPicked, MaxDamage} \subseteq Nat
    /\ Densities \subseteq 1 .. DensityScale
    /\ CropLengths \subseteq Nat
    /\ Pngs \subseteq [color : STRING, depth : Nat, pixels : Nat]
    /\ Blocks \in [Files -> Nat] /\ MinK \in [Files -> Nat \ {0}]

VARIABLES
    phase,       \* "idle", "embedding", "writing", "picking", "opening"
    result,      \* what the last call returned
    call,        \* the arguments of embed_file, and what it computed from them
    images,      \* stego_images
    written,     \* how many of them the command has written
    directory,   \* the photos in the output directory, stego_000.png first
    sessions,    \* history: the calls that derived a key, in order
    sealed,      \* history: what was sealed under which key and nonce
    damage,      \* channels damaged or photos cropped so far
    picked,      \* the photos read back
    headers,     \* their plaintext headers
    passphrase,  \* the passphrase they are read with
    received     \* the symbols the reassembler has

vars == <<phase, result, call, images, written, directory, sessions, sealed, damage, picked,
          headers, passphrase, received>>
reading == <<picked, headers, passphrase, received>>
writing == <<call, images, written>>

-----------------------------------------------------------------------------
(* Mutants.                                                                *)

NonceOfKey(master, index) == <<"nonce", master>>
LargestK(S) == CHOOSE k \in S : \A other \in S : k >= other
HeaderFromOne(id, index, len) ==
    <<<<"magic", 1>>, <<"version", 1>>, <<"file_id", id>>, <<"symbol_index", index + 1>>,
      <<"ciphertext_len", len>>>>

-----------------------------------------------------------------------------
(* Capacity (capacity.rs).                                                 *)

ciphertext_bytes(k) == CodewordLen * k + AEAD_TAG_LEN

photo_k_per_photo(len, density) ==
    LET embeddable == ((len - PLAINTEXT_HEADER_CHANNELS) * density) \div DensityScale
    IN  IF len <= PLAINTEXT_HEADER_CHANNELS \/ embeddable <= AEAD_TAG_LEN
        THEN 0 ELSE (embeddable - AEAD_TAG_LEN) \div CodewordLen

Least(S) == CHOOSE k \in S : \A other \in S : k <= other

\* None is 0: no photo, or one that cannot carry a codeword.
compute_k_global(lengths, density) ==
    LET ks == {photo_k_per_photo(len, density) : len \in lengths}
    IN  IF ks = {} \/ 0 \in ks THEN 0 ELSE Least(ks \cup {ZION_CODEC_MAX_K})

-----------------------------------------------------------------------------
(* Keys, channels and the ciphertext in them.                              *)

derive_master_key(pass, id) == <<pass, id>>
derive_permutation_seed(master, id, index) == <<"permutation", master, id, index>>
derive_nonce(master, index) == <<"nonce", master, index>>

\* The generator of a seed gives naturals.
ASSUME GeneratorAssumption ==
    \A pass \in Passphrases, id \in 1 .. MaxSessions, index \in 0 .. MaxHosts, png \in Pngs :
        \A n \in 1 .. (3 * png.pixels) :
            Word(derive_permutation_seed(derive_master_key(pass, id), id, index), n) \in Nat

Noise == <<"noise">>
HeaderCell(field, value) == <<field, value>>
CipherCell(key, nonce, symbol, n) == <<"cipher", key, nonce, symbol, n>>
\* A PNG that cannot be read.
Unreadable == <<>>

\* Alpha is dropped, gray is repeated: three channels for a pixel.
load_png_rgb(png) ==
    IF png.color \in {"Rgb", "Rgba", "Grayscale"} /\ png.depth = 8
    THEN [i \in 1 .. (3 * png.pixels) |-> Noise] ELSE Unreadable

\* seal: one cell for each byte of the symbol and of the tag.
Ciphertext(key, nonce, symbol, k) ==
    [n \in 1 .. ciphertext_bytes(k) |-> CipherCell(key, nonce, symbol, n)]

\* permute_range: Fisher-Yates from the last index down.
Shuffled(n, seed) ==
    LET swapped[i \in 1 .. n] ==
            IF i = n THEN [p \in 1 .. n |-> PLAINTEXT_HEADER_CHANNELS + p]
            ELSE LET before == swapped[i + 1]
                     last == i + 1
                     j == (Word(seed, i) % last) + 1
                 IN  [before EXCEPT ![last] = before[j], ![j] = before[last]]
    IN  swapped[1]

permute_range(len, seed) ==
    LET n == len - PLAINTEXT_HEADER_CHANNELS
        shuffled == Shuffled(n, seed)
    IN  IF n <= 0 THEN <<>> ELSE [p \in 1 .. n |-> shuffled[p]]

\* embed_bits_at: the low bits of the channels at positions.
embed_bits_at(image, positions, cells) ==
    [i \in DOMAIN image |->
        IF \E p \in DOMAIN cells : positions[p] = i
        THEN cells[CHOOSE p \in DOMAIN cells : positions[p] = i]
        ELSE image[i]]

extract_bits_at(image, positions) == [p \in DOMAIN positions |-> image[positions[p]]]

HeaderPositions == [i \in 1 .. PLAINTEXT_HEADER_CHANNELS |-> i]

VERSION == 1

HeaderCells(id, index, len) ==
    <<HeaderCell("magic", 1), HeaderCell("version", VERSION), HeaderCell("file_id", id),
      HeaderCell("symbol_index", index), HeaderCell("ciphertext_len", len)>>

-----------------------------------------------------------------------------
(* embed_file and the command stego-embed.                                 *)

\* The symbols the codec makes: block after block, at most K in each.
SymbolsUsed(file, k) == (Blocks[file] + k - 1) \div k
Symbol(file, id, index, total) == [file |-> file, id |-> id, index |-> index, total |-> total]

Fail(error) ==
    /\ result' = <<error>>
    /\ UNCHANGED <<phase, writing, directory, sessions, sealed, damage, reading>>

BeginEmbed(file, hosts, pass, density) ==
    LET k == compute_k_global({Len(hosts[i]) : i \in DOMAIN hosts}, density)
        total == SymbolsUsed(file, k)
        id == Len(sessions) + 1
    IN  /\ phase = "idle" /\ Len(sessions) < MaxSessions
        /\ \/ Unreadable \in Range(hosts) /\ Fail("PngError")
           \/ Unreadable \notin Range(hosts) /\ Blocks[file] = 0 /\ Fail("EmptyInput")
           \/ Blocks[file] # 0 /\ hosts = <<>> /\ Fail("NoHostImages")
           \/ Unreadable \notin Range(hosts) /\ Blocks[file] # 0 /\ hosts # <<>> /\ k = 0
              /\ Fail("InsufficientCapacity")
           \/ Blocks[file] # 0 /\ k # 0 /\ k < MinK[file] /\ Fail("CodecError")
           \/ /\ Blocks[file] # 0 /\ k # 0 /\ k >= MinK[file] /\ total > Len(hosts)
              /\ Fail("InsufficientCapacity")
           \/ /\ Blocks[file] # 0 /\ k # 0 /\ k >= MinK[file] /\ total <= Len(hosts)
              /\ phase' = "embedding"
              /\ call' = [file |-> file, hosts |-> hosts, pass |-> pass, k |-> k,
                          id |-> id, total |-> total]
              /\ images' = <<>> /\ written' = 0
              /\ sessions' = Append(sessions, [file |-> file, pass |-> pass,
                                               total |-> total, k |-> k])
              /\ UNCHANGED <<result, directory, sealed, damage, reading>>

\* embed_into_host, for the next symbol.
EmbedIntoHost ==
    LET index == Len(images)
        host == call.hosts[index + 1]
        master == derive_master_key(call.pass, call.id)
        nonce == derive_nonce(master, index)
        symbol == Symbol(call.file, call.id, index, call.total)
        cells == Ciphertext(master, nonce, symbol, call.k)
        titled == embed_bits_at(host, HeaderPositions,
                                HeaderCells(call.id, index, ciphertext_bytes(call.k)))
        permutation == permute_range(Len(host),
                                     derive_permutation_seed(master, call.id, index))
    IN  /\ phase = "embedding" /\ index < call.total
        /\ sealed' = sealed \cup {[key |-> master, nonce |-> nonce, symbol |-> symbol]}
        /\ IF Len(cells) > Len(permutation)
           THEN /\ result' = <<"panic">> /\ phase' = "idle"
                /\ UNCHANGED images
           ELSE /\ images' = Append(images, embed_bits_at(titled, permutation, cells))
                /\ UNCHANGED <<result, phase>>
        /\ UNCHANGED <<call, written, directory, sessions, damage, reading>>

\* The hosts that are left are returned unchanged.
AppendRemaining ==
    /\ phase = "embedding" /\ Len(images) = call.total
    /\ images' = images \o SubSeq(call.hosts, call.total + 1, Len(call.hosts))
    /\ phase' = "writing"
    /\ UNCHANGED <<result, call, written, directory, sessions, sealed, damage, reading>>

Replaced(dir, i, image) == [n \in 1 .. (IF i > Len(dir) THEN i ELSE Len(dir)) |->
                               IF n = i THEN image ELSE dir[n]]

\* The command writes one photo over whatever has its name.
WritePhoto ==
    /\ phase = "writing"
    /\ directory' = Replaced(directory, written + 1, images[written + 1])
    /\ written' = written + 1
    /\ IF written' = Len(images)
       THEN /\ phase' = "idle" /\ result' = <<"Ok">>
            /\ call' = <<>> /\ images' = <<>>
       ELSE UNCHANGED <<phase, result, call, images>>
    /\ UNCHANGED <<sessions, sealed, damage, reading>>

\* Writing fails, or the command is killed, before a photo or in the middle of it.
StopWriting ==
    /\ phase = "writing"
    /\ phase' = "idle" /\ result' = <<"failed">>
    /\ \/ UNCHANGED directory
       \/ directory' = Replaced(directory, written + 1, Unreadable)
    /\ call' = <<>> /\ images' = <<>>
    /\ UNCHANGED <<written, sessions, sealed, damage, reading>>

-----------------------------------------------------------------------------
(* The photos on their way.                                                *)

Damage(i, c) ==
    /\ phase = "picking" /\ headers = <<>> /\ damage < MaxDamage
    /\ picked' = [picked EXCEPT ![i][c] = Noise]
    /\ damage' = damage + 1
    /\ UNCHANGED <<phase, result, writing, directory, sessions, sealed, headers,
                   passphrase, received>>

Crop(i, len) ==
    /\ phase = "picking" /\ headers = <<>> /\ damage < MaxDamage
    /\ len < Len(picked[i])
    /\ picked' = [picked EXCEPT ![i] = SubSeq(picked[i], 1, len)]
    /\ damage' = damage + 1
    /\ UNCHANGED <<phase, result, writing, directory, sessions, sealed, headers,
                   passphrase, received>>

-----------------------------------------------------------------------------
(* extract_file.                                                           *)

Return(r) ==
    /\ phase' = "opened" /\ result' = r
    /\ UNCHANGED <<writing, directory, sessions, sealed, damage>>

Pick(i) ==
    /\ phase \in {"idle", "picking"} /\ headers = <<>> /\ Len(picked) < MaxPicked
    /\ picked' = Append(picked, directory[i])
    /\ IF directory[i] = Unreadable THEN Return(<<"PngError">>)
       ELSE /\ phase' = "picking"
            /\ UNCHANGED <<result, writing, directory, sessions, sealed, damage>>
    /\ UNCHANGED <<headers, passphrase, received>>

\* The values a field may be read as: the one it has, or any if it is damaged.
FieldValues(image, n, all) ==
    IF image[n] # Noise /\ image[n][1] = Fields[n] THEN {image[n][2]} ELSE all

Versions == 0 .. VERSION + 1
Ids == 0 .. MaxSessions
Indices == 0 .. MaxHosts
CiphertextLens == {0, ciphertext_bytes(1), ciphertext_bytes(ZION_CODEC_MAX_K), 2 * ciphertext_bytes(ZION_CODEC_MAX_K)}

\* read_plaintext_header: what it may return for an image. A version before
\* this one is read as well.
ReadHeader(image) ==
    IF Len(image) < PLAINTEXT_HEADER_CHANNELS
    THEN {[error |-> "InvalidStegoImage"]}
    ELSE IF image[1] # HeaderCell("magic", 1)
    THEN {[error |-> "BadMagic"]}
    ELSE {[error |-> "UnsupportedVersion"] :
             version \in {v \in FieldValues(image, 2, Versions) : v > VERSION}} \cup
         {[error |-> "none", file_id |-> id, symbol_index |-> index, ciphertext_len |-> len] :
             version \in {v \in FieldValues(image, 2, Versions) : v <= VERSION},
             id \in FieldValues(image, 3, Ids), index \in FieldValues(image, 4, Indices),
             len \in FieldValues(image, 5, CiphertextLens)}

\* The headers of all the images are read, in order, before any is opened.
ReadHeaders ==
    /\ phase = "picking" /\ Len(headers) < Len(picked)
    /\ \E header \in ReadHeader(picked[Len(headers) + 1]) :
          \/ /\ header.error # "none"
             /\ Return(<<header.error>>)
             /\ UNCHANGED <<picked, headers, passphrase, received>>
          \/ /\ header.error = "none"
             /\ headers' = Append(headers, header)
             /\ UNCHANGED <<phase, result, writing, directory, sessions, sealed, damage,
                            picked, passphrase, received>>

BeginOpen(pass) ==
    /\ phase = "picking" /\ Len(headers) = Len(picked)
    /\ IF \E i \in DOMAIN headers : headers[i].file_id # headers[1].file_id
       THEN Return(<<"InconsistentFileId">>) /\ UNCHANGED <<picked, headers, passphrase, received>>
       ELSE /\ phase' = "opening"
            /\ passphrase' = pass
            /\ received' = <<>>
            /\ UNCHANGED <<result, writing, directory, sessions, sealed, damage, picked,
                           headers>>

\* open: the symbol the ciphertext was made of, or nothing.
Opened(key, nonce, cells) ==
    {s.symbol : s \in {one \in sealed :
        /\ one.key = key /\ one.nonce = nonce
        /\ cells = Ciphertext(key, nonce, one.symbol, sessions[one.symbol.id].k)}}

OpenImage ==
    LET n == Len(received) + 1
        header == headers[n]
        master == derive_master_key(passphrase, headers[1].file_id)
        permutation == permute_range(Len(picked[n]),
            derive_permutation_seed(master, headers[1].file_id, header.symbol_index))
        cells == extract_bits_at(picked[n], SubSeq(permutation, 1, header.ciphertext_len))
        symbols == Opened(master, derive_nonce(master, header.symbol_index), cells)
    IN  /\ phase = "opening" /\ n <= Len(picked)
        /\ \/ /\ header.ciphertext_len > Len(permutation)
              /\ Return(<<"InvalidStegoImage">>) /\ UNCHANGED <<picked, headers, passphrase, received>>
           \/ /\ header.ciphertext_len <= Len(permutation) /\ symbols = {}
              /\ Return(<<"AeadAuthFailed">>) /\ UNCHANGED <<picked, headers, passphrase, received>>
           \/ /\ header.ciphertext_len <= Len(permutation)
              /\ \E symbol \in symbols : received' = Append(received, symbol)
              /\ UNCHANGED <<phase, result, writing, directory, sessions, sealed, damage,
                             picked, headers, passphrase>>

\* FileReassembler::finalize.
Finalize ==
    /\ phase = "opening" /\ Len(received) = Len(picked)
    /\ Return(IF {received[i].index : i \in DOMAIN received} = 0 .. (received[1].total - 1)
              THEN <<"Ok", received[1].file>> ELSE <<"ReassemblyFailed">>)
    /\ UNCHANGED <<picked, headers, passphrase, received>>

-----------------------------------------------------------------------------
Init ==
    /\ phase = "idle" /\ result = <<"none">>
    /\ call = <<>> /\ images = <<>> /\ written = 0
    /\ directory = <<>> /\ sessions = <<>> /\ sealed = {} /\ damage = 0
    /\ picked = <<>> /\ headers = <<>> /\ passphrase = "none" /\ received = <<>>

\* A host is a new photo or one that was written before.
HostLists ==
    UNION {[1 .. n -> {load_png_rgb(png) : png \in Pngs} \cup Range(directory)] :
              n \in 0 .. MaxHosts}

Embed == \/ \E file \in Files, hosts \in HostLists, pass \in Passphrases,
               density \in Densities : BeginEmbed(file, hosts, pass, density)
         \/ EmbedIntoHost
         \/ AppendRemaining
         \/ WritePhoto
         \/ StopWriting

Extract == \/ \E i \in DOMAIN directory : Pick(i)
           \/ ReadHeaders
           \/ \E pass \in Passphrases : BeginOpen(pass)
           \/ OpenImage
           \/ Finalize

Next == \/ Embed
        \/ \E i \in DOMAIN picked : \E c \in DOMAIN picked[i] : Damage(i, c)
        \/ \E i \in DOMAIN picked, len \in CropLengths : Crop(i, len)
        \/ Extract

Spec == Init /\ [][Next]_vars

-----------------------------------------------------------------------------
(* Properties.                                                             *)

\* The image holds the ciphertext of symbol index of an embedding.
Carries(image, id, index) ==
    LET made == sessions[id]
        master == derive_master_key(made.pass, id)
        cells == Ciphertext(master, derive_nonce(master, index),
                            Symbol(made.file, id, index, made.total), made.k)
        where == permute_range(Len(image), derive_permutation_seed(master, id, index))
    IN  /\ Len(where) >= Len(cells)
        /\ \A n \in DOMAIN cells : image[where[n]] = cells[n]

\* ... and the header of that embedding, undamaged.
Presents(image, id, index) ==
    /\ Carries(image, id, index)
    /\ image[3] = HeaderCell("file_id", id)
    /\ \A n \in 1 .. PLAINTEXT_HEADER_CHANNELS : image[n] # Noise

\* What was picked are photos of one embedding, none of which is missing.
WholeSet(id, IsPhoto(_, _, _)) ==
    \E index \in [DOMAIN picked -> 0 .. (sessions[id].total - 1)] :
        /\ \A n \in 0 .. (sessions[id].total - 1) : \E i \in DOMAIN picked : index[i] = n
        /\ \A i \in DOMAIN picked : IsPhoto(picked[i], id, index[i])

\* In whatever order and however often photos are picked, those of one embedding
\* and nothing else are read back with its passphrase; and a file is returned
\* only if they carry all of it, under the passphrase that was given.
ReadsBack ==
    phase = "opened" /\ passphrase # "none" =>
        /\ \A id \in DOMAIN sessions :
              WholeSet(id, Presents) /\ passphrase = sessions[id].pass
                 => result = <<"Ok", sessions[id].file>>
        /\ result[1] = "Ok" =>
              \E id \in DOMAIN sessions :
                 /\ result[2] = sessions[id].file
                 /\ WholeSet(id, Carries) /\ passphrase = sessions[id].pass

\* The assertion of embed_into_host: the capacity promised for the set of hosts
\* holds for each of them.
NeverPanics == result # <<"panic">>

\* No two symbols are sealed under the same key and nonce, over all embeddings,
\* whatever passphrases they share.
SealedOnce ==
    \A a, b \in sealed : a.key = b.key /\ a.nonce = b.nonce => a = b
=============================================================================

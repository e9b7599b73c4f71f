----------------------------- MODULE SymbolWire -----------------------------
(***************************************************************************)
(* One symbol on its way (zion-codec): header and blocks are serialized,   *)
(* padded, cut into Reed-Solomon codewords and interleaved (encode.rs);    *)
(* bytes are damaged, lost at the end, or reported unreadable by the       *)
(* camera; decode.rs tries each ECC profile in turn.                       *)
(*                                                                         *)
(* A byte is a cell that tells where it comes from. Reed-Solomon is ideal  *)
(* within its budget; beyond it, it fails or returns another codeword. A   *)
(* checksum tells every change of the bytes it is over.                    *)
(***************************************************************************)
EXTENDS Integers, Sequences, FiniteSets, Functions

CONSTANTS
    AllProfiles,         \* EccProfile::all(), a sequence
    DataLen,             \* EccProfile::data_len
    RS_N, HEADER_LEN_V1, BLOCK_HEADER_LEN, BLOCK_SIZE_RAW, MAX_SYMBOL_BYTES,
    U32_MAX,
    PayloadLists,        \* lists of payload sizes a symbol may be given
    Starts,              \* values of block_start
    Ks,                  \* numbers of codewords
    MaxDamage,           \* bound on the bytes damaged one by one
    MaxBurst,            \* bound on the length of a run of damaged bytes
    MaxErased            \* bound on the length of a run of reported positions

Profiles == Range(AllProfiles)

ASSUME WireAssumption ==
    /\ {RS_N, HEADER_LEN_V1} \subseteq Nat \ {0}
    /\ BLOCK_HEADER_LEN \in Nat \ {0, 1}
    /\ {BLOCK_SIZE_RAW, MAX_SYMBOL_BYTES, U32_MAX, MaxDamage, MaxBurst, MaxErased} \subseteq Nat
    \* A header fits in one codeword of any profile.
    /\ DataLen \in [Profiles -> HEADER_LEN_V1 .. RS_N]
    /\ Starts \subseteq 0 .. U32_MAX
    /\ Ks \subseteq Nat
    /\ AllProfiles \in Seq(Profiles)
    /\ PayloadLists \subseteq Seq(Nat)

VARIABLES
    phase,         \* "idle", "sent", "words", "header", "blocks", "done"
    sent,          \* history: the symbol that was encoded
    wire,          \* its bytes as they arrive
    hits,          \* number of bytes damaged one by one
    erased,        \* the positions the camera layer reports
    by_codeword,   \* build_erasure_map's answer
    attempt,       \* index of the profile being tried
    pre_ecc,       \* what has been corrected so far
    entries,       \* DecodedSymbol.blocks
    first_error,
    outcome

wire_vars == <<phase, sent, wire, hits, erased, by_codeword, attempt, pre_ecc, entries,
               first_error, outcome>>

received == <<wire, erased>>
reading == <<by_codeword, attempt, pre_ecc, entries, first_error>>

-----------------------------------------------------------------------------
(* Mutants.                                                                *)

PlaceByRows(i, k) == [word |-> (i \div RS_N) + 1, row |-> (i % RS_N) + 1]
ErasedRowsSwapped(positions, k, j) ==
    {(p % k) + 1 : p \in {q \in Range(positions) : (q \div k) + 1 = j}}
StopsNever(ok) == FALSE

-----------------------------------------------------------------------------
(* Cells.                                                                  *)

Cell(of, n, at) == [of |-> of, n |-> n, at |-> at]
ZeroCell == Cell("zero", 0, 0)
Junk == Cell("junk", 0, 0)

HeaderCells == [i \in 1 .. HEADER_LEN_V1 |-> Cell("header", 0, i)]
BlockCells(n, size) == [i \in 1 .. (BLOCK_HEADER_LEN + size) |-> Cell("block", n, i)]

-----------------------------------------------------------------------------
(* Reed-Solomon codewords and interleaving (ecc.rs).                       *)

parity_len(profile) == RS_N - DataLen[profile]
correction_budget(profile) == parity_len(profile) \div 2

\* Zeros have zero parity.
rs_encode(data, j) ==
    data \o [r \in 1 .. (RS_N - Len(data)) |->
                IF Range(data) = {ZeroCell} THEN ZeroCell ELSE Cell("parity", j, r)]

\* The word and the row of the byte at position i, counted from 0.
Place(i, k) == [word |-> (i % k) + 1, row |-> (i \div k) + 1]

interleave_column_major(words) ==
    [i \in 1 .. (Len(words) * RS_N) |->
        LET p == Place(i - 1, Len(words)) IN words[p.word][p.row]]

deinterleave_column_major(bytes, k) ==
    [j \in 1 .. k |-> [r \in 1 .. RS_N |-> bytes[(r - 1) * k + j]]]

\* The codewords that were sent and belong to the profile's code: the
\* generators divide one another, so more parity is a subcode of less.
CodewordsOf(profile) ==
    {w \in Range(sent.words) :
        DataLen[sent.profile] <= DataLen[profile] \/ Range(w) = {ZeroCell}}

\* An erasure costs one parity byte, an error two.
Correctable(word, erasures, profile, codeword) ==
    Cardinality(erasures)
        + 2 * Cardinality({r \in 1 .. RS_N : r \notin erasures /\ word[r] # codeword[r]})
        <= parity_len(profile)

-----------------------------------------------------------------------------
(* Encoding (try_encode_single_symbol_with_profile).                       *)

Concat(parts) ==
    LET join[i \in 0 .. Len(parts)] == IF i = 0 THEN <<>> ELSE join[i - 1] \o parts[i]
    IN  join[Len(parts)]

Serialized(sizes) ==
    HeaderCells \o Concat([n \in 1 .. Len(sizes) |-> BlockCells(n, sizes[n])])

EncodeError(sizes, k, profile) ==
    IF k = 0 THEN "InvalidK"
    ELSE IF \E n \in DOMAIN sizes : sizes[n] > BLOCK_SIZE_RAW THEN "BlockPayloadTooLarge"
    ELSE IF Len(Serialized(sizes)) > k * DataLen[profile] THEN "SymbolPayloadTooLarge"
    ELSE "Ok"

Words(sizes, k, profile) ==
    LET len == DataLen[profile]
        bytes == Serialized(sizes)
        padded == bytes \o [i \in 1 .. (k * len - Len(bytes)) |-> ZeroCell]
    IN  [j \in 1 .. k |-> rs_encode(SubSeq(padded, (j - 1) * len + 1, j * len), j)]

Encode(sizes, start, k, profile) ==
    /\ phase = "idle"
    /\ outcome' = EncodeError(sizes, k, profile)
    /\ IF outcome' = "Ok"
       THEN LET words == Words(sizes, k, profile)
            IN  /\ phase' = "sent"
                /\ sent' = [sizes |-> sizes, start |-> start, profile |-> profile,
                            words |-> words]
                /\ wire' = interleave_column_major(words)
       ELSE UNCHANGED <<phase, sent, wire>>
    /\ UNCHANGED <<hits, erased, reading>>

-----------------------------------------------------------------------------
(* The channel.                                                            *)

Damage(i) ==
    /\ phase = "sent" /\ hits < MaxDamage /\ i \in DOMAIN wire
    /\ wire' = [wire EXCEPT ![i] = Junk]
    /\ hits' = hits + 1
    /\ UNCHANGED <<phase, sent, erased, reading, outcome>>

\* Consecutive bytes are damaged, and nothing is reported.
Burst(i, n) ==
    /\ phase = "sent" /\ hits = 0 /\ erased = <<>> /\ i + n - 1 \in DOMAIN wire
    /\ wire' = [b \in DOMAIN wire |-> IF b \in i .. (i + n - 1) THEN Junk ELSE wire[b]]
    /\ hits' = MaxDamage + 1
    /\ UNCHANGED <<phase, sent, erased, reading, outcome>>

\* The end of the symbol is lost.
Truncate(n) ==
    /\ phase = "sent" /\ hits = 0 /\ n < Len(wire)
    /\ wire' = SubSeq(wire, 1, n)
    /\ hits' = MaxDamage + 1
    /\ UNCHANGED <<phase, sent, erased, reading, outcome>>

\* A run of positions is reported, with one of them twice, possibly one past
\* the end.
Report(p, n) ==
    /\ phase = "sent" /\ hits <= MaxDamage /\ erased = <<>>
    /\ erased' = [i \in 1 .. n |-> p + i - 1] \o <<p>>
    /\ UNCHANGED <<phase, sent, wire, hits, reading, outcome>>

-----------------------------------------------------------------------------
(* Decoding (decode_symbol_with_erasures).                                 *)

Answer(r) ==
    /\ phase' = "done" /\ outcome' = r
    /\ UNCHANGED <<sent, hits, received, reading>>

K == Len(wire) \div RS_N

\* The rows of codeword j that positions point at (build_erasure_map and
\* normalized_erasures).
ErasedRows(positions, k, j) ==
    {(p \div k) + 1 : p \in {q \in Range(positions) : (q % k) + 1 = j}}

\* validate_symbol_bytes and build_erasure_map.
BeginDecode ==
    /\ phase = "sent"
    /\ \/ (wire = <<>> \/ Len(wire) % RS_N # 0) /\ Answer("BadSize")
       \/ /\ wire # <<>> /\ Len(wire) % RS_N = 0 /\ Len(wire) > MAX_SYMBOL_BYTES
          /\ Answer("SymbolByteLengthTooLarge")
       \/ /\ wire # <<>> /\ Len(wire) % RS_N = 0 /\ Len(wire) <= MAX_SYMBOL_BYTES
          /\ \E i \in DOMAIN erased : erased[i] >= Len(wire)
          /\ Answer("ErasurePositionOutOfRange")
       \/ /\ wire # <<>> /\ Len(wire) % RS_N = 0 /\ Len(wire) <= MAX_SYMBOL_BYTES
          /\ \A i \in DOMAIN erased : erased[i] < Len(wire)
          /\ by_codeword' = [j \in 1 .. K |-> ErasedRows(erased, K, j)]
          /\ attempt' = 1
          /\ phase' = "words"
          /\ UNCHANGED <<sent, hits, received, pre_ecc, entries, first_error, outcome>>

Trying == AllProfiles[attempt]

\* decode_symbol_inner's loop: the first error is kept, the next profile tried.
TryNextProfile(e) ==
    LET kept == IF first_error = "none" THEN e ELSE first_error
    IN  /\ first_error' = kept
        /\ pre_ecc' = <<>>
        /\ IF attempt < Len(AllProfiles)
           THEN phase' = "words" /\ attempt' = attempt + 1 /\ UNCHANGED outcome
           ELSE /\ phase' = "done" /\ UNCHANGED attempt
                /\ outcome' = IF kept = "none" THEN "HeaderCrcMismatch" ELSE kept
        /\ UNCHANGED <<sent, hits, received, by_codeword, entries>>

\* The rows a decoder beyond its budget may change: one of them, or all.
Miscorrections(len) == {{r} : r \in 1 .. len} \cup {1 .. len}

RsResult(error, data) == [error |-> error, data |-> data]

\* rs_decode_codeword_with_profile_and_erasures: its possible results.
rs_decode(word, erasures, profile) ==
    LET len == DataLen[profile]
        found == {w \in CodewordsOf(profile) : Correctable(word, erasures, profile, w)}
    IN  IF Cardinality(erasures) > parity_len(profile)
        THEN {RsResult("TooManyErasures", <<>>)}
        ELSE IF found # {}
        THEN {RsResult("none", SubSeq(w, 1, len)) : w \in found}
        ELSE {RsResult("RsDecodeFailed", <<>>)}
             \cup {RsResult("none", [r \in 1 .. len |-> IF r \in wrong THEN Junk ELSE word[r]]) :
                     wrong \in Miscorrections(len)}

\* One codeword of the symbol is corrected.
DecodeCodeword ==
    LET j == (Len(pre_ecc) \div DataLen[Trying]) + 1
        word == deinterleave_column_major(wire, K)[j]
    IN  /\ phase = "words"
        /\ \E r \in rs_decode(word, by_codeword[j], Trying) :
              \/ r.error # "none" /\ TryNextProfile(r.error)
              \/ /\ r.error = "none"
                 /\ pre_ecc' = pre_ecc \o r.data
                 /\ phase' = IF j = K THEN "header" ELSE "words"
                 /\ UNCHANGED <<sent, hits, received, by_codeword, attempt, entries,
                                first_error, outcome>>

HeaderErrors == {"BadMagic", "UnsupportedVersion", "HeaderLengthInvalid",
                 "HeaderCrcMismatch"}

\* SymbolHeader::parse, then the profile it names and its block range.
ParseHeader ==
    /\ phase = "header"
    /\ \/ /\ SubSeq(pre_ecc, 1, HEADER_LEN_V1) # HeaderCells
          /\ \E e \in HeaderErrors : TryNextProfile(e)
       \/ /\ SubSeq(pre_ecc, 1, HEADER_LEN_V1) = HeaderCells
          /\ \/ sent.profile # Trying /\ TryNextProfile("none")
             \/ /\ sent.profile = Trying
                /\ sent.start + Len(sent.sizes) > U32_MAX
                /\ TryNextProfile("BlockRangeOverflow")
             \/ /\ sent.profile = Trying
                /\ sent.start + Len(sent.sizes) <= U32_MAX
                /\ phase' = "blocks"
                /\ UNCHANGED <<sent, hits, received, reading, outcome>>

Offset == HEADER_LEN_V1 + Len(Concat([n \in DOMAIN entries |-> entries[n].cells]))
OutOfRoom(offset) == offset + BLOCK_HEADER_LEN > Len(pre_ecc)

\* BlockEntry::parse. The checksum in a block's header is of the payload alone;
\* another size makes it a checksum of other bytes. The flags byte, the first,
\* has none: changed, it may still be one of the two known values.
Entry(ok, cells) == [ok |-> ok, cells |-> cells]

ParsedBlock(n) ==
    LET size == BLOCK_HEADER_LEN + sent.sizes[n]
        cells == SubSeq(pre_ecc, Offset + 1, Offset + size)
        expected == BlockCells(n, sent.sizes[n])
    IN  IF OutOfRoom(Offset) \/ Offset + size > Len(pre_ecc)
           \/ Tail(cells) # Tail(expected)
        THEN {Entry(FALSE, <<>>)}
        ELSE {Entry(TRUE, cells)}
             \cup (IF Head(cells) = Head(expected) THEN {} ELSE {Entry(FALSE, <<>>)})

\* The loop over the blocks stops at the first that cannot be read.
Stops(ok) == ~ok

ParseBlock ==
    /\ phase = "blocks" /\ Len(entries) < Len(sent.sizes)
    /\ \E entry \in ParsedBlock(Len(entries) + 1) :
          /\ entries' = Append(entries, entry)
          /\ phase' = IF Stops(entry.ok) \/ Len(entries') = Len(sent.sizes)
                       THEN "done" ELSE "blocks"
    /\ UNCHANGED <<sent, hits, received, by_codeword, attempt, pre_ecc, first_error,
                   outcome>>

\* A symbol without blocks.
NoBlocks ==
    /\ phase = "blocks" /\ sent.sizes = <<>>
    /\ phase' = "done"
    /\ UNCHANGED <<sent, hits, received, reading, outcome>>

-----------------------------------------------------------------------------
WireStart ==
    /\ phase = "idle"
    /\ sent = <<>>
    /\ wire = <<>>
    /\ hits = 0
    /\ erased = <<>>
    /\ by_codeword = <<>>
    /\ attempt = 0
    /\ pre_ecc = <<>>
    /\ entries = <<>>
    /\ first_error = "none"
    /\ outcome = "none"

Channel ==
    \/ \E i \in DOMAIN wire : Damage(i)
    \/ \E i \in DOMAIN wire, n \in 1 .. MaxBurst : Burst(i, n)
    \/ \E n \in 0 .. Len(wire) : Truncate(n)
    \/ \E p \in 0 .. Len(wire), n \in 1 .. MaxErased : Report(p, n)

Decode == BeginDecode \/ DecodeCodeword \/ ParseHeader \/ ParseBlock \/ NoBlocks

WireNext ==
    \/ \E sizes \in PayloadLists, start \in Starts, k \in Ks, profile \in Profiles :
          Encode(sizes, start, k, profile)
    \/ Channel
    \/ Decode

WireSpec == WireStart /\ [][WireNext]_wire_vars

-----------------------------------------------------------------------------
(* Properties.                                                             *)

Whole == Len(wire) = Len(sent.words) * RS_N
InRange == sent.start + Len(sent.sizes) <= U32_MAX

Read == phase = "done" /\ outcome = "Ok"
ReadAll == Read /\ Len(entries) = Len(sent.sizes) /\ \A n \in DOMAIN entries : entries[n].ok

\* The bytes of codeword j that arrived changed, by where the encoder put them.
Hurt(j) ==
    {i \in DOMAIN wire :
        Place(i - 1, Len(sent.words)).word = j /\
        wire[i] # interleave_column_major(sent.words)[i]}
Marked(j) ==
    {i \in DOMAIN wire :
        Place(i - 1, Len(sent.words)).word = j /\ \E e \in DOMAIN erased : erased[e] = i - 1}

\* A symbol that arrives whole is read to its last block whenever no codeword
\* has lost more than its profile can repair, counting one for a reported
\* position and two for an unreported one, wherever they are on the wire.
RepairsItsBudget ==
    /\ phase = "done" /\ Whole /\ InRange
    /\ Len(wire) <= MAX_SYMBOL_BYTES
    /\ \A i \in DOMAIN erased : erased[i] < Len(wire)
    /\ \A j \in 1 .. Len(sent.words) :
          Cardinality(Marked(j)) + 2 * Cardinality(Hurt(j) \ Marked(j))
              <= parity_len(sent.profile)
    => ReadAll

\* The purpose interleaving has: a run of damaged bytes as long as all the
\* codewords' budgets together is repaired, wherever it starts.
BurstsAreRepaired ==
    /\ phase = "done" /\ Whole /\ InRange /\ erased = <<>>
    /\ Len(wire) <= MAX_SYMBOL_BYTES
    /\ \E i \in DOMAIN wire :
          \A b \in DOMAIN wire :
             wire[b] = Junk =>
                b \in i .. (i + Len(sent.words) * correction_budget(sent.profile) - 1)
    => ReadAll

\* Whatever arrives, the payloads that are returned are those of a run of the
\* blocks sent, from the first on, with at most one failure, at the end: no block
\* is skipped, and none is read after the reader lost its place. (Their flags
\* are not covered: no checksum of the symbol is over them.)
BlocksArePrefix ==
    Read =>
        \A n \in DOMAIN entries :
            /\ entries[n].ok => Tail(entries[n].cells) = Tail(BlockCells(n, sent.sizes[n]))
            /\ ~entries[n].ok => n = Len(entries)
=============================================================================

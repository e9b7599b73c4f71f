----------------------------- MODULE ArcCapsule -----------------------------
(***************************************************************************)
(* The life of an ARC capsule (zion-arc): an item is sealed into the       *)
(* channels of a picture, the picture is edited, cropped or reshaped, a    *)
(* test fixture is made of it, and somebody opens it.                      *)
(*                                                                         *)
(* Encryption and error correction are ideal: a codeword with no more      *)
(* wrong bytes than the profile corrects is restored, and any other        *)
(* ciphertext, key or associated data than the sealed one is refused.      *)
(***************************************************************************)
EXTENDS Integers, Sequences, FiniteSets, Functions

CONSTANTS
    Covers,              \* the PNG files a caller may give
    Items,               \* what may be sealed, with the frame zstd makes of it
    Contents, Chars,     \* what an item may hold; the bytes of names and frames
    Keys,                \* collection keys, one per passphrase and collection
    Patterns,            \* the bytes an encoded codeword may have
    Boots,               \* the bits a bootstrap may have
    Word(_, _),          \* ArcPrng: seed, index -> a word
    None,
    Profiles, DataLen,   \* EccProfile and its data_len
    RS_N, ByteBits, BOOTSTRAP_LEN, ENVELOPE_HEADER_LEN, AEAD_TAG_LEN,
    MAX_CODEWORDS, DENSITY_NUMERATOR, DENSITY_DENOMINATOR,
    MAX_DIMENSION, MAX_PIXELS, MAX_ORIGINAL_LEN, MAX_COMPRESSED_LEN,
    MAX_NAME_LEN, MAX_MEDIA_TYPE_LEN, MAX_ATTRIBUTION_LEN, NUL,
    MaxChannel,          \* 255
    WordSize,            \* 2^32
    MaxEdits             \* bound on what happens to a sealed picture

ASSUME ConstantsAssumption ==
    /\ {RS_N, ByteBits, BOOTSTRAP_LEN, DENSITY_DENOMINATOR, MaxChannel,
        WordSize} \subseteq Nat \ {0}
    /\ {ENVELOPE_HEADER_LEN, AEAD_TAG_LEN, MAX_CODEWORDS, DENSITY_NUMERATOR,
        MAX_DIMENSION, MAX_PIXELS, MAX_ORIGINAL_LEN, MAX_COMPRESSED_LEN,
        MAX_NAME_LEN, MAX_MEDIA_TYPE_LEN, MAX_ATTRIBUTION_LEN, MaxEdits} \subseteq Nat
    /\ DataLen \in [Profiles -> 1 .. RS_N]
    /\ DENSITY_NUMERATOR <= DENSITY_DENOMINATOR
    /\ Boots \subseteq [1 .. BOOTSTRAP_LEN * ByteBits -> {0, 1}]
    /\ Patterns \subseteq [1 .. RS_N -> [1 .. ByteBits -> {0, 1}]]
    /\ Items \subseteq
           [original_len : Nat, content : Contents, name : Seq(Chars),
            media_type : Seq(Chars), attribution : Seq(Chars),
            frame : Seq(Chars) \ {<<>>}]
    /\ \A png \in Covers :
          /\ png.width \in Nat /\ png.height \in Nat
          /\ png.raster \in [1 .. (3 * png.width * png.height) -> 0 .. MaxChannel]

VARIABLES
    step,      \* where the call in progress is, or "idle"
    result,    \* what the last call returned
    derived,   \* has the call in progress passed key derivation
    call,      \* its arguments
    plan,      \* Prepared: the lengths the seal is committed to
    image,     \* the picture in hand
    capsule,   \* history: what was sealed in it, and the cover
    edits,     \* history: edits since
    opened     \* what opening returned

vars == <<step, result, derived, call, plan, image, capsule, edits, opened>>

-----------------------------------------------------------------------------
(* Mutants: what a plausible slip in the code would make of a definition.  *)

PlaceByRows(i, count) ==
    [word |-> ((i - 1) \div RS_N) + 1, row |-> ((i - 1) % RS_N) + 1]
PaddingFull(tagged, k) == k - (tagged % k)
FlippedRowsOneMore(profile) == 1 .. (((RS_N - DataLen[profile]) \div 2) + 1)

-----------------------------------------------------------------------------
(* Capacity (types.rs).                                                    *)

BOOTSTRAP_CHANNELS == BOOTSTRAP_LEN * ByteBits
Channels(w, h) == 3 * w * h
candidate_bits(w, h) == Channels(w, h) - BOOTSTRAP_CHANNELS
usable_bits(w, h) == (candidate_bits(w, h) * DENSITY_NUMERATOR) \div DENSITY_DENOMINATOR
bits_per_codeword == RS_N * ByteBits

max_codewords(w, h) ==
    LET n == usable_bits(w, h) \div bits_per_codeword
    IN  IF n < MAX_CODEWORDS THEN n ELSE MAX_CODEWORDS

\* The limits on the raster and on the permutation follow from MAX_PIXELS.
CapacityError(w, h) ==
    IF w = 0 \/ h = 0 \/ w > MAX_DIMENSION \/ h > MAX_DIMENSION \/ w * h > MAX_PIXELS
    THEN "InvalidDimensions"
    ELSE IF candidate_bits(w, h) < 0 \/ max_codewords(w, h) = 0
    THEN "CarrierTooSmall"
    ELSE "Ok"

correction_budget(profile) == (RS_N - DataLen[profile]) \div 2

-----------------------------------------------------------------------------
(* Carrier (carrier.rs).                                                   *)

\* preflight_png walks the chunks: none may be cut off by the end of the file
\* or belong to an animation, image data comes first, and an empty IEND ends
\* the file.
ChunksOk(chunks) ==
    \E n \in DOMAIN chunks :
        /\ chunks[n] = "IEND" /\ n = Len(chunks)
        /\ \A j \in 1 .. (n - 1) : chunks[j] \in {"IDAT", "other"}
        /\ \E j \in 1 .. (n - 1) : chunks[j] = "IDAT"

\* decode_png, its checks in order; `decodes` is what the png library says.
DecodeError(png) ==
    IF png.oversized THEN "InputTooLarge"
    ELSE IF ~png.signed THEN "InvalidPng"
    ELSE IF ~png.rgb8 THEN "UnsupportedPixelFormat"
    ELSE IF CapacityError(png.width, png.height) # "Ok"
    THEN CapacityError(png.width, png.height)
    ELSE IF ~ChunksOk(png.chunks) \/ ~png.decodes THEN "InvalidPng"
    ELSE "Ok"

\* The picture save_png_rgb writes and decode_png reads back.
Picture(w, h, raster) ==
    [oversized |-> FALSE, signed |-> TRUE, rgb8 |-> TRUE, width |-> w,
     height |-> h, chunks |-> <<"IDAT", "IEND">>, decodes |-> TRUE,
     raster |-> raster]

Threshold(bound) == WordSize % bound

\* The first word from the n-th on that is not rejected.
Accepted(seed, n, bound) ==
    LET from[m \in Nat] == IF Word(seed, m) >= Threshold(bound) THEN m ELSE from[m + 1]
    IN  from[n]

\* The channels after the bootstrap, numbered from 1.
Candidates(channels) ==
    [i \in 1 .. (channels - BOOTSTRAP_CHANNELS) |-> BOOTSTRAP_CHANNELS + i]

Swap(s, i, j) == [s EXCEPT ![i] = s[j], ![j] = s[i]]

\* The words the swaps use, the j-th at j + 1: each takes the first that is not
\* rejected after the one before it.
Draws(n, seed) ==
    LET draws[j \in 0 .. (n - 1)] ==
            IF j = 0 THEN <<-1>>
            ELSE LET before == draws[j - 1]
                 IN  Append(before, Accepted(seed, before[j] + 1, n - j + 1))
    IN  draws[n - 1]

\* The candidates, shuffled from the last to the first.
Shuffled(channels, seed) ==
    LET n == channels - BOOTSTRAP_CHANNELS
        draws == Draws(n, seed)
        done[j \in 0 .. (n - 1)] ==
            IF j = 0 THEN Candidates(channels)
            ELSE Swap(done[j - 1], n - j + 1, (Word(seed, draws[j + 1]) % (n - j + 1)) + 1)
    IN  done[n - 1]

\* payload_positions: the first required_bits of them.
payload_positions(channels, seed, required_bits) ==
    LET shuffled == Shuffled(channels, seed) IN [i \in 1 .. required_bits |-> shuffled[i]]

Parity(v) == v % 2

\* What the i-th embedded bit is, for a sequence of bytes.
BitOf(bytes, i) == bytes[((i - 1) \div ByteBits) + 1][((i - 1) % ByteBits) + 1]

\* A channel that must change moves one step, away from the ends of its range;
\* the matching stream picks the direction elsewhere.
Step(v, up) ==
    IF v = 0 THEN 1 ELSE IF v = MaxChannel THEN MaxChannel - 1
    ELSE IF up THEN v + 1 ELSE v - 1

\* embed_payload: one word of the matching stream per bit, used or not.
Embedded(raster, positions, bytes, seed) ==
    [c \in DOMAIN raster |->
        LET here == {i \in DOMAIN positions : positions[i] = c}
            i == CHOOSE i \in here : TRUE
        IN  IF here # {} /\ Parity(raster[c]) # BitOf(bytes, i)
            THEN Step(raster[c], Word(seed, i - 1) % 2 = 1)
            ELSE raster[c]]

\* embed_bootstrap: one up, or one down from the top.
WithBootstrap(raster, boot) ==
    [c \in DOMAIN raster |->
        IF c <= BOOTSTRAP_CHANNELS /\ Parity(raster[c]) # boot[c]
        THEN IF raster[c] = MaxChannel THEN MaxChannel - 1 ELSE raster[c] + 1
        ELSE raster[c]]

extract_bootstrap(raster) == [c \in 1 .. BOOTSTRAP_CHANNELS |-> Parity(raster[c])]

extract_payload(raster, positions, byte_len) ==
    [i \in 1 .. byte_len |->
        [b \in 1 .. ByteBits |-> Parity(raster[positions[(i - 1) * ByteBits + b]])]]

-----------------------------------------------------------------------------
(* Interleaving (interleave_column_major) and the seeds.                   *)

\* The codeword and the row the i-th byte on the carrier belongs to.
Place(i, count) == [word |-> ((i - 1) % count) + 1, row |-> ((i - 1) \div count) + 1]

Interleaved(codewords) ==
    [i \in 1 .. (Len(codewords) * RS_N) |->
        LET p == Place(i, Len(codewords)) IN codewords[p.word][p.row]]

Deinterleaved(bytes, count) ==
    [w \in 1 .. count |-> [r \in 1 .. RS_N |-> bytes[(r - 1) * count + w]]]

Wrong(received, sent) == Cardinality({r \in 1 .. RS_N : received[r] # sent[r]})

\* derive_capsule_values: two seeds that depend on key and dimensions.
PermutationSeed(key, w, h) == <<"permutation", key, w, h>>
MatchingSeed(key, w, h) == <<"matching", key, w, h>>

\* Every swap finds a word that is not rejected.
ASSUME DrawsAssumption ==
    \A key \in Keys, w \in 1 .. MAX_DIMENSION, h \in 1 .. MAX_DIMENSION :
        CapacityError(w, h) = "Ok" =>
            LET n == candidate_bits(w, h)
                seed == PermutationSeed(key, w, h)
            IN  \A j \in 1 .. (n - 1) : Word(seed, Draws(n, seed)[j + 1]) \in Nat

-----------------------------------------------------------------------------
(* The envelope (envelope.rs) and the compressed frame in it.              *)

MetadataOk(item) ==
    /\ Len(item.name) \in 1 .. MAX_NAME_LEN
    /\ Len(item.media_type) \in 1 .. MAX_MEDIA_TYPE_LEN
    /\ Len(item.attribution) <= MAX_ATTRIBUTION_LEN
    /\ NUL \notin Range(item.name) \cup Range(item.media_type)

\* The envelope without its padding, and the tag encryption will add.
TaggedLen(item) ==
    ENVELOPE_HEADER_LEN + Len(item.name) + Len(item.media_type)
        + Len(item.attribution) + Len(item.frame) + AEAD_TAG_LEN

Padding(tagged, k) == (k - (tagged % k)) % k

\* serialize: the lengths, then the parts one after the other.
Serialized(item, k) ==
    LET padding == Padding(TaggedLen(item), k)
    IN  [original_len |-> item.original_len,
         content_hash |-> item.content,
         lens |-> <<Len(item.name), Len(item.media_type), Len(item.attribution),
                    Len(item.frame), padding>>,
         body |-> item.name \o item.media_type \o item.attribution \o item.frame
                      \o [i \in 1 .. padding |-> "random"]]

\* What the frame was made of, if decoding ends exactly at its end and with
\* exactly original_len bytes; {} stands for an error.
decompress_static_frame(frame, original_len) ==
    {i.content : i \in {j \in Items : j.frame = frame /\ j.original_len = original_len}}

Decompressed(frame, original_len) ==
    IF Len(frame) \in 1 .. MAX_COMPRESSED_LEN /\ original_len <= MAX_ORIGINAL_LEN
    THEN decompress_static_frame(frame, original_len)
    ELSE {}

\* parse cuts the body at the lengths and checks them against each other; the
\* content must have the hash. {} stands for an error.
Parsed(envelope, k) ==
    LET start[i \in 1 .. 6] == IF i = 1 THEN 0 ELSE start[i - 1] + envelope.lens[i - 1]
        Part(i) == SubSeq(envelope.body, start[i] + 1, start[i + 1])
        read(content) ==
            [original_len |-> envelope.original_len, content |-> content,
             name |-> Part(1), media_type |-> Part(2), attribution |-> Part(3),
             frame |-> Part(4)]
    IN  {i \in {read(c) : c \in Decompressed(Part(4), envelope.original_len)} :
            /\ start[6] = Len(envelope.body)
            /\ envelope.original_len <= MAX_ORIGINAL_LEN
            /\ Len(i.frame) \in 1 .. MAX_COMPRESSED_LEN
            /\ MetadataOk(i)
            /\ envelope.lens[5] = Padding(TaggedLen(i), k)
            /\ i.content = envelope.content_hash}

-----------------------------------------------------------------------------
(* Sealing (seal_png_bytes, with a fresh or a cached collection key).      *)

Return(r) == step' = "idle" /\ result' = r
Refuse(r) == Return(r) /\ UNCHANGED <<derived, call, plan, image, capsule, edits, opened>>
Proceed(to) == step' = to /\ UNCHANGED result

BeginSeal ==
    /\ step = "idle" /\ capsule = None
    /\ \E item \in Items, profile \in Profiles, key \in Keys, cover \in Covers :
          call' = [op |-> "seal", item |-> item, profile |-> profile, key |-> key,
                   cover |-> cover]
    /\ step' = "inputs"
    /\ result' = "none" /\ derived' = FALSE /\ plan' = None /\ opened' = None
    /\ UNCHANGED <<image, capsule, edits>>

\* validate_passphrase and validate_inputs.
ValidateInputs ==
    /\ step = "inputs"
    /\ \/ ~call.key.valid /\ Refuse("InvalidPassphraseLength")
       \/ /\ call.key.valid /\ call.item.original_len > MAX_ORIGINAL_LEN
          /\ Refuse("ContentTooLarge")
       \/ /\ call.key.valid /\ call.item.original_len <= MAX_ORIGINAL_LEN
          /\ ~MetadataOk(call.item)
          /\ Refuse("InvalidMetadata")
       \/ /\ call.key.valid /\ call.item.original_len <= MAX_ORIGINAL_LEN
          /\ MetadataOk(call.item)
          /\ Proceed("cover")
          /\ UNCHANGED <<derived, call, plan, image, capsule, edits, opened>>

DecodeCover ==
    /\ step = "cover"
    /\ \/ DecodeError(call.cover) # "Ok" /\ Refuse(DecodeError(call.cover))
       \/ /\ DecodeError(call.cover) = "Ok"
          /\ Proceed("prepare")
          /\ UNCHANGED <<derived, call, plan, image, capsule, edits, opened>>

Prepared(item, profile) ==
    LET padding == Padding(TaggedLen(item), DataLen[profile])
        len == TaggedLen(item) + padding
    IN  [padding_len |-> padding, ciphertext_len |-> len,
         codeword_count |-> len \div DataLen[profile]]

\* prepare's checks after compression, in order.
PrepareError(item, profile, cover) ==
    LET p == Prepared(item, profile)
    IN  IF Len(item.frame) > MAX_COMPRESSED_LEN THEN "CompressedTooLarge"
        ELSE IF p.ciphertext_len % DataLen[profile] # 0 THEN "ArithmeticOverflow"
        ELSE IF \/ p.codeword_count \notin 1 .. MAX_CODEWORDS
                \/ p.codeword_count > max_codewords(cover.width, cover.height)
        THEN "CapacityExceeded"
        ELSE "Ok"

\* prepare: compress, pad to whole codewords, compare with the capacity.
Prepare ==
    /\ step = "prepare"
    /\ LET e == PrepareError(call.item, call.profile, call.cover)
       IN  \/ Refuse("CompressionFailed")
           \/ e # "Ok" /\ Refuse(e)
           \/ /\ e = "Ok"
              /\ plan' = Prepared(call.item, call.profile)
              /\ Proceed("key")
              /\ UNCHANGED <<derived, call, image, capsule, edits, opened>>

\* CollectionKey::new, fresh_capsule_id and random_padding.
DrawKeyAndId ==
    /\ step = "key"
    /\ \/ \E r \in {"RandomFailed", "KdfFailed"} : Refuse(r)
       \/ /\ Proceed("seal_image")
          /\ derived' = TRUE
          /\ UNCHANGED <<call, plan, image, capsule, edits, opened>>

Sealed(codewords, boot) ==
    LET w == call.cover.width
        h == call.cover.height
        bytes == Interleaved(codewords)
        positions == payload_positions(Channels(w, h), PermutationSeed(call.key, w, h),
                                       Len(bytes) * ByteBits)
    IN  WithBootstrap(Embedded(call.cover.raster, positions, bytes,
                               MatchingSeed(call.key, w, h)), boot)

\* seal_image: whatever the ciphertext and its parity, and whatever the
\* identifiers make of the bootstrap.
SealImage ==
    /\ step = "seal_image"
    /\ LET bits == plan.codeword_count * bits_per_codeword
           room == usable_bits(call.cover.width, call.cover.height)
       IN  \/ Refuse(IF bits > room THEN "CapacityExceeded" ELSE "PngEncodeFailed")
           \/ /\ bits <= room
              /\ \E codewords \in [1 .. plan.codeword_count -> Patterns], boot \in Boots :
                    LET raster == Sealed(codewords, boot)
                    IN  /\ image' = Picture(call.cover.width, call.cover.height, raster)
                        /\ capsule' = [item |-> call.item, profile |-> call.profile,
                                       envelope |-> Serialized(call.item, DataLen[call.profile]),
                                       key |-> call.key, cover |-> call.cover,
                                       codewords |-> codewords, boot |-> boot,
                                       raster |-> raster]
              /\ Return("Ok")
              /\ UNCHANGED <<derived, call, plan, edits, opened>>

-----------------------------------------------------------------------------
(* What happens to a sealed picture.                                       *)

Edited(png) ==
    /\ step = "idle" /\ capsule # None /\ edits < MaxEdits
    /\ edits' = edits + 1
    /\ result' = "none" /\ derived' = FALSE /\ call' = None /\ plan' = None
    /\ opened' = None
    /\ image' = png
    /\ UNCHANGED <<step, capsule>>

Flip(v) == IF v % 2 = 0 THEN v + 1 ELSE v - 1

\* A lossless edit that changes one channel.
EditChannel(c) ==
    /\ c \in DOMAIN image.raster
    /\ Edited([image EXCEPT !.raster[c] = Flip(@)])

\* The bottom row is cut off.
Crop ==
    /\ image.height > 1
    /\ Edited(Picture(image.width, image.height - 1,
                      SubSeq(image.raster, 1,
                             Channels(image.width, image.height - 1))))

\* The same channels as a picture of another shape.
Reshape ==
    /\ image.width # image.height
    /\ Edited(Picture(image.height, image.width, image.raster))

-----------------------------------------------------------------------------
(* Opening, and the corruption fixture, which opens what it has made.      *)

ParseErrors == {"BadMagic", "UnsupportedVersion", "InvalidBootstrapLength",
                "BootstrapCrcMismatch"}

\* open_png_bytes is given a passphrase, open_png_bytes_with_collection_key a
\* key, make_bounded_corruption_fixture a passphrase.
BeginOpen ==
    /\ step = "idle" /\ capsule # None
    /\ \E key \in Keys, op \in {"open", "open_cached", "fixture"} :
          /\ op = "open_cached" => key.valid
          /\ op = "fixture" => edits < MaxEdits
          /\ call' = [op |-> op, key |-> key]
    /\ step' = "bootstrap"
    /\ result' = "none" /\ derived' = FALSE /\ plan' = None /\ opened' = None
    /\ UNCHANGED <<image, capsule, edits>>

\* decode_png, extract_bootstrap and Bootstrap::parse: the checksum tells
\* every change; which check meets it first depends on the byte.
ReadBootstrap ==
    /\ step = "bootstrap"
    /\ \/ DecodeError(image) # "Ok" /\ Refuse(DecodeError(image))
       \/ /\ DecodeError(image) = "Ok"
          /\ extract_bootstrap(image.raster) # capsule.boot
          /\ \E e \in ParseErrors : Refuse(e)
       \/ /\ DecodeError(image) = "Ok"
          /\ extract_bootstrap(image.raster) = capsule.boot
          /\ Proceed("capacity")
          /\ UNCHANGED <<derived, call, plan, image, capsule, edits, opened>>

\* validate_bootstrap_capacity.
CheckCapacity ==
    LET count == Len(capsule.codewords)
        fits == /\ count <= max_codewords(image.width, image.height)
                /\ count * bits_per_codeword <= usable_bits(image.width, image.height)
    IN  /\ step = "capacity"
        /\ \/ ~fits /\ Refuse("CapacityExceeded")
           \/ /\ fits
              /\ Proceed("derive")
              /\ UNCHANGED <<derived, call, plan, image, capsule, edits, opened>>

\* The passphrase and the key derived from it for the bootstrap's collection,
\* or the cached key if it is that collection's.
DeriveKey ==
    /\ step = "derive"
    /\ \/ ~call.key.valid /\ Refuse("InvalidPassphraseLength")
       \/ /\ call.op = "open_cached" /\ call.key.collection # capsule.key.collection
          /\ Refuse("RecoveryFailed")
       \/ call.op # "open_cached" /\ call.key.valid /\ Refuse("KdfFailed")
       \/ /\ call.key.valid
          /\ call.op = "open_cached" => call.key.collection = capsule.key.collection
          /\ call' = [call EXCEPT !.key.collection = capsule.key.collection]
          /\ derived' = TRUE
          /\ Proceed(IF call.op = "fixture" THEN "corrupt" ELSE "recover")
          /\ UNCHANGED <<plan, image, capsule, edits, opened>>

PayloadPositions(png) ==
    payload_positions(Channels(png.width, png.height),
                      PermutationSeed(call.key, png.width, png.height),
                      Len(capsule.codewords) * bits_per_codeword)

\* recover_image: if each codeword can be corrected, what comes out is what was
\* encrypted, provided key, bootstrap and dimensions are the same. {} stands
\* for an error.
Recovered(png) ==
    LET count == Len(capsule.codewords)
        received == Deinterleaved(extract_payload(png.raster, PayloadPositions(png),
                                                  count * RS_N), count)
    IN  IF /\ call.key = capsule.key
           /\ <<png.width, png.height>> = <<capsule.cover.width, capsule.cover.height>>
           /\ \A w \in 1 .. count :
                 Wrong(received[w], capsule.codewords[w])
                     <= correction_budget(capsule.profile)
        THEN Parsed(capsule.envelope, DataLen[capsule.profile])
        ELSE {}

Recover ==
    /\ step = "recover"
    /\ \/ \E item \in Recovered(image) :
             /\ opened' = item
             /\ Return("Ok")
             /\ UNCHANGED <<derived, call, plan, image, capsule, edits>>
       \/ Recovered(image) = {} /\ Refuse("RecoveryFailed")

FlippedRows(profile) == 1 .. correction_budget(profile)

\* The first bit of each of the bytes in these rows of every codeword.
Corrupted(png) ==
    LET count == Len(capsule.codewords)
        bytes == {(r - 1) * count + w : r \in FlippedRows(capsule.profile), w \in 1 .. count}
        hit == {PayloadPositions(png)[(b - 1) * ByteBits + 1] : b \in bytes}
    IN  [png EXCEPT !.raster = [c \in DOMAIN png.raster |->
            IF c \in hit THEN Flip(png.raster[c]) ELSE png.raster[c]]]

\* The fixture is returned only if it can be encoded and opens.
MakeFixture ==
    /\ step = "corrupt"
    /\ \/ \E e \in {"InvalidPng", "InputTooLarge"} : Refuse(e)
       \/ /\ Recovered(Corrupted(image)) # {}
          /\ edits' = MaxEdits
          /\ image' = Corrupted(image)
          /\ Return("Ok")
          /\ UNCHANGED <<derived, call, plan, capsule, opened>>
       \/ Recovered(Corrupted(image)) = {} /\ Refuse("RecoveryFailed")

-----------------------------------------------------------------------------
Init ==
    /\ step = "idle"
    /\ result = "none"
    /\ derived = FALSE
    /\ call = None
    /\ plan = None
    /\ image = None
    /\ capsule = None
    /\ edits = 0
    /\ opened = None

Seal == BeginSeal \/ ValidateInputs \/ DecodeCover \/ Prepare \/ DrawKeyAndId \/ SealImage

EditPicture ==
    /\ image # None
    /\ (\E c \in DOMAIN image.raster : EditChannel(c)) \/ Crop \/ Reshape

Open == BeginOpen \/ ReadBootstrap \/ CheckCapacity \/ DeriveKey \/ Recover \/ MakeFixture

Next == Seal \/ EditPicture \/ Open

Spec == Init /\ [][Next]_vars
-----------------------------------------------------------------------------
(* Properties.                                                             *)

Disturbed == {c \in DOMAIN image.raster : Parity(image.raster[c]) # Parity(capsule.raster[c])}

SameShape ==
    <<image.width, image.height>> = <<capsule.cover.width, capsule.cover.height>>

\* Has a call to one of these functions just returned?
Returned(ops) == step = "idle" /\ call # None /\ call.op \in ops

\* A capsule opens with its passphrase, or its cached key, as long as the shape
\* and the bootstrap are intact and no more channels were disturbed than one
\* codeword can lose, wherever they are; and whatever opens is the whole item
\* that was sealed, under the same passphrase and in the same shape.
Survives ==
    Returned({"open", "open_cached"}) =>
        /\ result = "Ok" =>
              /\ opened = capsule.item
              /\ call.key.passphrase = capsule.key.passphrase
              /\ SameShape
        /\ (/\ SameShape /\ call.key = capsule.key
            /\ Disturbed \cap 1 .. BOOTSTRAP_CHANNELS = {}
            /\ Cardinality(Disturbed) <= correction_budget(capsule.profile))
               => result \in {"Ok", "KdfFailed"}

\* make_bounded_corruption_fixture reaches the bound it documents and does not
\* pass it: it never fails to recover what it made of an intact capsule, and
\* the picture differs from the capsule in exactly the promised number of
\* channels, none of them in the bootstrap.
FixtureAtBound ==
    [][step = "corrupt" /\ SameShape /\ Disturbed = {} /\ call.key = capsule.key =>
          /\ result' # "RecoveryFailed"
          /\ result' = "Ok" =>
                /\ Disturbed' \cap 1 .. BOOTSTRAP_CHANNELS = {}
                /\ Cardinality(Disturbed') =
                      correction_budget(capsule.profile) * Len(capsule.codewords)]_vars

\* Sealing says CapacityExceeded only if the item really does not fit: the
\* padding never costs a codeword. And once the lengths are settled, nothing
\* but the random source, the key derivation or the encoder can still fail.
SealFits ==
    /\ Returned({"seal"}) /\ result = "CapacityExceeded" =>
          TaggedLen(call.item) >
              max_codewords(call.cover.width, call.cover.height) * DataLen[call.profile]
    /\ Returned({"seal"}) /\ plan # None =>
          result \in {"Ok", "RandomFailed", "KdfFailed", "PngEncodeFailed"}
=============================================================================

------------------------------ MODULE Optical ------------------------------
(***************************************************************************)
(* zion-optical and the commands over it: a file is encoded, its symbols   *)
(* are laid out behind a header in the pixels of one PNG of a chosen       *)
(* shape, and padded with zeros; the PNG is damaged, cut, recoloured, or   *)
(* given another header, and extracted or inspected.                       *)
(*                                                                         *)
(* A byte of the image is a cell that tells what was written there; a      *)
(* field of the header is one cell. CRC32C tells every change under it;    *)
(* a codeword is corrected up to Correctable bytes and refused beyond.     *)
(***************************************************************************)
EXTENDS Integers, Sequences, FiniteSets

CONSTANTS
    OpticalFiles,      \* the files rendered
    Blocks,            \* the blocks of a file, 0 for an empty one
    MinK,              \* the smallest K the codec encodes it with
    Ks,                \* the values of --k
    Shapes,            \* ImageShape, and what --aspect cannot be read as
    RS_N, MAX_K, OPTICAL_HEADER_LEN, MAX_PAYLOAD_BYTES_V1, U16_MAX, U32_MAX, U64_MAX,
    ISIZE_MAX,         \* the longest a Vec may be
    Correctable,       \* bytes of a codeword the codec corrects
    Headers,           \* fields another writer may put in a header
    MaxDamage          \* bound on the changes to an image

Fields == <<"magic", "version", "header_len", "flags", "k_global", "total_symbols",
            "reserved", "payload_len", "crc">>
BYTES_PER_PIXEL == 3

ASSUME OpticalAssumption ==
    /\ OPTICAL_HEADER_LEN = Len(Fields)
    /\ {RS_N, MAX_K} \subseteq Nat \ {0}
    /\ {MAX_PAYLOAD_BYTES_V1, U16_MAX, U32_MAX, U64_MAX, ISIZE_MAX, Correctable, MaxDamage}
           \subseteq Nat
    /\ ISIZE_MAX <= U64_MAX
    /\ Correctable < RS_N
    /\ Ks \subseteq 0 .. U16_MAX
    /\ Blocks \in [OpticalFiles -> Nat] /\ MinK \in [OpticalFiles -> Nat \ {0}]
    /\ Shapes \subseteq
           [kind : {"Square", "WidthHeight", "Aspect", "malformed"}, w : 0 .. U32_MAX,
            h : 0 .. U32_MAX]
    /\ Headers \subseteq
           [flags : Nat, k_global : Nat, total_symbols : Nat, reserved : Nat,
            payload_len : Nat]

VARIABLES
    request,     \* history: the file, K and shape of the last render
    image,       \* the PNG at the output path
    original,    \* history: that PNG as it was rendered
    command,     \* the last command
    result,      \* what it returned
    damage       \* changes to the image so far

optical_vars == <<request, image, original, command, result, damage>>

-----------------------------------------------------------------------------
(* Mutants.                                                                *)

FloorSqrt(len, per) ==
    CHOOSE s \in 0 .. len : s * s * per <= len /\ (s + 1) * (s + 1) * per > len

-----------------------------------------------------------------------------
(* Layout (layout.rs).                                                     *)

Least(S) == CHOOSE s \in S : \A other \in S : s <= other

\* The square root of len / per, rounded up. The floats of the code are exact
\* enough: the quotient is below 2^33, its distance to a square above 2^-33.
CeilSqrt(len, per) == Least({s \in 0 .. len : s * s * per >= len})

\* The bytes of an image, and what is left of them in the u64 they are
\* computed in, which may be too narrow for the sides it is given.
PixelBytes(w, h) == w * h * BYTES_PER_PIXEL
Overflows(w, h) == PixelBytes(w, h) > U64_MAX
capacity_bytes(w, h) == PixelBytes(w, h) % (U64_MAX + 1)

AtLeastOne(n) == IF n = 0 THEN 1 ELSE n

gcd_u32[p \in (0 .. U32_MAX) \X (0 .. U32_MAX)] ==
    IF p[2] = 0 THEN p[1] ELSE gcd_u32[<<p[2], p[1] % p[2]>>]

square_dimensions(len) ==
    LET pixel_count == (len + BYTES_PER_PIXEL - 1) \div BYTES_PER_PIXEL
        side == AtLeastOne(CeilSqrt(pixel_count, 1))
    IN  IF side > U32_MAX THEN <<"InvalidDimensions">> ELSE <<"Dimensions", side, side>>

explicit_dimensions(w, h) ==
    IF w = 0 \/ h = 0 THEN <<"InvalidDimensions">> ELSE <<"Dimensions", w, h>>

scaled_dimensions(rw, rh, len) ==
    LET scale == AtLeastOne(CeilSqrt(len, BYTES_PER_PIXEL * rw * rh))
    IN  IF rw * scale > U32_MAX \/ rh * scale > U32_MAX THEN <<"InvalidDimensions">>
        ELSE <<"Dimensions", rw * scale, rh * scale>>

aspect_dimensions(w, h, len) ==
    LET g == gcd_u32[<<w, h>>]
    IN  IF w = 0 \/ h = 0 THEN <<"InvalidDimensions">>
        ELSE scaled_dimensions(w \div g, h \div g, len)

\* Each of the three ends with this check of the sides it came to. A build with
\* overflow checks (debug) panics where another (release) wraps around.
Fits(w, h, len, checked) ==
    IF checked /\ Overflows(w, h) THEN <<"panic">>
    ELSE IF capacity_bytes(w, h) < len THEN <<"InsufficientImageCapacity">>
    ELSE <<"Dimensions", w, h>>

compute_dimensions(shape, len, checked) ==
    LET dims == CASE shape.kind = "Square" -> square_dimensions(len)
                  [] shape.kind = "WidthHeight" -> explicit_dimensions(shape.w, shape.h)
                  [] shape.kind = "Aspect" -> aspect_dimensions(shape.w, shape.h, len)
    IN  IF dims[1] = "Dimensions" THEN Fits(dims[2], dims[3], len, checked) ELSE dims

-----------------------------------------------------------------------------
(* Cells, and the container in them (optical_header.rs, pixel_io.rs).      *)

Zero == <<"zero">>
Wrong == <<"wrong">>
\* A PNG that was cut short, or is not RGB with eight bits a channel.
Unreadable == [width |-> 0, height |-> 0, cells |-> <<>>]

\* encode_file: the symbols of a file, and cell p of the bytes of symbol i.
SymbolCount(file, k) == (Blocks[file] + k - 1) \div k
SymbolCell(file, k, i, p) == <<"symbol", file, k, i, p>>

serialize_v1(v) ==
    LET covered == <<<<"magic", 1>>, <<"version", 1>>, <<"header_len", OPTICAL_HEADER_LEN>>,
                     <<"flags", v.flags>>, <<"k_global", v.k_global>>,
                     <<"total_symbols", v.total_symbols>>, <<"reserved", v.reserved>>,
                     <<"payload_len", v.payload_len>>>>
    IN  Append(covered, <<"crc", covered>>)

HeaderOf(k, total) ==
    [flags |-> 0, k_global |-> k, total_symbols |-> total, reserved |-> 0,
     payload_len |-> total * k * RS_N]

FlatStream(file, k) ==
    LET size == k * RS_N
    IN  serialize_v1(HeaderOf(k, SymbolCount(file, k))) \o
            [b \in 1 .. (SymbolCount(file, k) * size) |->
                SymbolCell(file, k, ((b - 1) \div size) + 1, (b - 1) % size)]

Padded(cells, w, h) ==
    [b \in 1 .. PixelBytes(w, h) |-> IF b <= Len(cells) THEN cells[b] ELSE Zero]

-----------------------------------------------------------------------------
(* render, and the command optical-render.                                 *)

\* What becomes of the dimensions: the stream grows to their capacity, and
\* RgbImage::from_flat computes it again, checked (expected_rgb_len).
Framed(dims) ==
    IF dims[1] # "Dimensions" THEN dims
    ELSE IF capacity_bytes(dims[2], dims[3]) > ISIZE_MAX THEN <<"panic">>
    ELSE IF Overflows(dims[2], dims[3]) THEN <<"ImageTooLarge">>
    ELSE dims

Dimensions(file, k, shape, checked) ==
    LET payload == SymbolCount(file, k) * k * RS_N
    IN  IF shape.kind = "malformed" THEN <<"InvalidAspect">>
        ELSE IF k \notin 1 .. MAX_K THEN <<"InvalidK">>
        ELSE IF Blocks[file] = 0 THEN <<"EmptyInput">>
        ELSE IF k < MinK[file] THEN <<"CodecError">>
        ELSE IF SymbolCount(file, k) > U16_MAX THEN <<"TooManySymbols">>
        ELSE IF payload > MAX_PAYLOAD_BYTES_V1 THEN <<"PayloadTooLargeForV1">>
        ELSE Framed(compute_dimensions(shape, OPTICAL_HEADER_LEN + payload, checked))

Render(file, k, shape, checked) ==
    LET dims == Dimensions(file, k, shape, checked)
        rendered == [width |-> dims[2], height |-> dims[3],
                     cells |-> Padded(FlatStream(file, k), dims[2], dims[3])]
    IN  /\ command = "none"
        /\ command' = "render" /\ result' = dims
        /\ request' = [file |-> file, k |-> k, shape |-> shape]
        /\ IF dims[1] = "Dimensions"
           THEN image' = rendered /\ original' = rendered
           ELSE UNCHANGED <<image, original>>
        /\ UNCHANGED damage

\* fs::write: the process stops with a part of the PNG at the output path.
StopWriting ==
    /\ command = "render" /\ image # Unreadable /\ image' = Unreadable
    /\ UNCHANGED <<request, original, command, result, damage>>

-----------------------------------------------------------------------------
(* What may happen to the image, before the next command.                  *)

Change(changed) ==
    /\ image # Unreadable /\ damage < MaxDamage
    /\ image' = changed /\ damage' = damage + 1
    /\ command' = "changed" /\ result' = <<>>
    /\ UNCHANGED <<request, original>>

DamageByte == \E b \in DOMAIN image.cells : Change([image EXCEPT !.cells[b] = Wrong])

CutRow ==
    /\ image.height > 1
    /\ Change([image EXCEPT !.height = @ - 1,
                            !.cells = SubSeq(@, 1, PixelBytes(image.width, image.height - 1))])

AddRow(cell) ==
    Change([image EXCEPT !.height = @ + 1,
                         !.cells = @ \o [b \in 1 .. PixelBytes(image.width, 1) |-> cell]])

Recolour == Change(Unreadable)

\* Another writer of the format, or a test of this one, with a correct CRC.
Reheader(v) ==
    /\ Len(image.cells) >= OPTICAL_HEADER_LEN
    /\ LET header == serialize_v1(v)
       IN  Change([image EXCEPT !.cells =
               [b \in DOMAIN @ |-> IF b <= OPTICAL_HEADER_LEN THEN header[b] ELSE @[b]]])

-----------------------------------------------------------------------------
(* Reading the container (extract.rs).                                     *)

Field(name) == image.cells[CHOOSE f \in DOMAIN Fields : Fields[f] = name]
Covered == SubSeq(image.cells, 1, OPTICAL_HEADER_LEN - 1)
Value(name) == Field(name)[2]
Holds(name, value) == Field(name) = <<name, value>>

validate_payload_len == Value("payload_len") = Value("k_global") * Value("total_symbols") * RS_N

\* decode_container, with OpticalHeader::parse.
ContainerError ==
    IF image = Unreadable THEN <<"PngError">>
    ELSE IF Len(image.cells) < OPTICAL_HEADER_LEN THEN <<"ImageTooSmall">>
    ELSE IF ~Holds("magic", 1) THEN <<"BadMagic">>
    ELSE IF ~Holds("version", 1) THEN <<"UnsupportedVersion">>
    ELSE IF ~Holds("header_len", OPTICAL_HEADER_LEN) THEN <<"InvalidHeaderLen">>
    ELSE IF ~Holds("crc", Covered) THEN <<"HeaderCrcMismatch">>
    ELSE IF ~Holds("reserved", 0) THEN <<"PaddingNotZero">>
    ELSE IF Value("k_global") = 0 THEN <<"InvalidKGlobal">>
    ELSE IF Value("total_symbols") = 0 THEN <<"EmptyContainer">>
    ELSE IF ~validate_payload_len THEN <<"InconsistentPayloadLength">>
    ELSE <<"none">>

\* Mutant.
PayloadEndNoHeader == Value("payload_len")

SymbolSize == Value("k_global") * RS_N
PayloadEnd == OPTICAL_HEADER_LEN + Value("payload_len")

\* decode_symbol on the bytes from start on: byte p is of codeword p % K.
DecodesAs(start, i) ==
    LET k == Value("k_global")
        wrong(j) == {p \in 0 .. SymbolSize - 1 :
                        p % k = j /\ image.cells[start + p + 1] #
                                         SymbolCell(request.file, k, i, p)}
    IN  \A j \in 0 .. k - 1 : Cardinality(wrong(j)) <= Correctable

Decoded(start) ==
    {i \in 1 .. SymbolCount(request.file, Value("k_global")) : DecodesAs(start, i)}

Starts == {OPTICAL_HEADER_LEN + n * SymbolSize : n \in 0 .. Value("total_symbols") - 1}

\* A slice past the end of the pixels would be a panic.
ExtractResult ==
    IF ContainerError # <<"none">> THEN ContainerError
    ELSE IF PayloadEnd > Len(image.cells) THEN <<"PayloadTruncated">>
    ELSE IF \E b \in PayloadEnd + 1 .. Len(image.cells) : image.cells[b] # Zero
    THEN <<"PaddingNotZero">>
    ELSE IF \E start \in Starts : start + SymbolSize > Len(image.cells) THEN <<"panic">>
    ELSE IF \E start \in Starts : Decoded(start) = {} THEN <<"CodecError">>
    \* finalize: every symbol of the file is there.
    ELSE IF UNION {Decoded(start) : start \in Starts} #
                1 .. SymbolCount(request.file, Value("k_global"))
    THEN <<"MissingSymbols">>
    ELSE <<"Extracted", request.file>>

Inspected == <<"Inspected", Value("k_global"), Value("total_symbols"), Value("payload_len")>>

InspectResult == IF ContainerError # <<"none">> THEN ContainerError ELSE Inspected

InspectDeepResult ==
    IF ContainerError # <<"none">> THEN ContainerError
    ELSE IF OPTICAL_HEADER_LEN + SymbolSize > Len(image.cells) THEN <<"PayloadTruncated">>
    ELSE IF Decoded(OPTICAL_HEADER_LEN) = {} THEN <<"CodecError">>
    ELSE <<"InspectedDeep", request.file, Inspected>>

Read(name, answer) ==
    /\ original # Unreadable /\ command \in {"render", "changed"}
    /\ command' = name /\ result' = answer
    /\ UNCHANGED <<request, image, original, damage>>

Extract == Read("extract", ExtractResult)
Inspect == Read("inspect", InspectResult)
InspectDeep == Read("inspect_deep", InspectDeepResult)

-----------------------------------------------------------------------------
OpticalStart ==
    /\ request = <<>> /\ command = "none" /\ result = <<>> /\ damage = 0
    /\ image = Unreadable /\ original = Unreadable

OpticalNext ==
    \/ \E file \in OpticalFiles, k \in Ks, shape \in Shapes, checked \in BOOLEAN :
           Render(file, k, shape, checked)
    \/ StopWriting
    \/ DamageByte \/ CutRow \/ Recolour
    \/ \E cell \in {Zero, Wrong} : AddRow(cell)
    \/ \E v \in Headers : Reheader(v)
    \/ Extract \/ Inspect \/ InspectDeep

OpticalSpec == OpticalStart /\ [][OpticalNext]_optical_vars

-----------------------------------------------------------------------------
(* Properties.                                                             *)

\* What holds a stream of len bytes in the ratio of a shape.
Holding(w, h, len) == PixelBytes(w, h) >= len
OfShape(shape, w, h) ==
    /\ shape.kind = "Square" => w = h
    /\ shape.kind = "WidthHeight" => w = shape.w /\ h = shape.h
    /\ shape.kind = "Aspect" => shape.w > 0 /\ shape.h > 0 /\ w * shape.h = h * shape.w

Unrendered == {"InsufficientImageCapacity", "InvalidDimensions", "ImageTooLarge", "panic"}

\* The image rendered (compute_dimensions, from_flat) has the shape asked for and
\* holds the stream, no smaller image of that shape does, and it is never one
\* whose size was wrapped; a shape is refused, whether for its capacity, its
\* sides, an overflow or by a panic, only when every image of it that would hold
\* the stream is larger than memory can be.
SmallestOfItsShape ==
    command = "render" =>
        LET shape == request.shape
            len == Len(FlatStream(request.file, request.k))
        IN  /\ result[1] = "Dimensions" =>
                   /\ OfShape(shape, result[2], result[3])
                   /\ Holding(result[2], result[3], len)
                   /\ PixelBytes(result[2], result[3]) <= ISIZE_MAX
                   /\ \A w \in 1 .. result[2], h \in 1 .. result[3] :
                          OfShape(shape, w, h) /\ Holding(w, h, len) =>
                              <<w, h>> = <<result[2], result[3]>>
            /\ result[1] \in Unrendered =>
                   \A w, h \in 1 .. U32_MAX :
                       OfShape(shape, w, h) /\ Holding(w, h, len) => PixelBytes(w, h) > ISIZE_MAX

\* The image still tells the file: its header is the one rendered, but for the
\* flags, its pixels are the ones rendered, but for what the codec corrects in
\* each codeword, and what follows the payload is zero.
Recoverable ==
    LET k == request.k
        total == SymbolCount(request.file, k)
        end == OPTICAL_HEADER_LEN + total * k * RS_N
        wrong(i, j) == {p \in 0 .. k * RS_N - 1 :
                           LET b == OPTICAL_HEADER_LEN + (i - 1) * k * RS_N + p + 1
                           IN  p % k = j /\ image.cells[b] # original.cells[b]}
    IN  /\ Len(image.cells) >= end
        /\ \E flags \in {0} \cup {v.flags : v \in Headers} :
               SubSeq(image.cells, 1, OPTICAL_HEADER_LEN) =
                   serialize_v1([HeaderOf(k, total) EXCEPT !.flags = flags])
        /\ \A i \in 1 .. total, j \in 0 .. k - 1 : Cardinality(wrong(i, j)) <= Correctable
        /\ \A b \in end + 1 .. Len(image.cells) : image.cells[b] = Zero

\* extract returns the file rendered exactly when the image still tells it, in
\* whatever shape; else an error, and never a panic (extract).
ExtractsWhatWasRendered ==
    command = "extract" =>
        /\ Recoverable <=> result = <<"Extracted", request.file>>
        /\ result # <<"panic">>
=============================================================================

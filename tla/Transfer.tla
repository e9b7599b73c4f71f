------------------------------ MODULE Transfer ------------------------------
(***************************************************************************)
(* A file's way through zion-codec: split into blocks, cut into symbols    *)
(* (Encoder), carried by pictures or papers that are lost, repeated,       *)
(* damaged and shuffled, and put together again by the loop of             *)
(* Decoder::decode_file and decode_captures, which takes the captures as   *)
(* its iterator yields them and gives up at the first one it cannot use.   *)
(*                                                                         *)
(* The file is encoded twice (once per element of FileIds), as happens     *)
(* when it is printed again: both sets of symbols are about.               *)
(***************************************************************************)
EXTENDS Integers, Sequences

CONSTANTS
    Bytes, FileIds, None,
    Files,             \* the files to send
    BlockSize, BlockHeaderLen, MaxBlockCount, MaxTotalBlocks,
    DataLen, CodewordLen, HeaderLen, TargetBlocks, MaxK, MaxTotalSymbols,
    MaxCaptures        \* bound on the captures of one session

VARIABLES
    file,        \* the bytes being sent
    entries,     \* its blocks as split_file_into_blocks stores them
    offset, phase, k, next_block, current_start, current_count,
    current_size, packings, best,                       \* the encoder
    metadata, blocks, symbols, outcome, report,         \* the reassembler
    captures,    \* how many captures decode_file has taken
    verdict,     \* what decode_file returned, "open" until it has
    origins,     \* history: the encodings the captures came from
    seen         \* history: the blocks some capture brought undamaged

encoderVars == <<offset, phase, k, next_block, current_start, current_count,
                 current_size, packings, best>>
reassemblerVars == <<metadata, blocks, symbols, outcome, report>>
sessionVars == <<captures, verdict, origins, seen>>
vars == <<file, entries, encoderVars, reassemblerVars, sessionVars>>

-----------------------------------------------------------------------------
(* split_file_into_blocks.                                                 *)

BlockCount(bytes) == (Len(bytes) + BlockSize - 1) \div BlockSize

Chunk(bytes, b) ==
    SubSeq(bytes, b * BlockSize + 1,
           IF (b + 1) * BlockSize < Len(bytes) THEN (b + 1) * BlockSize
           ELSE Len(bytes))

\* encode_block keeps what zstd made of the chunk if that is shorter, and the
\* chunk itself otherwise.
StoredForms(chunk) ==
    {[compressed |-> FALSE, len |-> Len(chunk), raw |-> chunk]} \cup
    {[compressed |-> TRUE, len |-> n, raw |-> chunk] : n \in 1 .. (Len(chunk) - 1)}

Forms(bytes) == UNION {StoredForms(Chunk(bytes, b)) : b \in 0 .. (BlockCount(bytes) - 1)}

Splits(bytes) ==
    {es \in [1 .. BlockCount(bytes) -> Forms(bytes)] :
        \A i \in DOMAIN es : es[i] \in StoredForms(Chunk(bytes, i - 1))}

\* Where each block ends on the wire, block headers included.
WireOffsets(es) ==
    LET end[i \in 0 .. Len(es)] ==
            IF i = 0 THEN 0 ELSE end[i - 1] + BlockHeaderLen + es[i].len
    IN  [i \in 1 .. (Len(es) + 1) |-> end[i - 1]]

Tables == {WireOffsets(es) : es \in UNION {Splits(f) : f \in Files}}

E == INSTANCE Encoder WITH OffsetTables <- Tables

R == INSTANCE Reassembler WITH Inputs <- {}

\* A file is neither empty nor of too many blocks, or split_file_into_blocks
\* refuses it; TARGET_BLOCKS_PER_SYMBOL is below MAX_BLOCK_COUNT (constants.rs).
ASSUME ConstantsAssumption ==
    /\ {DataLen, CodewordLen, TargetBlocks, MaxK, MaxTotalSymbols} \subseteq Nat \ {0}
    /\ {BlockHeaderLen, HeaderLen, MaxCaptures} \subseteq Nat
    /\ TargetBlocks <= MaxBlockCount
    /\ R!ConstantsAssumption
    /\ Files \subseteq Seq(Bytes)
    /\ \A f \in Files : BlockCount(f) \in 1 .. MaxTotalBlocks

-----------------------------------------------------------------------------
(* Mutants.                                                                *)

HeldBlocksShifted(p) ==
    [i \in 1 .. p.block_count |->
        entries[IF p.block_start + i < Len(entries) THEN p.block_start + i + 1
                ELSE p.block_start + i]]

StopNever(result) == "open"

\* The captures dropped by a loop that skips a symbol index it has met.
TakenUnlessKnown(s) ==
    IF s.symbol_index \in DOMAIN symbols
    THEN UNCHANGED <<metadata, blocks, symbols, report>> /\ outcome' = "Ok"
    ELSE R!AddSymbol(s)

-----------------------------------------------------------------------------
(* encode_prepared_blocks: the header and the blocks of each symbol.       *)

HeldBlocks(p) == SubSeq(entries, p.block_start + 1, p.block_start + p.block_count)

IndexOf(i) == i - 1

EncodedSymbol(id, i) ==
    [file_id |-> id,
     file_size |-> Len(file),
     total_blocks |-> Len(entries),
     total_symbols |-> Len(packings),
     global_hash |-> file,
     symbol_index |-> IndexOf(i),
     block_start |-> packings[i].block_start,
     block_count |-> packings[i].block_count,
     blocks |-> HeldBlocks(packings[i])]

\* decode_symbol_with_profile on a damaged symbol: its loop over the blocks
\* stops at the first that does not parse, here after n good ones.
CutAfter(s, n) ==
    IF n = s.block_count THEN s
    ELSE [s EXCEPT !.blocks = Append(SubSeq(@, 1, n), None)]

-----------------------------------------------------------------------------
Init ==
    /\ file \in Files
    /\ entries \in Splits(file)
    /\ E!Init
    /\ offset = WireOffsets(entries)
    /\ R!Init
    /\ captures = 0
    /\ verdict = "open"
    /\ origins = {}
    /\ seen = {}

Encode ==
    /\ E!Next
    /\ UNCHANGED <<file, entries, reassemblerVars, sessionVars>>

InSession == phase = "encoded" /\ verdict = "open"

\* add_symbol, and the `?` after it: an error ends the call.
Take(s) == R!AddSymbol(s)
StopOn(result) == IF result = "Ok" THEN "open" ELSE "Rejected"

\* A capture of symbol i of one of the encodings, with its first n blocks.
TakeCapture(id, i, n) ==
    LET s == CutAfter(EncodedSymbol(id, i), n)
    IN  /\ InSession
        /\ captures < MaxCaptures
        /\ Take(s)
        /\ captures' = captures + 1
        /\ verdict' = StopOn(outcome')
        /\ origins' = origins \cup {id}
        /\ seen' = seen \cup (s.block_start .. (s.block_start + n - 1))
        /\ UNCHANGED <<file, entries, encoderVars>>

\* A capture that error correction or header checks refuse.
UnreadableCapture ==
    /\ InSession
    /\ captures < MaxCaptures
    /\ captures' = captures + 1
    /\ verdict' = "SymbolError"
    /\ UNCHANGED <<file, entries, encoderVars, reassemblerVars, origins, seen>>

\* The iterator is exhausted.
Finalize ==
    /\ InSession
    /\ R!FinalizeReport
    /\ verdict' = report'.status
    /\ UNCHANGED <<file, entries, encoderVars, captures, origins, seen>>

TakeAny ==
    \E id \in FileIds, i \in DOMAIN packings :
        \E n \in 0 .. packings[i].block_count : TakeCapture(id, i, n)

Next == Encode \/ TakeAny \/ UnreadableCapture \/ Finalize

\* One thread runs the encoder, another call the decoder: each runs to its
\* end, and the iterator of captures ends.
Spec == Init /\ [][Next]_vars /\ WF_vars(Next)

-----------------------------------------------------------------------------
AllBlocks == 0 .. (Len(entries) - 1)

\* The bytes that come back are the bytes that were sent, whatever the K, the
\* form each block was stored in, and the captures; and a file rebuilt from
\* captures of honest symbols never has the wrong hash.
RoundTrip ==
    /\ verdict = "Verified" => report.bytes = file
    /\ verdict # "Mismatch"

\* decode_file takes symbols "in any order": after any sequence of captures
\* of one encoding, repeated and damaged as may be, a block is in the store
\* exactly when some capture brought it undamaged.
AnyOrder ==
    InSession /\ report = None =>
        \A b \in AllBlocks : R!Stored(b) # None <=> b \in seen

\* What the captures brought decides the outcome. The only honest ones refused
\* are those of another encoding: damage and repetition alone never make
\* add_symbol fail. And the file comes back exactly when they brought every block.
CapturesDecide ==
    /\ verdict = "Rejected" =>
          outcome = "SymbolFileIdMismatch" /\ \E id, other \in origins : id # other
    /\ verdict \in {"Verified", "MissingBlocks"} => (verdict = "Verified" <=> seen = AllBlocks)

\* The encoder stops, and after it the decoder returns something.
Ends == <>(phase \notin {"search", "encode", "encoded"} \/ verdict # "open")
=============================================================================

------------------------------- MODULE Encoder -------------------------------
(***************************************************************************)
(* How zion-codec cuts a file's blocks into symbols: the greedy loop of    *)
(* encode/packing.rs, the search for the best K of encode.rs around it,    *)
(* and the headers of the symbols that come out.                           *)
(*                                                                         *)
(* A block is what it costs on the wire.  `offset` holds the running total *)
(* of those costs, so that block b (from 0) occupies the bytes from        *)
(* Offset(b) up to Offset(b + 1).                                          *)
(***************************************************************************)
EXTENDS Integers, Sequences

CONSTANTS
    OffsetTables,      \* the inputs: sequences of running totals, from 0
    DataLen,           \* EccProfile::data_len, data bytes per codeword
    CodewordLen,       \* RS_N, bytes per codeword on the wire
    HeaderLen,         \* HEADER_LEN_V1
    TargetBlocks,      \* TARGET_BLOCKS_PER_SYMBOL
    MaxK,              \* MAX_K
    MaxTotalSymbols    \* MAX_TOTAL_SYMBOLS

ASSUME ConstantsAssumption ==
    /\ DataLen \in Nat \ {0}
    /\ CodewordLen \in Nat \ {0}
    /\ HeaderLen \in Nat
    /\ TargetBlocks \in Nat \ {0}
    /\ MaxK \in Nat \ {0}
    /\ MaxTotalSymbols \in Nat \ {0}
    /\ \A t \in OffsetTables :
          /\ t \in Seq(Nat)
          /\ Len(t) >= 2
          /\ \A i \in 1 .. (Len(t) - 1) : t[i] < t[i + 1]

VARIABLES
    offset,         \* the blocks being encoded
    phase,          \* "search" for K, then "encode" with it; or the end
    k,              \* the K being tried, or the one chosen
    next_block,     \* the locals of pack_blocks_into_symbols
    current_start,
    current_count,
    current_size,
    packings,
    best            \* the best K so far and its total bytes; k = 0 if none

pack == <<next_block, current_start, current_count, current_size, packings>>
vars == <<offset, phase, k, pack, best>>

Packing == [block_start : Nat, block_count : Nat]
Phases == {"search", "encode", "encoded", "InsufficientSymbolCapacity",
           "TooManySymbols"}

Total == Len(offset) - 1
Offset(b) == offset[b + 1]

-----------------------------------------------------------------------------
(* Mutants: what a plausible slip in the code would make of a definition.  *)

FitsIgnoringHeader ==
    current_size - HeaderLen + Offset(next_block + 1) - Offset(next_block)
        <= k * DataLen

FitsStrictly ==
    current_size + Offset(next_block + 1) - Offset(next_block) < k * DataLen

StuckNever == FALSE

FlushKeepingStart ==
    /\ packings' = Append(packings, [block_start |-> current_start,
                                     block_count |-> current_count])
    /\ current_count' = 0
    /\ current_size' = HeaderLen
    /\ UNCHANGED <<current_start, next_block>>

BetterOrEqual(total) == best.k = 0 \/ total <= best.bytes

MinKRoundedDown ==
    (HeaderLen + Offset(next_block + 1) - Offset(next_block)) \div DataLen

-----------------------------------------------------------------------------
(* pack_blocks_into_symbols_with_profile: one action per turn of its loop. *)

available_capacity == k * DataLen
BlockCost == Offset(next_block + 1) - Offset(next_block)
Full == current_count = TargetBlocks
Fits == current_size + BlockCost <= available_capacity
Current == [block_start |-> current_start, block_count |-> current_count]

Running == phase \in {"search", "encode"}

\* The locals as pack_blocks_into_symbols initialises them.
Fresh ==
    /\ next_block' = 0
    /\ current_start' = 0
    /\ current_count' = 0
    /\ current_size' = HeaderLen
    /\ packings' = <<>>

Flush ==
    /\ packings' = Append(packings, Current)
    /\ current_start' = next_block
    /\ current_count' = 0
    /\ current_size' = HeaderLen
    /\ UNCHANGED next_block

CloseSymbol ==
    /\ Running
    /\ next_block < Total
    /\ Full \/ (~Fits /\ current_count # 0)
    /\ Flush
    /\ UNCHANGED <<offset, phase, k, best>>

TakeBlock ==
    /\ Running
    /\ next_block < Total
    /\ ~Full
    /\ Fits
    /\ current_count' = current_count + 1
    /\ current_size' = current_size + BlockCost
    /\ next_block' = next_block + 1
    /\ UNCHANGED <<current_start, packings, offset, phase, k, best>>

\* The block alone does not fit: pack_blocks_into_symbols returns an error.
Stuck ==
    /\ next_block < Total
    /\ ~Full
    /\ ~Fits
    /\ current_count = 0

min_k_required == (HeaderLen + BlockCost + DataLen - 1) \div DataLen

\* The loop is over: what pack_blocks_into_symbols returns.
Exhausted == next_block = Total
Packed == IF current_count > 0 THEN Append(packings, Current) ELSE packings

-----------------------------------------------------------------------------
(* choose_auto_k_for_blocks, encode_prepared_blocks.                       *)

Better(total) == best.k = 0 \/ total < best.bytes

\* What the search knows after the pack with this k has returned.
BestAfter ==
    LET total == Len(Packed) * k * CodewordLen
    IN  IF /\ Exhausted
           /\ Len(Packed) <= MaxTotalSymbols
           /\ Better(total)
        THEN [k |-> k, bytes |-> total]
        ELSE best

TryNextK ==
    /\ phase = "search"
    /\ k < MaxK
    /\ Stuck \/ Exhausted
    /\ best' = BestAfter
    /\ k' = k + 1
    /\ Fresh
    /\ UNCHANGED <<offset, phase>>

\* The last K of the search: pack again with the best one, or report the
\* error the last K met.
EndSearch ==
    /\ phase = "search"
    /\ k = MaxK
    /\ Stuck \/ Exhausted
    /\ best' = BestAfter
    /\ \/ /\ best'.k # 0
          /\ k' = best'.k
          /\ phase' = "encode"
          /\ Fresh
       \/ /\ best'.k = 0
          /\ phase' = IF Stuck THEN "InsufficientSymbolCapacity"
                      ELSE "TooManySymbols"
          /\ UNCHANGED <<k, pack>>
    /\ UNCHANGED offset

EncodeFails ==
    /\ phase = "encode"
    /\ Stuck
    /\ phase' = "InsufficientSymbolCapacity"
    /\ UNCHANGED <<offset, k, pack, best>>

EncodeEnds ==
    /\ phase = "encode"
    /\ Exhausted
    /\ packings' = Packed
    /\ phase' = IF Len(Packed) > MaxTotalSymbols THEN "TooManySymbols"
                ELSE "encoded"
    /\ UNCHANGED <<offset, k, best, next_block, current_start, current_count,
                   current_size>>

\* encode_file_auto_k searches; encode_file_with_profile is given its K,
\* which validate_k has found to be in range.
Init ==
    /\ offset \in OffsetTables
    /\ \/ phase = "search" /\ k = 1
       \/ phase = "encode" /\ k \in 1 .. MaxK
    /\ best = [k |-> 0, bytes |-> 0]
    /\ next_block = 0
    /\ current_start = 0
    /\ current_count = 0
    /\ current_size = HeaderLen
    /\ packings = <<>>

Next ==
    \/ CloseSymbol
    \/ TakeBlock
    \/ TryNextK
    \/ EndSearch
    \/ EncodeFails
    \/ EncodeEnds

\* The encoder is one call on one thread: it runs until it returns.
Spec == Init /\ [][Next]_vars /\ WF_vars(Next)

-----------------------------------------------------------------------------
EndOf(p) == p.block_start + p.block_count
BytesOf(p) == HeaderLen + Offset(EndOf(p)) - Offset(p.block_start)

TypeOK ==
    /\ offset \in Seq(Nat)
    /\ phase \in Phases
    /\ k \in 1 .. MaxK
    /\ next_block \in 0 .. Total
    /\ current_start \in Nat
    /\ current_count \in 0 .. TargetBlocks
    /\ current_size \in Nat
    /\ packings \in Seq(Packing)
    /\ best \in [k : 0 .. MaxK, bytes : Nat]

\* The symbols cut so far tile the blocks from the first one on, without gap
\* or overlap, and the one being filled starts where they end: when the
\* encoder is done, every block is in exactly one symbol.
Tiling ==
    /\ \A i \in DOMAIN packings :
          packings[i].block_start =
              IF i = 1 THEN 0 ELSE EndOf(packings[i - 1])
    /\ Running =>
          /\ current_start = IF packings = <<>> THEN 0
                             ELSE EndOf(packings[Len(packings)])
          /\ current_start + current_count = next_block
    /\ phase = "encoded" =>
          packings # <<>> /\ EndOf(packings[Len(packings)]) = Total

\* Every symbol holds at least one block and at most the target, and its
\* header and blocks fit the K codewords it is given: the capacity check of
\* try_encode_single_symbol, later, cannot fail.
SymbolsFit ==
    /\ \A i \in DOMAIN packings :
          /\ packings[i].block_count \in 1 .. TargetBlocks
          /\ EndOf(packings[i]) <= Total
          /\ BytesOf(packings[i]) <= available_capacity
    /\ Running =>
          /\ current_size = BytesOf(Current)
          /\ current_count > 0 => current_size <= available_capacity

\* The fewest symbols that can carry the blocks from b on with K = j, by
\* trying every first symbol; Total + 1 stands for "it cannot be done".
Fewest(j) ==
    LET room(b, e) == /\ e - b <= TargetBlocks
                      /\ HeaderLen + Offset(e) - Offset(b) <= j * DataLen
        from[b \in 0 .. Total] ==
            IF b = Total THEN 0
            ELSE LET firsts == {e \in (b + 1) .. Total : room(b, e)}
                     least == {1 + from[e] : e \in firsts} \cup {Total + 1}
                 IN  CHOOSE n \in least : \A m \in least : n <= m
    IN  from[0]

Feasible(j) == Fewest(j) <= Total /\ Fewest(j) <= MaxTotalSymbols
BytesWith(j) == Fewest(j) * j * CodewordLen

\* Greedy packing is optimal: with the K it ends up using, the encoder emits
\* as few symbols as any assignment of the blocks to symbols could.
GreedyIsOptimal ==
    phase = "encoded" => Len(packings) = Fewest(k)

\* The search returns the K that emits the fewest bytes, the smallest one
\* when several do; it fails only when no K works, and an encoder that was
\* left to search never fails afterwards.
SearchIsOptimal ==
    /\ best.k # 0 /\ phase \in {"encode", "encoded"} =>
          /\ k = best.k
          /\ Feasible(k)
          /\ \A j \in 1 .. MaxK :
                Feasible(j) => \/ BytesWith(k) < BytesWith(j)
                               \/ BytesWith(k) = BytesWith(j) /\ k <= j
    /\ phase \in {"InsufficientSymbolCapacity", "TooManySymbols"} =>
          best.k = 0 /\ ~Feasible(k)

\* The K an error asks for is the least one under which the block it names
\* fits a symbol of its own, so that a caller who follows it makes progress.
MinKIsTight ==
    phase = "InsufficientSymbolCapacity" =>
        \A j \in 1 .. min_k_required :
            HeaderLen + BlockCost <= j * DataLen <=> j = min_k_required
=============================================================================

-------------------------- MODULE RoundTripProofs --------------------------
(***************************************************************************)
(* What comes out is what went in.                                         *)
(*                                                                         *)
(* Transfer: what comes out of the decoder is the file that went into the  *)
(* encoder. The proof composes what is proved of the two: that the symbols *)
(* tile the blocks (EncoderProofs), and that finalize_report spells what   *)
(* is stored (ReassemblerProofs).                                          *)
(*                                                                         *)
(* Optical: the square, and the image of any reduced ratio, hold a stream  *)
(* of any length, and are the smallest that do; extraction, whatever was   *)
(* done to the image, returns the file rendered exactly when the image     *)
(* still tells it, and an error otherwise.                                 *)
(***************************************************************************)
EXTENDS Transfer, Optical, Induction, SequenceTheorems

EP == INSTANCE EncoderProofs WITH OffsetTables <- Tables
RP == INSTANCE ReassemblerProofs WITH Inputs <- {}

-----------------------------------------------------------------------------
(* split_file_into_blocks: what the blocks of a file are.                  *)

LEMMA Assumed ==
    /\ BlockSize \in Nat \ {0}
    /\ {MaxBlockCount, MaxTotalBlocks} \subseteq Nat
    /\ None \notin R!BlockEntry
    /\ None \notin R!ReassemblyMetadata
    /\ None \notin R!Reports
    /\ RP!ConstantsAssumption
  <1>1. R!ConstantsAssumption
    BY ConstantsAssumption
  <1>2. RP!ConstantsAssumption
    BY <1>1 DEF R!ConstantsAssumption, RP!ConstantsAssumption,
        R!DecodedSymbol, RP!DecodedSymbol, R!BlockEntry, RP!BlockEntry,
        R!ReassemblyMetadata, RP!ReassemblyMetadata, R!Reports, RP!Reports
  <1> QED
    BY <1>1, <1>2 DEF R!ConstantsAssumption

\* A file has as many blocks as its header says, and each its expected size.
LEMMA ChunkFacts ==
    ASSUME NEW f \in Files, NEW b \in 0 .. (BlockCount(f) - 1)
    PROVE  /\ f \in Seq(Bytes) /\ Len(f) \in Nat \ {0}
           /\ BlockCount(f) = R!expected_total_blocks(Len(f))
           /\ BlockCount(f) \in 1 .. MaxTotalBlocks
           /\ Chunk(f, b) \in Seq(Bytes)
           /\ Len(Chunk(f, b)) = R!expected_block_size(Len(f), BlockCount(f), b)
           /\ Len(Chunk(f, b)) \in 1 .. BlockSize
           /\ \A q \in 1 .. Len(Chunk(f, b)) : Chunk(f, b)[q] = f[b * BlockSize + q]
  <1> DEFINE n == BlockCount(f)
             size == Len(f)
             last == size - (n - 1) * BlockSize
             start == b * BlockSize
             end == IF (b + 1) * BlockSize < size THEN (b + 1) * BlockSize ELSE size
  <1>1. f \in Seq(Bytes) /\ n \in 1 .. MaxTotalBlocks /\ MaxTotalBlocks \in Nat
        /\ BlockSize \in Nat \ {0} /\ size \in Nat
    BY ConstantsAssumption, Assumed
  <1>2. n = (size + BlockSize - 1) \div BlockSize
    BY DEF BlockCount
  <1>3. size \in Nat \ {0}
    <2>1. size = 0 => (size + BlockSize - 1) \div BlockSize = 0
      <3>1. BlockSize - 1 \in 0 .. (BlockSize - 1) /\ 0 * BlockSize + (BlockSize - 1) = BlockSize - 1
        BY <1>1
      <3>2. (0 * BlockSize + (BlockSize - 1)) \div BlockSize = 0
        BY <1>1, <3>1, DivisionIsUnique
      <3> QED
        BY <1>1, <3>1, <3>2
    <2> QED
      BY <1>1, <1>2, <2>1
  <1>4. n = R!expected_total_blocks(size) /\ n = RP!expected_total_blocks(size)
    BY <1>2 DEF R!expected_total_blocks, RP!expected_total_blocks
  <1>5. last \in 1 .. BlockSize
    <2>1. size - (RP!expected_total_blocks(size) - 1) * BlockSize \in 1 .. BlockSize
      BY <1>3, Assumed, RP!LastBlock
    <2> QED
      BY <1>4, <2>1
  <1> HIDE DEF n, size
  <1>6. b \in 0 .. (n - 1) /\ b \in Nat /\ n \in Nat /\ start \in Nat
    <2>1. b \in 0 .. (n - 1) /\ b \in Nat /\ n \in Nat
      BY <1>1 DEF n
    <2> QED
      BY <1>1, <2>1
  <1>7. (b + 1) * BlockSize = start + BlockSize
    BY <1>1, <1>6
  <1>8. ASSUME b + 1 < n
        PROVE  /\ end - start = R!expected_block_size(size, n, b)
               /\ end - start \in 1 .. BlockSize /\ end <= size
    <2>1. (b + 1) * BlockSize < size /\ (b + 1) * BlockSize \in Nat
      <3>1. size = (n - 1) * BlockSize + last
        BY <1>1, <1>3, <1>6
      <3>2. (b + 1) * BlockSize <= (n - 1) * BlockSize
        <4>1. b + 1 <= n - 1 /\ b + 1 \in Nat /\ n - 1 \in Nat
          BY <1>6, <1>8
        <4> QED
          BY <1>1, <4>1
      <3>3. (b + 1) * BlockSize \in Nat /\ (n - 1) * BlockSize \in Nat
        BY <1>1, <1>6, <1>8
      <3> HIDE DEF last
      <3> QED
        BY <1>5, <3>1, <3>2, <3>3
    <2>2. end = start + BlockSize /\ end <= size
      <3> HIDE DEF start
      <3> QED
        BY <1>1, <1>3, <1>6, <1>7, <2>1
    <2>3. R!expected_block_size(size, n, b) = BlockSize
      BY <1>8 DEF R!expected_block_size
    <2> HIDE DEF start, end
    <2> QED
      BY <1>1, <1>6, <2>2, <2>3
  <1>9. ASSUME b + 1 = n
        PROVE  /\ end - start = R!expected_block_size(size, n, b)
               /\ end - start \in 1 .. BlockSize /\ end <= size
    <2>1. size = start + last
      <3>1. n - 1 = b
        BY <1>6, <1>9
      <3>2. last = size - start
        BY <3>1
      <3> HIDE DEF last
      <3> QED
        BY <1>3, <1>5, <1>6, <3>2
    <2>2. end = size
      BY <1>1, <1>3, <1>5, <1>6, <1>7, <2>1
    <2>3. ~ (b + 1 < n)
      BY <1>6, <1>9
    <2>4. end - start = last /\ R!expected_block_size(size, n, b) = last
      <3> HIDE DEF last
      <3>1. end - start = last
        BY <1>3, <1>5, <1>6, <2>1, <2>2
      <3>2. R!expected_block_size(size, n, b) = last
        BY <2>3 DEF R!expected_block_size, last
      <3> QED
        BY <3>1, <3>2
    <2> HIDE DEF start, end, last
    <2> QED
      BY <1>3, <1>5, <2>2, <2>4
  <1>10. /\ end - start = R!expected_block_size(size, n, b)
         /\ end - start \in 1 .. BlockSize /\ end \in 1 .. size
    <2>1. /\ end - start = R!expected_block_size(size, n, b)
          /\ end - start \in 1 .. BlockSize /\ end <= size
      <3>1. b + 1 < n \/ b + 1 = n
        BY <1>6
      <3> HIDE DEF start, end
      <3> QED
        BY <1>8, <1>9, <3>1
    <2>2. end \in Nat
      BY <1>3, <1>6, <1>7, <1>1
    <2> HIDE DEF end, start
    <2> QED
      BY <1>1, <1>6, <2>1, <2>2
  <1>11. Chunk(f, b) = SubSeq(f, start + 1, end)
    BY DEF Chunk, size
  <1> HIDE DEF end, start, last
  <1>12. /\ Chunk(f, b) \in Seq(Bytes)
         /\ Len(Chunk(f, b)) = end - start
         /\ \A q \in 1 .. (end - start) : Chunk(f, b)[q] = f[start + q]
    <2>1. \A q \in (start + 1) .. end : f[q] \in Bytes
      BY <1>1, <1>6, <1>10 DEF size
    <2>2. start + 1 \in Int /\ end \in Int /\ end - (start + 1) + 1 = end - start
          /\ start + 1 <= end
      BY <1>1, <1>6, <1>10
    <2>3. /\ Chunk(f, b) \in Seq(Bytes)
          /\ Len(Chunk(f, b)) = (IF start + 1 <= end THEN end - (start + 1) + 1 ELSE 0)
          /\ \A q \in 1 .. end - (start + 1) + 1 : Chunk(f, b)[q] = f[(start + 1) + q - 1]
      BY <1>11, <2>1, <2>2, SubSeqProperties
    <2>4. \A q \in 1 .. (end - start) : (start + 1) + q - 1 = start + q
      BY <1>6, <1>10
    <2> QED
      BY <2>2, <2>3, <2>4
  <1> QED
    BY <1>1, <1>3, <1>4, <1>10, <1>12 DEF n, size, start

\* Each form a chunk may be stored in decodes to the chunk.
LEMMA FormFacts ==
    ASSUME NEW chunk \in Seq(Bytes), Len(chunk) \in Nat \ {0},
           NEW entry \in StoredForms(chunk)
    PROVE  /\ entry \in R!BlockEntry /\ entry # None
           /\ entry.raw = chunk /\ entry.len \in Nat \ {0}
           /\ R!Decodes(entry, Len(chunk))
  <1>1. ASSUME NEW c \in BOOLEAN, NEW n \in Nat \ {0}, c => n < Len(chunk),
               entry = [compressed |-> c, len |-> n, raw |-> chunk]
        PROVE  /\ entry \in R!BlockEntry
               /\ entry.raw = chunk /\ entry.len \in Nat \ {0}
               /\ R!Decodes(entry, Len(chunk))
    BY <1>1 DEF R!BlockEntry, R!Decodes
  <1>2. CASE entry = [compressed |-> FALSE, len |-> Len(chunk), raw |-> chunk]
    BY <1>1, <1>2, Assumed
  <1>3. CASE \E n \in 1 .. (Len(chunk) - 1) :
                entry = [compressed |-> TRUE, len |-> n, raw |-> chunk]
    <2>1. PICK n \in 1 .. (Len(chunk) - 1) :
                entry = [compressed |-> TRUE, len |-> n, raw |-> chunk]
      BY <1>3
    <2>2. n \in Nat \ {0} /\ n < Len(chunk)
      OBVIOUS
    <2> QED
      BY <1>1, <2>1, <2>2, Assumed
  <1> QED
    BY <1>2, <1>3 DEF StoredForms

LEMMA EntryFacts ==
    ASSUME NEW f \in Files, NEW es \in Splits(f)
    PROVE  /\ es \in Seq(R!BlockEntry)
           /\ Len(es) = BlockCount(f) /\ Len(es) \in 1 .. MaxTotalBlocks
           /\ \A b \in 0 .. (Len(es) - 1) :
                 /\ es[b + 1] \in R!BlockEntry /\ es[b + 1] # None
                 /\ es[b + 1].raw = Chunk(f, b) /\ es[b + 1].len \in Nat \ {0}
                 /\ R!Decodes(es[b + 1], R!expected_block_size(Len(f), Len(es), b))
  <1> DEFINE n == BlockCount(f)
  <1>1. n \in 1 .. MaxTotalBlocks /\ MaxTotalBlocks \in Nat /\ n \in Nat \ {0}
    BY ConstantsAssumption, Assumed
  <1>2. /\ es \in [1 .. n -> Forms(f)]
        /\ \A i \in 1 .. n : es[i] \in StoredForms(Chunk(f, i - 1))
    BY DEF Splits
  <1>3. ASSUME NEW b \in 0 .. (n - 1)
        PROVE  /\ es[b + 1] \in R!BlockEntry /\ es[b + 1] # None
               /\ es[b + 1].raw = Chunk(f, b) /\ es[b + 1].len \in Nat \ {0}
               /\ R!Decodes(es[b + 1], R!expected_block_size(Len(f), n, b))
    <2>1. b + 1 \in 1 .. n /\ (b + 1) - 1 = b
      BY <1>1
    <2>2. es[b + 1] \in StoredForms(Chunk(f, b))
      BY <1>2, <2>1
    <2>3. /\ Chunk(f, b) \in Seq(Bytes) /\ Len(Chunk(f, b)) \in 1 .. BlockSize
          /\ Len(Chunk(f, b)) = R!expected_block_size(Len(f), n, b)
      BY ChunkFacts
    <2>4. Len(Chunk(f, b)) \in Nat \ {0}
      BY <2>3, Assumed
    <2> HIDE DEF n
    <2> QED
      BY <2>2, <2>3, <2>4, FormFacts
  <1> HIDE DEF n
  <1>4. \A i \in 1 .. n : es[i] \in R!BlockEntry
    <2> TAKE i \in 1 .. n
    <2>1. i - 1 \in 0 .. (n - 1) /\ (i - 1) + 1 = i
      BY <1>1
    <2>2. es[(i - 1) + 1] \in R!BlockEntry
      BY <1>3, <2>1
    <2> QED
      BY <2>1, <2>2
  <1>5. es \in [1 .. n -> R!BlockEntry]
    BY <1>2, <1>4
  <1>6. es \in Seq(R!BlockEntry) /\ Len(es) = n
    BY <1>1, <1>5
  <1> QED
    BY <1>1, <1>3, <1>6 DEF n

\* The table given to the encoder holds the sums of what the blocks cost.
LEMMA TableFacts ==
    ASSUME NEW f \in Files, NEW es \in Splits(f)
    PROVE  /\ WireOffsets(es) \in Seq(Nat)
           /\ Len(WireOffsets(es)) = Len(es) + 1
           /\ \A i \in 1 .. Len(es) : WireOffsets(es)[i] < WireOffsets(es)[i + 1]
  <1> DEFINE n == Len(es)
             cost(i) == BlockHeaderLen + es[i].len
             step == [i \in Nat |-> [acc \in Nat |-> IF i \in 1 .. n THEN acc + cost(i) ELSE acc]]
  <1>1. n \in Nat \ {0}
    BY EntryFacts, Assumed
  <1>2. ASSUME NEW i \in 1 .. n PROVE cost(i) \in Nat /\ cost(i) > 0
    <2>1. i - 1 \in 0 .. (n - 1) /\ (i - 1) + 1 = i
      BY <1>1
    <2>2. es[(i - 1) + 1].len \in Nat \ {0}
      BY <2>1, EntryFacts
    <2>3. es[i].len \in Nat \ {0} /\ BlockHeaderLen \in Nat
      BY <2>1, <2>2, ConstantsAssumption
    <2> QED
      BY <2>3
  <1> HIDE DEF n, cost
  <1>3. step \in [Nat -> [Nat -> Nat]]
    <2>1. ASSUME NEW i \in Nat, NEW acc \in Nat
          PROVE  (IF i \in 1 .. n THEN acc + cost(i) ELSE acc) \in Nat
      BY <1>2
    <2> QED
      BY <2>1
  <1>4. PICK g : CountsOn(g, Nat, 0, step)
    <2> HIDE DEF step
    <2> QED
      BY <1>3, RecursionAt
  <1>5. \E e : e = [i \in 0 .. n |-> IF i = 0 THEN 0 ELSE e[i - 1] + BlockHeaderLen + es[i].len]
    <2> DEFINE e == [i \in 0 .. n |-> g[i]]
    <2>1. ASSUME NEW i \in 0 .. n
          PROVE  e[i] = IF i = 0 THEN 0 ELSE e[i - 1] + BlockHeaderLen + es[i].len
      <3>1. i \in Nat /\ (i # 0 => i \in 1 .. n /\ i - 1 \in 0 .. n /\ i - 1 \in Nat)
        BY <1>1
      <3>2. e[i] = IF i = 0 THEN 0 ELSE step[i][g[i - 1]]
        <4> HIDE DEF step
        <4> QED
          BY <1>4, <3>1 DEF CountsOn
      <3>3. i # 0 => g[i - 1] \in Nat /\ e[i - 1] = g[i - 1]
        BY <1>4, <3>1 DEF CountsOn
      <3>4. i # 0 => step[i][g[i - 1]] = g[i - 1] + cost(i)
        BY <3>1, <3>3
      <3>5. i # 0 => g[i - 1] + cost(i) = g[i - 1] + BlockHeaderLen + es[i].len
        <4>1. i # 0 => es[i].len \in Nat
          <5>1. i # 0 => i - 1 \in 0 .. (Len(es) - 1) /\ (i - 1) + 1 = i
            BY <1>1, <3>1 DEF n
          <5>2. i # 0 => es[(i - 1) + 1].len \in Nat
            BY <5>1, EntryFacts
          <5> QED
            BY <5>1, <5>2
        <4>2. BlockHeaderLen \in Nat
          BY ConstantsAssumption
        <4> QED
          BY <3>3, <4>1, <4>2 DEF cost
      <3> HIDE DEF step, e
      <3> QED
        BY <3>2, <3>3, <3>4, <3>5
    <2>2. e = [i \in 0 .. n |-> e[i]]
      OBVIOUS
    <2> HIDE DEF e
    <2>3. e = [i \in 0 .. n |-> IF i = 0 THEN 0 ELSE e[i - 1] + BlockHeaderLen + es[i].len]
      BY <2>1, <2>2, Zenon
    <2> QED
      BY <2>3
  <1> DEFINE end == CHOOSE e : e = [i \in 0 .. Len(es) |->
                        IF i = 0 THEN 0 ELSE e[i - 1] + BlockHeaderLen + es[i].len]
  <1>6. end = [i \in 0 .. n |-> IF i = 0 THEN 0 ELSE end[i - 1] + BlockHeaderLen + es[i].len]
    BY <1>5, Zenon DEF n
  <1>7. WireOffsets(es) = [i \in 1 .. (n + 1) |-> end[i - 1]]
    BY DEF WireOffsets, n
  <1> HIDE DEF end
  <1>8. end[0] = 0
    BY <1>1, <1>6
  <1>9. ASSUME NEW i \in Nat, i + 1 \in 1 .. n, end[i] \in Nat
        PROVE  end[i + 1] \in Nat /\ end[i] < end[i + 1]
    <2>1. i + 1 \in 0 .. n /\ i + 1 # 0 /\ (i + 1) - 1 = i
      BY <1>1, <1>9
    <2>2. end[i + 1] = end[(i + 1) - 1] + BlockHeaderLen + es[i + 1].len
      BY <1>6, <2>1, Zenon
    <2>3. es[i + 1].len \in Nat \ {0}
      <3>1. i \in 0 .. (Len(es) - 1)
        BY <1>1, <1>9 DEF n
      <3> QED
        BY <3>1, EntryFacts
    <2>4. BlockHeaderLen \in Nat
      BY ConstantsAssumption
    <2> QED
      BY <1>9, <2>1, <2>2, <2>3, <2>4
  <1>10. \A i \in 0 .. n : end[i] \in Nat
    <2> DEFINE S == {i \in Nat : i <= n => end[i] \in Nat}
    <2>1. 0 \in S
      BY <1>8
    <2>2. ASSUME NEW i \in Nat, i \in S PROVE i + 1 \in S
      <3>1. i + 1 <= n => i + 1 \in 1 .. n /\ end[i] \in Nat
        BY <1>1, <2>2
      <3> QED
        BY <1>9, <3>1
    <2>3. \A i \in Nat : i \in S
      <3> HIDE DEF S
      <3> QED
        BY <2>1, <2>2, Induction
    <2> QED
      BY <1>1, <2>3
  <1> DEFINE t == WireOffsets(es)
  <1>11. t \in [1 .. (n + 1) -> Nat]
    <2>1. \A i \in 1 .. (n + 1) : i - 1 \in 0 .. n
      BY <1>1
    <2> QED
      BY <1>7, <1>10, <2>1
  <1>12. t \in Seq(Nat) /\ Len(t) = n + 1
    <2>1. n + 1 \in Nat
      BY <1>1
    <2> HIDE DEF t
    <2> QED
      BY <1>11, <2>1
  <1>13. ASSUME NEW i \in 1 .. n PROVE t[i] < t[i + 1]
    <2>1. i - 1 \in Nat /\ (i - 1) + 1 = i /\ (i - 1) + 1 \in 1 .. n /\ i - 1 \in 0 .. n
      BY <1>1
    <2>2. end[i - 1] < end[(i - 1) + 1]
      BY <1>9, <1>10, <2>1
    <2>3. i \in 1 .. (n + 1) /\ i + 1 \in 1 .. (n + 1) /\ (i + 1) - 1 = i
      BY <1>1
    <2>4. t[i] = end[i - 1] /\ t[i + 1] = end[(i + 1) - 1]
      BY <1>7, <2>3
    <2> QED
      BY <2>1, <2>2, <2>3, <2>4
  <1> QED
    BY <1>12, <1>13 DEF n, t

\* So the encoder's assumption about its inputs holds.
LEMMA EncoderAssumed == EP!ConstantsAssumption
  <1>1. ASSUME NEW t \in Tables
        PROVE  t \in Seq(Nat) /\ Len(t) >= 2 /\ \A i \in 1 .. (Len(t) - 1) : t[i] < t[i + 1]
    <2>1. PICK f \in Files : \E es \in Splits(f) : t = WireOffsets(es)
      BY DEF Tables
    <2>2. PICK es \in Splits(f) : t = WireOffsets(es)
      BY <2>1
    <2>3. Len(es) \in Nat \ {0}
      BY EntryFacts, Assumed
    <2> QED
      BY <2>2, <2>3, TableFacts
  <1> QED
    BY <1>1, ConstantsAssumption DEF EP!ConstantsAssumption

-----------------------------------------------------------------------------
(* The encoder of Transfer is the one EncoderProofs is about.              *)

LEMMA SameInit == E!Init => EP!Init
  BY DEF E!Init, EP!Init

LEMMA SameNext == E!Next => EP!Next
  <1>1. E!CloseSymbol => EP!CloseSymbol
    BY DEF E!CloseSymbol, EP!CloseSymbol, E!Running, EP!Running, E!Total, EP!Total,
           E!Full, EP!Full, E!Fits, EP!Fits, E!BlockCost, EP!BlockCost, E!Offset, EP!Offset,
           E!available_capacity, EP!available_capacity, E!Flush, EP!Flush,
           E!Current, EP!Current
  <1>2. E!TakeBlock => EP!TakeBlock
    BY DEF E!TakeBlock, EP!TakeBlock, E!Running, EP!Running, E!Total, EP!Total,
           E!Full, EP!Full, E!Fits, EP!Fits, E!BlockCost, EP!BlockCost, E!Offset, EP!Offset,
           E!available_capacity, EP!available_capacity
  <1>3. (E!Stuck <=> EP!Stuck) /\ (E!Exhausted <=> EP!Exhausted) /\ E!Packed = EP!Packed
        /\ (E!Fresh <=> EP!Fresh)
    BY DEF E!Stuck, EP!Stuck, E!Total, EP!Total, E!Full, EP!Full, E!Fits, EP!Fits,
           E!BlockCost, EP!BlockCost, E!Offset, EP!Offset, E!available_capacity,
           EP!available_capacity, E!Exhausted, EP!Exhausted, E!Packed, EP!Packed,
           E!Current, EP!Current, E!Fresh, EP!Fresh
  <1>4. E!BestAfter = EP!BestAfter
    BY <1>3, Zenon DEF E!BestAfter, EP!BestAfter, E!Better, EP!Better
  <1>5. E!TryNextK => EP!TryNextK
    BY <1>3, <1>4, Zenon DEF E!TryNextK, EP!TryNextK
  <1>6. E!EndSearch => EP!EndSearch
    BY <1>3, <1>4, Zenon DEF E!EndSearch, EP!EndSearch, E!pack, EP!pack
  <1>7. E!EncodeFails => EP!EncodeFails
    BY <1>3, Zenon DEF E!EncodeFails, EP!EncodeFails, E!pack, EP!pack
  <1>8. E!EncodeEnds => EP!EncodeEnds
    BY <1>3, Zenon DEF E!EncodeEnds, EP!EncodeEnds
  <1> QED
    BY <1>1, <1>2, <1>5, <1>6, <1>7, <1>8, Zenon DEF E!Next, EP!Next

\* What the encoder leaves alone, and what it guarantees when it ends.
LEMMA EncoderStep ==
    ASSUME E!Next, Len(packings') \in Nat
    PROVE  /\ phase \in {"search", "encode"} /\ offset' = offset
           /\ phase' = "encoded" => Len(packings') <= MaxTotalSymbols
  <1>1. MaxTotalSymbols \in Nat
    BY ConstantsAssumption
  <1>2. CASE E!CloseSymbol
    BY <1>2 DEF E!CloseSymbol, E!Running
  <1>3. CASE E!TakeBlock
    BY <1>3 DEF E!TakeBlock, E!Running
  <1>4. CASE E!TryNextK
    BY <1>4 DEF E!TryNextK
  <1>5. CASE E!EndSearch
    BY <1>5, Zenon DEF E!EndSearch
  <1>6. CASE E!EncodeFails
    BY <1>6 DEF E!EncodeFails
  <1>7. CASE E!EncodeEnds
    <2>1. /\ phase = "encode" /\ offset' = offset
          /\ packings' = E!Packed
          /\ phase' = IF Len(E!Packed) > MaxTotalSymbols THEN "TooManySymbols" ELSE "encoded"
      BY <1>7 DEF E!EncodeEnds
    <2>2. phase' = "encoded" => ~ (Len(packings') > MaxTotalSymbols)
      BY <2>1
    <2> QED
      BY <1>1, <2>1, <2>2
  <1> QED
    BY <1>2, <1>3, <1>4, <1>5, <1>6, <1>7 DEF E!Next

-----------------------------------------------------------------------------
(* The invariant.                                                          *)

\* What the encoder has done, and will not undo.
Encoding ==
    /\ file \in Files
    /\ entries \in Splits(file)
    /\ offset = WireOffsets(entries)
    /\ EP!IInv
    /\ phase = "encoded" => Len(packings) <= MaxTotalSymbols

\* The description every symbol of an encoding carries.
Description(id) ==
    [file_id |-> id, file_size |-> Len(file), total_blocks |-> Len(entries),
     total_symbols |-> Len(packings), global_hash |-> file]

\* Until the encoder has ended there is nothing to take.
Waiting ==
    phase # "encoded" =>
        R!Init /\ captures = 0 /\ verdict = "open" /\ origins = {} /\ seen = {}

\* The blocks of symbol i (from 1) of any encoding, and how it is recorded.
Part(i) == [block_start |-> packings[i].block_start, block_count |-> packings[i].block_count]
Held(i) == packings[i].block_start .. (packings[i].block_start + packings[i].block_count - 1)

\* What the reassembler has stored is what an honest symbol brought.
Storing ==
    /\ metadata # None => phase = "encoded" /\ \E id \in FileIds : metadata = Description(id)
    /\ metadata = None <=> DOMAIN symbols = {}
    /\ DOMAIN symbols \subseteq 0 .. (Len(packings) - 1)
    /\ symbols = [i \in DOMAIN symbols |-> Part(i + 1)]
    /\ DOMAIN blocks = UNION {Held(i + 1) : i \in DOMAIN symbols}
    /\ blocks = [b \in DOMAIN blocks |-> blocks[b]]
    /\ \A b \in DOMAIN blocks : blocks[b] \in {None, entries[b + 1]}

\* Where the captures came from, as far as it matters.
Sources ==
    /\ metadata = None <=> origins = {}
    /\ metadata # None => metadata.file_id \in origins
    /\ verdict # "Rejected" => \A id \in origins : id = metadata.file_id
    /\ verdict = "Rejected" =>
          outcome = "SymbolFileIdMismatch" /\ \E id \in origins : id # metadata.file_id

\* A block is stored undamaged when, and only when, a capture brought it so.
Knowing ==
    /\ seen \subseteq AllBlocks
    /\ verdict # "Rejected" => \A b \in AllBlocks : R!Stored(b) # None <=> b \in seen

\* What was answered, once it was.
Answering ==
    /\ outcome \in {"Ok", "SymbolFileIdMismatch"}
    /\ report = None => verdict \in {"open", "Rejected", "SymbolError"}
    /\ report # None =>
          \/ verdict = "Verified" /\ report.bytes = file /\ seen = AllBlocks
          \/ verdict = "MissingBlocks" /\ seen # AllBlocks

IInv == Encoding /\ Waiting /\ Storing /\ Sources /\ Knowing /\ Answering

-----------------------------------------------------------------------------
(* The encoder.                                                            *)

\* What the symbols of an encoded file hold: ranges of its blocks, no two with
\* a block in common.
LEMMA Cut ==
    ASSUME Encoding, phase = "encoded"
    PROVE  /\ packings \in Seq(EP!Packing) /\ Len(packings) \in 1 .. MaxTotalSymbols
           /\ Len(entries) \in 1 .. MaxTotalBlocks /\ Len(entries) \in Nat \ {0}
           /\ \A i \in 1 .. Len(packings) :
                 /\ packings[i].block_start \in Nat
                 /\ packings[i].block_count \in 1 .. TargetBlocks
                 /\ packings[i].block_start + packings[i].block_count <= Len(entries)
                 /\ Held(i) \subseteq AllBlocks
           /\ \A i, j \in 1 .. Len(packings) : i # j => Held(i) \cap Held(j) = {}
  <1>1. /\ packings \in Seq(EP!Packing) /\ Len(packings) \in Nat
        /\ packings # <<>> /\ Len(packings) <= MaxTotalSymbols
    BY DEF Encoding, EP!IInv, EP!TypeOK, EP!Tiling
  <1>2. Len(packings) \in 1 .. MaxTotalSymbols
    <2>1. Len(packings) # 0
      BY <1>1
    <2>2. MaxTotalSymbols \in Nat
      BY ConstantsAssumption
    <2> QED
      BY <1>1, <2>1, <2>2
  <1>3. Len(entries) \in 1 .. MaxTotalBlocks /\ Len(entries) \in Nat \ {0}
        /\ Len(offset) = Len(entries) + 1
    BY EntryFacts, TableFacts, Assumed DEF Encoding
  <1>4. ASSUME NEW i \in 1 .. Len(packings)
        PROVE  /\ packings[i].block_start \in Nat
               /\ packings[i].block_count \in 1 .. TargetBlocks
               /\ packings[i].block_count \in Nat
               /\ packings[i].block_start + packings[i].block_count <= Len(entries)
               /\ i # 1 => packings[i].block_start =
                              packings[i - 1].block_start + packings[i - 1].block_count
    <2>1. packings[i] \in EP!Packing /\ i \in DOMAIN packings
      BY <1>1
    <2>2. packings[i].block_start \in Nat /\ packings[i].block_count \in Nat
      BY <2>1 DEF EP!Packing
    <2>3. /\ packings[i].block_count \in 1 .. TargetBlocks
          /\ EP!EndOf(packings[i]) <= EP!Total
      BY <2>1 DEF Encoding, EP!IInv, EP!SymbolsFit
    <2>4. packings[i].block_start = IF i = 1 THEN 0 ELSE EP!EndOf(packings[i - 1])
      BY <2>1 DEF Encoding, EP!IInv, EP!Tiling
    <2>5. EP!Total = Len(entries)
      BY <1>3 DEF EP!Total
    <2> QED
      BY <2>2, <2>3, <2>4, <2>5 DEF EP!EndOf
  <1> DEFINE first(i) == packings[i].block_start
             end(i) == packings[i].block_start + packings[i].block_count
             S == {d \in Nat : \A i, j \in 1 .. Len(packings) : j = i + 1 + d => end(i) <= first(j)}
  <1>5. \A i \in 1 .. Len(packings) :
           first(i) \in Nat /\ end(i) \in Nat /\ first(i) < end(i) /\ end(i) <= Len(entries)
    BY <1>4
  <1>6. \A i \in 1 .. Len(packings) : i # 1 => first(i) = end(i - 1)
    BY <1>4
  <1> HIDE DEF first, end
  <1>7. 0 \in S
    <2>1. ASSUME NEW i \in 1 .. Len(packings), NEW j \in 1 .. Len(packings), j = i + 1 + 0
          PROVE  end(i) <= first(j)
      <3>1. j # 1 /\ j - 1 = i
        BY <2>1
      <3> QED
        BY <1>5, <1>6, <3>1
    <2> QED
      BY <2>1
  <1>8. ASSUME NEW d \in Nat, d \in S PROVE d + 1 \in S
    <2>1. ASSUME NEW i \in 1 .. Len(packings), NEW j \in 1 .. Len(packings), j = i + 1 + (d + 1)
          PROVE  end(i) <= first(j)
      <3>1. j # 1 /\ j - 1 \in 1 .. Len(packings) /\ j - 1 = i + 1 + d
        BY <1>1, <2>1
      <3>2. end(i) <= first(j - 1)
        BY <1>8, <3>1
      <3>3. first(j) = end(j - 1) /\ first(j - 1) < end(j - 1)
            /\ first(j - 1) \in Nat /\ end(j - 1) \in Nat /\ end(i) \in Nat
        BY <1>5, <1>6, <3>1
      <3> QED
        BY <3>2, <3>3
    <2> QED
      BY <2>1
  <1>9. ASSUME NEW i \in 1 .. Len(packings), NEW j \in 1 .. Len(packings), i < j
        PROVE  end(i) <= first(j)
    <2>1. \A d \in Nat : d \in S
      <3> HIDE DEF S
      <3> QED
        BY <1>7, <1>8, Induction
    <2>2. j - i - 1 \in Nat /\ j = i + 1 + (j - i - 1)
      BY <1>1, <1>9
    <2>3. j - i - 1 \in S
      BY <2>1, <2>2
    <2> QED
      BY <2>2, <2>3
  <1>10. ASSUME NEW i \in 1 .. Len(packings)
         PROVE  Held(i) = first(i) .. (end(i) - 1) /\ Held(i) \subseteq AllBlocks
    <2>1. Held(i) = first(i) .. (end(i) - 1)
      <3>1. packings[i].block_start + packings[i].block_count - 1 = end(i) - 1
        <4>1. packings[i].block_start \in Nat /\ packings[i].block_count \in Nat
          BY <1>4
        <4> QED
          BY <4>1 DEF end
      <3> QED
        BY <3>1, Zenon DEF Held, first
    <2> QED
      BY <1>3, <1>5, <2>1 DEF AllBlocks
  <1>11. ASSUME NEW i \in 1 .. Len(packings), NEW j \in 1 .. Len(packings), i # j
         PROVE  Held(i) \cap Held(j) = {}
    <2>1. end(i) <= first(j) \/ end(j) <= first(i)
      BY <1>1, <1>9, <1>11
    <2> QED
      BY <1>5, <1>10, <2>1
  <1> QED
    BY <1>1, <1>2, <1>3, <1>4, <1>10, <1>11

LEMMA InitInv == Init => IInv
  <1> SUFFICES ASSUME Init PROVE IInv
    OBVIOUS
  <1>1. EP!IInv
    BY SameInit, EP!InitInv, EncoderAssumed DEF Init
  <1>2. phase \in {"search", "encode"} /\ Waiting /\ Encoding
    BY <1>1 DEF Init, E!Init, Waiting, Encoding
  <1>3. metadata = None /\ DOMAIN symbols = {} /\ DOMAIN blocks = {} /\ report = None
        /\ blocks = [b \in {} |-> None] /\ symbols = [i \in {} |-> None] /\ outcome = "Ok"
        /\ verdict = "open" /\ origins = {} /\ seen = {}
    BY DEF Init, R!Init
  <1>4. Storing
    BY <1>3 DEF Storing
  <1> QED
    BY <1>2, <1>3, <1>4 DEF IInv, Sources, Knowing, Answering, R!Stored

LEMMA EncodeInv ==
    ASSUME IInv, Encode
    PROVE  IInv'
  <1>1. EP!IInv'
    BY SameNext, EP!StepInv, EncoderAssumed DEF IInv, Encoding, Encode
  <1>2. Len(packings') \in Nat
    BY <1>1 DEF EP!IInv, EP!TypeOK
  <1>3. /\ phase \in {"search", "encode"} /\ offset' = offset
        /\ phase' = "encoded" => Len(packings') <= MaxTotalSymbols
        /\ UNCHANGED <<file, entries, reassemblerVars, sessionVars>>
    BY <1>2, EncoderStep DEF Encode
  <1>4. /\ metadata = None /\ DOMAIN symbols = {} /\ DOMAIN blocks = {} /\ report = None
        /\ blocks = [b \in {} |-> None] /\ symbols = [i \in {} |-> None] /\ outcome = "Ok"
        /\ verdict = "open" /\ origins = {} /\ seen = {}
    BY <1>3 DEF IInv, Waiting, R!Init, Answering
  <1>5. Encoding'
    BY <1>1, <1>3 DEF IInv, Encoding
  <1>6. Waiting'
    <2>1. phase # "encoded" /\ Waiting
      BY <1>3 DEF IInv
    <2> QED
      BY <1>3, <2>1 DEF Waiting, R!Init, reassemblerVars, sessionVars
  <1>7. Storing'
    BY <1>3, <1>4 DEF Storing, reassemblerVars
  <1>8. Sources' /\ Knowing' /\ Answering'
    BY <1>3, <1>4 DEF Sources, Knowing, Answering, AllBlocks, R!Stored, reassemblerVars, sessionVars
  <1> QED
    BY <1>5, <1>6, <1>7, <1>8 DEF IInv

-----------------------------------------------------------------------------
(* A capture.                                                              *)

\* What an honest symbol, damaged or not, says of itself.
LEMMA CaptureFacts ==
    ASSUME IInv, phase = "encoded", NEW id \in FileIds, NEW i \in 1 .. Len(packings),
           NEW n \in 0 .. packings[i].block_count
    PROVE  LET s == CutAfter(EncodedSymbol(id, i), n)
           IN  /\ s.file_id = id
               /\ s.symbol_index = i - 1
               /\ s.block_start = packings[i].block_start
               /\ s.block_count = packings[i].block_count
               /\ s.file_size = Len(file) /\ s.total_blocks = Len(entries)
               /\ s.total_symbols = Len(packings)
               /\ R!MetadataOf(s) = Description(id)
               /\ R!BlockRange(s) = Held(i)
  <1> DEFINE e == EncodedSymbol(id, i)
             s == CutAfter(e, n)
  <1>1. /\ e.file_id = id /\ e.file_size = Len(file) /\ e.total_blocks = Len(entries)
        /\ e.total_symbols = Len(packings) /\ e.global_hash = file
        /\ e.symbol_index = i - 1 /\ e.block_start = packings[i].block_start
        /\ e.block_count = packings[i].block_count /\ e.blocks = HeldBlocks(packings[i])
        /\ DOMAIN e = {"file_id", "file_size", "total_blocks", "total_symbols", "global_hash",
                       "symbol_index", "block_start", "block_count", "blocks"}
    BY DEF EncodedSymbol, IndexOf
  <1> HIDE DEF e
  <1>2. /\ s.file_id = e.file_id /\ s.file_size = e.file_size
        /\ s.total_blocks = e.total_blocks /\ s.total_symbols = e.total_symbols
        /\ s.global_hash = e.global_hash /\ s.symbol_index = e.symbol_index
        /\ s.block_start = e.block_start /\ s.block_count = e.block_count
        /\ s.blocks = IF n = e.block_count THEN e.blocks
                      ELSE Append(SubSeq(e.blocks, 1, n), None)
    BY <1>1 DEF CutAfter
  <1> HIDE DEF s
  <1>3. R!MetadataOf(s) = Description(id)
    BY <1>1, <1>2 DEF R!MetadataOf, Description
  <1>4. R!BlockRange(s) = Held(i)
    BY <1>1, <1>2, Zenon DEF R!BlockRange, Held
  <1> QED
    BY <1>1, <1>2, <1>3, <1>4 DEF s, e

\* And what it brings: its first n blocks as the encoder stored them. No check of
\* add_symbol on the symbol alone refuses it.
LEMMA CaptureBrings ==
    ASSUME IInv, phase = "encoded", NEW id \in FileIds, NEW i \in 1 .. Len(packings),
           NEW n \in 0 .. packings[i].block_count
    PROVE  LET s == CutAfter(EncodedSymbol(id, i), n)
           IN  /\ R!WellFormed(s)
               /\ \A b \in Held(i) :
                     R!EntryAt(s, b) =
                         IF b \in packings[i].block_start .. (packings[i].block_start + n - 1)
                         THEN entries[b + 1] ELSE None
  <1> DEFINE e == EncodedSymbol(id, i)
             s == CutAfter(e, n)
             first == packings[i].block_start
             count == packings[i].block_count
             held == HeldBlocks(packings[i])
  <1>1. /\ s.file_id = id /\ s.symbol_index = i - 1
        /\ s.block_start = first /\ s.block_count = count
        /\ s.file_size = Len(file) /\ s.total_blocks = Len(entries)
        /\ s.total_symbols = Len(packings)
    BY CaptureFacts
  <1>2. /\ Encoding /\ file \in Files /\ entries \in Splits(file)
        /\ first \in Nat /\ count \in 1 .. TargetBlocks
        /\ first + count <= Len(entries) /\ Len(entries) \in 1 .. MaxTotalBlocks
        /\ Len(packings) \in 1 .. MaxTotalSymbols /\ MaxTotalSymbols \in Nat
        /\ TargetBlocks \in Nat /\ TargetBlocks <= MaxBlockCount /\ MaxBlockCount \in Nat
    BY Cut, ConstantsAssumption, Assumed DEF IInv, Encoding
  <1>3. /\ Len(file) # 0 /\ Len(entries) = R!expected_total_blocks(Len(file))
        /\ Len(entries) = BlockCount(file)
    <2>1. Len(entries) = BlockCount(file) /\ 0 \in 0 .. (BlockCount(file) - 1)
      BY <1>2, EntryFacts, Assumed
    <2>2. Len(file) \in Nat \ {0} /\ BlockCount(file) = R!expected_total_blocks(Len(file))
      BY <1>2, <2>1, ChunkFacts
    <2> QED
      BY <2>1, <2>2
  <1>4. s.blocks = IF n = count THEN held ELSE Append(SubSeq(held, 1, n), None)
    <2>1. e.blocks = held /\ e.block_count = count /\ "blocks" \in DOMAIN e
      BY DEF EncodedSymbol
    <2> HIDE DEF e
    <2> QED
      BY <2>1 DEF CutAfter
  <1> HIDE DEF s, e, first, count
  <1>5. R!WellFormed(s)
    <2>1. count \in 1 .. MaxBlockCount
      BY <1>2
    <2>2. R!validate_header_invariants(s)
      BY <1>1, <1>2, <1>3, <2>1 DEF R!validate_header_invariants
    <2>3. R!IndexFits(s) /\ R!RangeFits(s)
      BY <1>1, <1>2 DEF R!IndexFits, R!RangeFits
    <2> QED
      BY <2>2, <2>3 DEF R!WellFormed
  <1>6. /\ held \in Seq(R!BlockEntry) /\ Len(held) = count
        /\ \A q \in 1 .. count : held[q] = entries[first + q]
    <2>1. entries \in Seq(R!BlockEntry)
      BY <1>2, EntryFacts
    <2>2. held = SubSeq(entries, first + 1, first + count)
      BY DEF HeldBlocks, first, count
    <2>3. /\ first + 1 \in Int /\ first + count \in Int /\ first + 1 <= first + count
          /\ (first + count) - (first + 1) + 1 = count
          /\ \A q \in (first + 1) .. (first + count) : entries[q] \in R!BlockEntry
      BY <1>2, <2>1
    <2> HIDE DEF held
    <2>4. /\ held \in Seq(R!BlockEntry)
          /\ Len(held) = IF first + 1 <= first + count THEN (first + count) - (first + 1) + 1 ELSE 0
          /\ \A q \in 1 .. (first + count) - (first + 1) + 1 : held[q] = entries[(first + 1) + q - 1]
      BY <2>2, <2>3, SubSeqProperties
    <2>5. \A q \in 1 .. count : (first + 1) + q - 1 = first + q
      BY <1>2
    <2> QED
      BY <2>3, <2>4, <2>5
  <1> HIDE DEF held
  <1>7. /\ \A q \in 1 .. n : q \in DOMAIN s.blocks /\ s.blocks[q] = entries[first + q]
        /\ \A q \in (n + 1) .. count : q \notin DOMAIN s.blocks \/ s.blocks[q] = None
    <2>1. n \in 0 .. count /\ count \in Nat /\ n \in Nat /\ DOMAIN held = 1 .. count
      BY <1>2, <1>6 DEF count
    <2>2. CASE n = count
      <3>1. s.blocks = held
        BY <1>4, <2>2
      <3> QED
        BY <1>6, <2>1, <2>2, <3>1
    <2>3. CASE n # count
      <3> DEFINE kept == SubSeq(held, 1, n)
      <3>1. \A q \in 1 .. n : q \in 1 .. count /\ held[q] \in R!BlockEntry
        BY <1>6, <2>1
      <3>2. /\ kept \in Seq(R!BlockEntry)
            /\ Len(kept) = IF 1 <= n THEN n - 1 + 1 ELSE 0
            /\ \A q \in 1 .. n - 1 + 1 : kept[q] = held[1 + q - 1]
        BY <2>1, <3>1, SubSeqProperties
      <3> HIDE DEF kept
      <3>3. Len(kept) = n /\ \A q \in 1 .. n : kept[q] = held[q]
        BY <2>1, <3>2
      <3>4. s.blocks = Append(kept, None)
        BY <1>4, <2>3 DEF kept
      <3>5. /\ DOMAIN Append(kept, None) = 1 .. (n + 1)
            /\ Append(kept, None)[n + 1] = None
            /\ \A q \in 1 .. n : Append(kept, None)[q] = kept[q]
        BY <2>1, <3>2, <3>3
      <3>6. \A q \in 1 .. n : q \in DOMAIN s.blocks /\ s.blocks[q] = entries[first + q]
        BY <1>6, <2>1, <3>1, <3>3, <3>4, <3>5
      <3>7. \A q \in (n + 1) .. count : q \notin 1 .. (n + 1) \/ q = n + 1
        BY <2>1
      <3> QED
        BY <3>4, <3>5, <3>6, <3>7
    <2> QED
      BY <2>2, <2>3
  <1>9. ASSUME NEW b \in Held(i)
        PROVE  R!EntryAt(s, b) = IF b \in first .. (first + n - 1) THEN entries[b + 1] ELSE None
    <2> DEFINE q == b - first + 1
    <2>1. b \in Nat /\ q \in 1 .. count /\ first + q = b + 1 /\ b \in 0 .. (Len(entries) - 1)
      <3>1. b \in first .. (first + count - 1)
        BY DEF Held, first, count
      <3> QED
        BY <1>2, <3>1
    <2>2. /\ entries[b + 1] # None
          /\ R!Decodes(entries[b + 1], R!expected_block_size(Len(file), Len(entries), b))
      BY <1>2, <2>1, EntryFacts
    <2>3. R!EntryAt(s, b) =
             IF /\ q \in DOMAIN s.blocks
                /\ s.blocks[q] # None
                /\ R!Decodes(s.blocks[q], R!expected_block_size(Len(file), Len(entries), b))
             THEN s.blocks[q] ELSE None
      BY <1>1, Zenon DEF R!EntryAt
    <2>4. (q <= n <=> b \in first .. (first + n - 1)) /\ n \in 0 .. count /\ count \in Nat
      BY <1>2, <2>1 DEF count
    <2> HIDE DEF q
    <2>5. CASE q <= n
      <3>1. q \in 1 .. n
        BY <2>1, <2>4, <2>5
      <3>2. q \in DOMAIN s.blocks /\ s.blocks[q] = entries[b + 1]
        BY <1>7, <2>1, <3>1
      <3> QED
        BY <2>2, <2>3, <2>4, <2>5, <3>2
    <2>6. CASE ~ (q <= n)
      <3>1. q \in (n + 1) .. count
        BY <2>1, <2>4, <2>6
      <3>2. q \notin DOMAIN s.blocks \/ s.blocks[q] = None
        BY <1>7, <3>1
      <3> QED
        BY <2>3, <2>4, <2>6, <3>2
    <2> QED
      BY <2>5, <2>6
  <1> QED
    BY <1>5, <1>9 DEF s, e, first

\* An honest symbol is refused for its file_id and nothing else.
Refused(id) ==
    /\ metadata # None /\ metadata.file_id # id
    /\ outcome' = "SymbolFileIdMismatch"
    /\ UNCHANGED <<metadata, blocks, symbols, report>>

\* One that is taken adds the blocks it brings to those that were there.
Accepted(id, i, n) ==
    /\ outcome' = "Ok"
    /\ metadata \in {None, Description(id)} /\ metadata' = Description(id)
    /\ report' = report
    /\ DOMAIN symbols' = DOMAIN symbols \cup {i - 1}
    /\ symbols' = [j \in DOMAIN symbols' |-> Part(j + 1)]
    /\ DOMAIN blocks' = DOMAIN blocks \cup Held(i)
    /\ blocks' = [b \in DOMAIN blocks' |-> blocks'[b]]
    /\ \A b \in DOMAIN blocks \ Held(i) : blocks'[b] = blocks[b]
    /\ \A b \in Held(i) :
          blocks'[b] = IF \/ R!Stored(b) # None
                          \/ b \in packings[i].block_start .. (packings[i].block_start + n - 1)
                       THEN entries[b + 1] ELSE None

LEMMA CaptureOutcome ==
    ASSUME IInv, phase = "encoded", NEW id \in FileIds, NEW i \in 1 .. Len(packings),
           NEW n \in 0 .. packings[i].block_count,
           R!AddSymbol(CutAfter(EncodedSymbol(id, i), n))
    PROVE  Refused(id) \/ Accepted(id, i, n)
  <1> DEFINE s == CutAfter(EncodedSymbol(id, i), n)
             brought == packings[i].block_start .. (packings[i].block_start + n - 1)
  <1>1. /\ s.file_id = id /\ s.symbol_index = i - 1
        /\ s.block_start = packings[i].block_start /\ s.block_count = packings[i].block_count
        /\ R!MetadataOf(s) = Description(id) /\ R!BlockRange(s) = Held(i)
    BY CaptureFacts
  <1>2. /\ R!WellFormed(s)
        /\ \A b \in Held(i) : R!EntryAt(s, b) = IF b \in brought THEN entries[b + 1] ELSE None
    BY CaptureBrings
  <1>3. R!StoredAs(s) = Part(i)
    BY <1>1 DEF R!StoredAs, Part
  <1>4. R!AddSymbol(s)
    OBVIOUS
  <1> HIDE DEF s, brought
  <1>5. \/ R!RejectMetadata(s) \/ R!RejectMovedDuplicate(s) \/ R!MergeDuplicate(s)
        \/ R!RejectOverlap(s) \/ R!InsertSymbol(s)
    BY <1>2, <1>4 DEF R!AddSymbol, R!RejectHeader, R!RejectIndex, R!RejectRange, R!WellFormed
  <1>6. Storing /\ Encoding
    BY DEF IInv
  <1>7. CASE R!RejectMetadata(s)
    <2>1. /\ metadata # None /\ metadata # Description(id)
          /\ outcome' = IF metadata.file_id # s.file_id THEN "SymbolFileIdMismatch"
                        ELSE "InconsistentFileMetadata"
          /\ UNCHANGED <<metadata, blocks, symbols, report>>
      BY <1>1, <1>7 DEF R!RejectMetadata, R!AdmitsMetadata, R!Rejected, R!store
    <2>2. PICK other \in FileIds : metadata = Description(other)
      BY <1>6, <2>1 DEF Storing
    <2>3. metadata.file_id = other /\ other # id
      BY <2>1, <2>2 DEF Description
    <2> QED
      BY <1>1, <2>1, <2>3 DEF Refused
  <1>8. ASSUME R!Admitted(s)
        PROVE  /\ metadata \in {None, Description(id)} /\ metadata' = Description(id)
               /\ report' = report
    BY <1>1, <1>8 DEF R!Admitted, R!AdmitsMetadata
  <1>9. ASSUME R!IsStored(s)
        PROVE  /\ i - 1 \in DOMAIN symbols /\ symbols[i - 1] = R!StoredAs(s)
               /\ Held(i) \subseteq DOMAIN blocks
    <2>1. i - 1 \in DOMAIN symbols
      BY <1>1, <1>9 DEF R!IsStored
    <2>2. (i - 1) + 1 = i
      OBVIOUS
    <2>3. symbols[i - 1] = Part((i - 1) + 1)
      BY <1>6, <2>1, Zenon DEF Storing
    <2>4. Held((i - 1) + 1) \subseteq DOMAIN blocks
      BY <1>6, <2>1, Zenon DEF Storing
    <2> QED
      BY <1>3, <2>1, <2>2, <2>3, <2>4
  <1>10. ~ R!RejectMovedDuplicate(s)
    BY <1>1, <1>9 DEF R!RejectMovedDuplicate
  <1>11. ASSUME NEW b \in Held(i)
         PROVE  R!Stored(b) \in {None, entries[b + 1]} /\ R!EntryAt(s, b) \in {None, entries[b + 1]}
    BY <1>2, <1>6 DEF Storing, R!Stored
  <1>12. CASE R!MergeDuplicate(s)
    <2>1. /\ R!Admitted(s) /\ R!IsStored(s) /\ symbols' = symbols
          /\ blocks' = [b \in DOMAIN blocks \cup Held(i) |->
                          IF b \in Held(i) THEN R!Merged(s, b, R!EntryAt(s, b)) ELSE blocks[b]]
          /\ outcome' = IF R!Diverges(s) THEN "DuplicateSymbol" ELSE "Ok"
      BY <1>1, <1>12, Zenon DEF R!MergeDuplicate
    <2>2. ~ R!Diverges(s)
      BY <1>1, <1>11 DEF R!Diverges
    <2>3. DOMAIN symbols' = DOMAIN symbols \cup {i - 1}
          /\ symbols' = [j \in DOMAIN symbols' |-> Part(j + 1)]
      <3>1. symbols = [j \in DOMAIN symbols |-> Part(j + 1)] /\ i - 1 \in DOMAIN symbols
        BY <1>6, <1>9, <2>1 DEF Storing
      <3>2. symbols' = [j \in DOMAIN symbols' |-> Part(j + 1)]
        BY <2>1, <3>1, Zenon
      <3> QED
        BY <2>1, <3>1, <3>2
    <2>4. /\ DOMAIN blocks' = DOMAIN blocks \cup Held(i)
          /\ blocks' = [b \in DOMAIN blocks' |-> blocks'[b]]
          /\ \A b \in DOMAIN blocks \ Held(i) : blocks'[b] = blocks[b]
          /\ \A b \in Held(i) : blocks'[b] = R!Merged(s, b, R!EntryAt(s, b))
      BY <2>1
    <2>5. ASSUME NEW b \in Held(i)
          PROVE  blocks'[b] = IF R!Stored(b) # None \/ b \in brought THEN entries[b + 1] ELSE None
      BY <1>2, <1>11, <2>4 DEF R!Merged
    <2> QED
      BY <1>8, <2>1, <2>2, <2>3, <2>4, <2>5 DEF Accepted, brought
  <1>13. ASSUME ~ R!IsStored(s)
         PROVE  i - 1 \notin DOMAIN symbols /\ Held(i) \cap DOMAIN blocks = {}
    <2>1. i - 1 \notin DOMAIN symbols
      BY <1>1, <1>13 DEF R!IsStored
    <2>2. ASSUME NEW j \in DOMAIN symbols PROVE Held(i) \cap Held(j + 1) = {}
      <3>1. j \in 0 .. (Len(packings) - 1) /\ j # i - 1 /\ Len(packings) \in Nat
        BY <1>6, <2>1, Cut DEF Storing
      <3>2. j + 1 \in 1 .. Len(packings) /\ i # j + 1
        BY <3>1
      <3> QED
        BY <1>6, <3>2, Cut
    <2>3. DOMAIN blocks = UNION {Held(j + 1) : j \in DOMAIN symbols}
      BY <1>6 DEF Storing
    <2> QED
      BY <2>1, <2>2, <2>3
  <1>14. ~ R!RejectOverlap(s)
    BY <1>1, <1>13 DEF R!RejectOverlap, R!ensure_no_overlapping_blocks
  <1>15. CASE R!InsertSymbol(s)
    <2>1. /\ R!Admitted(s) /\ ~ R!IsStored(s) /\ outcome' = "Ok"
          /\ symbols' = [j \in DOMAIN symbols \cup {i - 1} |->
                           IF j = i - 1 THEN Part(i) ELSE symbols[j]]
          /\ blocks' = [b \in DOMAIN blocks \cup Held(i) |->
                          IF b \in Held(i) THEN R!EntryAt(s, b) ELSE blocks[b]]
      BY <1>1, <1>3, <1>15, Zenon DEF R!InsertSymbol
    <2>2. DOMAIN symbols' = DOMAIN symbols \cup {i - 1}
          /\ symbols' = [j \in DOMAIN symbols' |-> Part(j + 1)]
      <3>1. symbols = [j \in DOMAIN symbols |-> Part(j + 1)] /\ (i - 1) + 1 = i
        BY <1>6 DEF Storing
      <3>2. ASSUME NEW j \in DOMAIN symbols \cup {i - 1}
            PROVE  (IF j = i - 1 THEN Part(i) ELSE symbols[j]) = Part(j + 1)
        BY <3>1, <3>2, Zenon
      <3>3. DOMAIN symbols' = DOMAIN symbols \cup {i - 1}
        BY <2>1, Zenon
      <3>4. symbols' = [j \in DOMAIN symbols \cup {i - 1} |-> Part(j + 1)]
        BY <2>1, <3>2, Zenon
      <3> QED
        BY <3>3, <3>4, Zenon
    <2>3. /\ DOMAIN blocks' = DOMAIN blocks \cup Held(i)
          /\ blocks' = [b \in DOMAIN blocks' |-> blocks'[b]]
          /\ \A b \in DOMAIN blocks \ Held(i) : blocks'[b] = blocks[b]
          /\ \A b \in Held(i) : blocks'[b] = R!EntryAt(s, b)
      BY <2>1
    <2>4. \A b \in Held(i) : R!Stored(b) = None
      BY <1>13, <2>1 DEF R!Stored
    <2> QED
      BY <1>2, <1>8, <2>1, <2>2, <2>3, <2>4 DEF Accepted, brought
  <1> QED
    BY <1>5, <1>7, <1>10, <1>12, <1>14, <1>15

\* Once the encoder has ended, nothing it made changes.
LEMMA EncodingKept ==
    ASSUME IInv, UNCHANGED <<file, entries, encoderVars>>
    PROVE  /\ Encoding' /\ AllBlocks' = AllBlocks
           /\ \A i : Part(i)' = Part(i) /\ Held(i)' = Held(i)
           /\ \A id : Description(id)' = Description(id)
  <1>1. EP!IInv'
    <2>1. UNCHANGED EP!vars
  BY DEF EP!vars, EP!pack, encoderVars
    <2> QED
      BY <2>1, EP!StepInv, EncoderAssumed DEF IInv, Encoding
  <1> QED
    BY <1>1 DEF IInv, Encoding, AllBlocks, Part, Held, Description, encoderVars

LEMMA TakeCaptureInv ==
    ASSUME IInv, NEW id \in FileIds, NEW i \in 1 .. Len(packings),
           NEW n \in 0 .. packings[i].block_count, TakeCapture(id, i, n)
    PROVE  IInv'
  <1> DEFINE brought == packings[i].block_start .. (packings[i].block_start + n - 1)
  <1>1. /\ phase = "encoded" /\ verdict = "open" /\ report = None
        /\ R!AddSymbol(CutAfter(EncodedSymbol(id, i), n))
        /\ verdict' = StopOn(outcome') /\ origins' = origins \cup {id}
        /\ UNCHANGED <<file, entries, encoderVars>>
    BY DEF TakeCapture, InSession, Take, R!AddSymbol
  <1>2. seen' = seen \cup brought
    <2> DEFINE s == CutAfter(EncodedSymbol(id, i), n)
    <2>1. s.block_start = packings[i].block_start
      BY <1>1, CaptureFacts
    <2>2. seen' = seen \cup (s.block_start .. (s.block_start + n - 1))
      BY DEF TakeCapture
    <2> HIDE DEF s
    <2> QED
      BY <2>1, <2>2
  <1>3. /\ Encoding' /\ phase' = phase /\ packings' = packings /\ entries' = entries /\ file' = file
        /\ AllBlocks' = AllBlocks
        /\ \A j : Part(j)' = Part(j) /\ Held(j)' = Held(j)
        /\ \A other : Description(other)' = Description(other)
    BY <1>1, EncodingKept DEF encoderVars
  <1>4. Waiting'
    BY <1>1, <1>3 DEF Waiting
  <1>5. Storing /\ Sources /\ Knowing /\ Answering /\ Encoding
    BY DEF IInv
  <1>6. brought \subseteq Held(i) /\ Held(i) \subseteq AllBlocks
    <2>1. /\ Held(i) \subseteq AllBlocks /\ packings[i].block_start \in Nat
          /\ packings[i].block_count \in 1 .. TargetBlocks /\ TargetBlocks \in Nat
      BY <1>1, <1>5, Cut, ConstantsAssumption
    <2> QED
      BY <2>1 DEF Held
  <1> HIDE DEF brought
  <1>7. seen' \subseteq AllBlocks
    BY <1>2, <1>5, <1>6 DEF Knowing
  <1>8. Refused(id) \/ Accepted(id, i, n)
    BY <1>1, CaptureOutcome
  <1>9. CASE Refused(id)
    <2>1. /\ metadata # None /\ metadata.file_id # id /\ outcome' = "SymbolFileIdMismatch"
          /\ metadata' = metadata /\ blocks' = blocks /\ symbols' = symbols /\ report' = report
          /\ verdict' = "Rejected"
      BY <1>1, <1>9 DEF Refused, StopOn
    <2>2. Storing'
      BY <1>3, <1>5, <2>1 DEF Storing
    <2>3. Sources'
      BY <1>1, <1>5, <2>1 DEF Sources
    <2>4. Knowing'
      BY <1>3, <1>7, <2>1 DEF Knowing
    <2>5. Answering'
      BY <1>1, <2>1 DEF Answering
    <2> QED
      BY <1>3, <1>4, <2>2, <2>3, <2>4, <2>5 DEF IInv
  <1>10. CASE Accepted(id, i, n)
    <2>1. /\ outcome' = "Ok" /\ verdict' = "open" /\ report' = None
          /\ metadata \in {None, Description(id)} /\ metadata' = Description(id)
          /\ DOMAIN symbols' = DOMAIN symbols \cup {i - 1}
          /\ symbols' = [j \in DOMAIN symbols' |-> Part(j + 1)]
          /\ DOMAIN blocks' = DOMAIN blocks \cup Held(i)
          /\ blocks' = [b \in DOMAIN blocks' |-> blocks'[b]]
          /\ \A b \in DOMAIN blocks \ Held(i) : blocks'[b] = blocks[b]
          /\ \A b \in Held(i) : blocks'[b] = IF R!Stored(b) # None \/ b \in brought
                                             THEN entries[b + 1] ELSE None
      BY <1>1, <1>10 DEF Accepted, StopOn, brought
    <2>2. metadata'.file_id = id /\ metadata' # None /\ Description(id).file_id = id
      <3>1. Description(id).file_id = id
        BY DEF Description
      <3>2. Description(id) \in R!ReassemblyMetadata
        <4>1. file \in Files /\ Len(packings) \in Nat /\ Len(entries) \in Nat /\ file \in Seq(Bytes)
          BY <1>1, <1>5, Cut, ConstantsAssumption DEF Encoding
        <4> QED
          BY <4>1 DEF Description, R!ReassemblyMetadata
      <3> QED
        BY <2>1, <3>1, <3>2, Assumed
    <2>3. Storing'
      <3>1. metadata' # None => phase' = "encoded"
                                /\ \E other \in FileIds : metadata' = Description(other)'
        <4>1. Description(id)' = Description(id)
          BY <1>3
        <4> QED
          BY <1>1, <1>3, <2>1, <4>1
      <3>2. (metadata' = None <=> DOMAIN symbols' = {})
            /\ DOMAIN symbols' \subseteq 0 .. (Len(packings') - 1)
        <4>1. i - 1 \in 0 .. (Len(packings) - 1)
          BY <1>1, <1>5, Cut
        <4> QED
          BY <1>3, <1>5, <2>1, <2>2, <4>1 DEF Storing
      <3>3. symbols' = [j \in DOMAIN symbols' |-> Part(j + 1)']
        BY <1>3, <2>1
      <3>4. DOMAIN blocks' = UNION {Held(j + 1)' : j \in DOMAIN symbols'}
        <4>1. DOMAIN blocks = UNION {Held(j + 1) : j \in DOMAIN symbols} /\ (i - 1) + 1 = i
          BY <1>5 DEF Storing
        <4>2. UNION {Held(j + 1) : j \in DOMAIN symbols \cup {i - 1}}
              = (UNION {Held(j + 1) : j \in DOMAIN symbols}) \cup Held((i - 1) + 1)
          <5> HIDE DEF Held
          <5> QED
            OBVIOUS
        <4>3. \A j : Held(j + 1)' = Held(j + 1)
          BY <1>3
        <4> QED
          BY <2>1, <4>1, <4>2, <4>3
      <3>5. ASSUME NEW b \in DOMAIN blocks' PROVE blocks'[b] \in {None, entries'[b + 1]}
        BY <1>3, <1>5, <2>1 DEF Storing
      <3> QED
        BY <2>1, <3>1, <3>2, <3>3, <3>4, <3>5 DEF Storing
    <2>4. Sources'
      <3>1. \A other \in origins' : other = id
        BY <1>1, <1>5, <2>1, <2>2 DEF Sources
      <3> QED
        BY <1>1, <2>1, <2>2, <3>1 DEF Sources
    <2>5. Knowing'
      <3> SUFFICES ASSUME NEW b \in AllBlocks
                   PROVE  R!Stored(b)' # None <=> b \in seen'
        BY <1>3, <1>7 DEF Knowing
      <3>1. R!Stored(b) # None <=> b \in seen
        BY <1>1, <1>5 DEF Knowing
      <3>2. CASE b \in Held(i)
        <4>1. entries[b + 1] # None
          <5>1. file \in Files /\ entries \in Splits(file) /\ b \in 0 .. (Len(entries) - 1)
            BY <1>5 DEF Encoding, AllBlocks
          <5> QED
            BY <5>1, EntryFacts
        <4>2. R!Stored(b)' = IF R!Stored(b) # None \/ b \in brought THEN entries[b + 1] ELSE None
          <5>1. b \in DOMAIN blocks' /\ R!Stored(b)' = blocks'[b]
            BY <2>1, <3>2 DEF R!Stored
          <5> QED
            BY <2>1, <3>2, <5>1
        <4> QED
          BY <1>2, <3>1, <4>1, <4>2
      <3>3. CASE b \notin Held(i)
        <4>1. R!Stored(b)' = R!Stored(b)
          BY <2>1, <3>3 DEF R!Stored
        <4> QED
          BY <1>2, <1>6, <3>1, <3>3, <4>1
      <3> QED
        BY <3>2, <3>3
    <2>6. Answering'
      BY <2>1 DEF Answering
    <2> QED
      BY <1>3, <1>4, <2>3, <2>4, <2>5, <2>6 DEF IInv
  <1> QED
    BY <1>8, <1>9, <1>10

LEMMA UnreadableInv ==
    ASSUME IInv, UnreadableCapture
    PROVE  IInv'
  <1>1. /\ phase = "encoded" /\ verdict = "open" /\ verdict' = "SymbolError"
        /\ UNCHANGED <<file, entries, encoderVars, reassemblerVars, origins, seen>>
    BY DEF UnreadableCapture, InSession
  <1>2. /\ Encoding' /\ phase' = phase /\ packings' = packings /\ entries' = entries /\ file' = file
        /\ AllBlocks' = AllBlocks
        /\ \A j : Part(j)' = Part(j) /\ Held(j)' = Held(j)
        /\ \A other : Description(other)' = Description(other)
    BY <1>1, EncodingKept DEF encoderVars
  <1>3. Storing /\ Sources /\ Knowing /\ Answering
    BY DEF IInv
  <1>4. Waiting'
    BY <1>1, <1>2 DEF Waiting
  <1>5. Storing'
    BY <1>1, <1>2, <1>3 DEF Storing, reassemblerVars
  <1>6. Sources' /\ Knowing' /\ Answering'
    BY <1>1, <1>2, <1>3 DEF Sources, Knowing, Answering, R!Stored, reassemblerVars
  <1> QED
    BY <1>2, <1>4, <1>5, <1>6 DEF IInv

-----------------------------------------------------------------------------
(* finalize_report.                                                        *)

\* What the reassembler of Transfer knows of a file is what ReassemblerProofs
\* asks of one.
LEMMA Reassembling ==
    ASSUME IInv, metadata # None, report = None
    PROVE  /\ RP!IInv /\ RP!MetadataValid
           /\ file \in Files /\ entries \in Splits(file) /\ phase = "encoded"
           /\ metadata.total_blocks = Len(entries) /\ metadata.file_size = Len(file)
           /\ metadata.global_hash = file
  <1>1. Storing /\ Sources /\ Knowing /\ Answering /\ Encoding
    BY DEF IInv
  <1>2. phase = "encoded"
    BY <1>1 DEF Storing
  <1>3. PICK id \in FileIds : metadata = Description(id)
    BY <1>1 DEF Storing
  <1>4. /\ file \in Files /\ entries \in Splits(file) /\ file \in Seq(Bytes)
        /\ Len(packings) \in 1 .. MaxTotalSymbols /\ MaxTotalSymbols \in Nat
        /\ Len(entries) \in 1 .. MaxTotalBlocks /\ MaxTotalBlocks \in Nat
        /\ Len(entries) = BlockCount(file) /\ Len(entries) \in Nat /\ Len(packings) \in Nat
    <2>1. file \in Files /\ entries \in Splits(file)
      BY <1>1 DEF Encoding
    <2>2. Len(packings) \in 1 .. MaxTotalSymbols
      BY <1>1, <1>2, Cut
    <2> QED
      BY <2>1, <2>2, EntryFacts, ConstantsAssumption, Assumed
  <1>5. /\ metadata.file_id = id /\ metadata.file_size = Len(file)
        /\ metadata.total_blocks = Len(entries) /\ metadata.total_symbols = Len(packings)
        /\ metadata.global_hash = file
        /\ metadata \in RP!ReassemblyMetadata
    BY <1>3, <1>4 DEF Description, RP!ReassemblyMetadata
  <1>6. ASSUME NEW j \in DOMAIN symbols
        PROVE  /\ symbols[j] = Part(j + 1) /\ j + 1 \in 1 .. Len(packings)
               /\ RP!BlockRange(symbols[j]) = Held(j + 1)
    <2>1. symbols[j] = Part(j + 1)
      BY <1>1, Zenon DEF Storing
    <2>2. j \in 0 .. (Len(packings) - 1)
      BY <1>1 DEF Storing
    <2>3. RP!BlockRange(symbols[j]) = Held(j + 1)
      BY <2>1 DEF RP!BlockRange, Part, Held
    <2> QED
      BY <1>4, <2>1, <2>2, <2>3
  <1>7. DOMAIN blocks \subseteq AllBlocks /\ DOMAIN blocks = UNION {Held(j + 1) : j \in DOMAIN symbols}
    <2>1. DOMAIN blocks = UNION {Held(j + 1) : j \in DOMAIN symbols}
      BY <1>1 DEF Storing
    <2>2. \A j \in DOMAIN symbols : Held(j + 1) \subseteq AllBlocks
      BY <1>1, <1>2, <1>6, Cut
    <2> QED
      BY <2>1, <2>2
  <1>8. ASSUME NEW b \in DOMAIN blocks
        PROVE  /\ b \in 0 .. (Len(entries) - 1) /\ blocks[b] \in {None, entries[b + 1]}
               /\ entries[b + 1] \in RP!BlockEntry
               /\ RP!Decodes(entries[b + 1],
                     RP!expected_block_size(metadata.file_size, metadata.total_blocks, b))
    <2>1. b \in 0 .. (Len(entries) - 1) /\ blocks[b] \in {None, entries[b + 1]}
      BY <1>1, <1>7 DEF Storing, AllBlocks
    <2>2. /\ entries[b + 1] \in R!BlockEntry
          /\ R!Decodes(entries[b + 1], R!expected_block_size(Len(file), Len(entries), b))
      BY <1>4, <2>1, EntryFacts
    <2> QED
      BY <1>5, <2>1, <2>2 DEF R!Decodes, RP!Decodes, R!expected_block_size,
          RP!expected_block_size, R!BlockEntry, RP!BlockEntry
  <1>9. RP!TypeOK
    <2>1. DOMAIN blocks \subseteq 0 .. (MaxTotalBlocks - 1)
      <3>1. AllBlocks \subseteq 0 .. (MaxTotalBlocks - 1)
        BY <1>4 DEF AllBlocks
      <3> QED
        BY <1>7, <3>1
    <2>2. blocks \in [DOMAIN blocks -> RP!BlockEntry \cup {None}]
      <3>1. blocks = [b \in DOMAIN blocks |-> blocks[b]]
        BY <1>1, Zenon DEF Storing
      <3>2. \A b \in DOMAIN blocks : blocks[b] \in RP!BlockEntry \cup {None}
        BY <1>8
      <3> QED
        BY <3>1, <3>2
    <2>3. DOMAIN symbols \subseteq 0 .. (MaxTotalSymbols - 1)
      BY <1>1, <1>4 DEF Storing
    <2>4. symbols \in [DOMAIN symbols -> RP!StoredSymbol]
      <3>1. symbols = [j \in DOMAIN symbols |-> symbols[j]]
        BY <1>1 DEF Storing
      <3>2. ASSUME NEW j \in DOMAIN symbols PROVE symbols[j] \in RP!StoredSymbol
        <4>1. /\ packings[j + 1].block_start \in Nat
              /\ packings[j + 1].block_count \in 1 .. TargetBlocks /\ TargetBlocks \in Nat
          BY <1>1, <1>2, <1>6, Cut, ConstantsAssumption
        <4> QED
          BY <1>6, <4>1 DEF Part, RP!StoredSymbol
      <3> QED
        BY <3>1, <3>2
    <2>5. outcome \in RP!Errors \cup {"Ok"}
      BY <1>1 DEF Answering, RP!Errors
    <2> QED
      BY <1>5, <2>1, <2>2, <2>3, <2>4, <2>5 DEF RP!TypeOK
  <1>10. RP!PinnedByStoredSymbol
    BY <1>1 DEF Storing, RP!PinnedByStoredSymbol
  <1>11. RP!RangesPartitionBlocks
    <2>1. DOMAIN blocks = UNION {RP!BlockRange(symbols[j]) : j \in DOMAIN symbols}
      BY <1>6, <1>7
    <2>2. ASSUME NEW i \in DOMAIN symbols, NEW j \in DOMAIN symbols, i # j
          PROVE  RP!BlockRange(symbols[i]) \cap RP!BlockRange(symbols[j]) = {}
      <3>1. i + 1 # j + 1
        <4>1. i \in Int /\ j \in Int
          BY <1>1 DEF Storing
        <4> QED
          BY <2>2, <4>1
      <3> QED
        BY <1>1, <1>2, <1>6, <3>1, Cut
    <2>3. ASSUME NEW i \in DOMAIN symbols
          PROVE  RP!BlockRange(symbols[i]) \subseteq 0 .. (metadata.total_blocks - 1)
      <3>1. Held(i + 1) \subseteq AllBlocks
        BY <1>1, <1>2, <1>6, Cut
      <3> QED
        BY <1>5, <1>6, <3>1 DEF AllBlocks
    <2> QED
      BY <2>1, <2>2, <2>3 DEF RP!RangesPartitionBlocks
  <1>12. RP!StoredBlocksDecode
    BY <1>8 DEF RP!StoredBlocksDecode
  <1>13. RP!MetadataValid
    <2>1. Len(file) \in Nat \ {0} /\ BlockCount(file) = R!expected_total_blocks(Len(file))
      <3>1. 0 \in 0 .. (BlockCount(file) - 1)
        BY <1>4
      <3> QED
        BY <1>4, <3>1, ChunkFacts
    <2> QED
      BY <1>4, <1>5, <2>1 DEF RP!MetadataValid, R!expected_total_blocks, RP!expected_total_blocks
  <1> QED
    BY <1>2, <1>4, <1>5, <1>9, <1>10, <1>11, <1>12, <1>13 DEF RP!IInv

LEMMA SameReport == R!finalize_report = RP!finalize_report
  <1>1. R!scanned = RP!scanned
    BY DEF R!scanned, RP!scanned, R!ScanStep, RP!ScanStep, R!Stored, RP!Stored
  <1>2. R!MissingRanges = RP!MissingRanges
    BY <1>1 DEF R!MissingRanges, RP!MissingRanges
  <1>3. R!out = RP!out
    BY DEF R!out, RP!out
  <1>4. R!Rebuilt = RP!Rebuilt
    BY <1>3 DEF R!Rebuilt, RP!Rebuilt
  <1>5. R!Undecodable = RP!Undecodable
    BY DEF R!Undecodable, RP!Undecodable, R!Decodes, RP!Decodes, R!expected_block_size,
           RP!expected_block_size
  <1> QED
    BY <1>2, <1>4, <1>5 DEF R!finalize_report, RP!finalize_report

\* With every block stored, the bytes rebuilt are those of the file.
LEMMA RebuiltIsFile ==
    ASSUME IInv, metadata # None, report = None,
           \A b \in AllBlocks : R!Stored(b) # None
    PROVE  RP!Rebuilt = file
  <1>1. /\ RP!IInv /\ RP!MetadataValid /\ file \in Files /\ entries \in Splits(file)
        /\ metadata.total_blocks = Len(entries) /\ metadata.file_size = Len(file)
    BY Reassembling
  <1>2. /\ BlockSize \in Nat \ {0} /\ file \in Seq(Bytes)
        /\ Len(entries) = BlockCount(file) /\ Len(entries) \in Nat \ {0}
    BY <1>1, Assumed, EntryFacts, ConstantsAssumption
  <1>3. \A b \in 0 .. (metadata.total_blocks - 1) : RP!Stored(b) # None
    BY <1>1 DEF AllBlocks, R!Stored, RP!Stored
  <1>4. /\ RP!Rebuilt \in Seq(Bytes) /\ Len(RP!Rebuilt) = Len(file)
        /\ \A p \in 1 .. Len(file) :
              /\ RP!Rebuilt[p] = RP!ByteOf(p)
              /\ (p - 1) \div BlockSize \in 0 .. (Len(entries) - 1)
    BY <1>1, <1>3, Assumed, RP!RebuiltSpells
  <1>5. ASSUME NEW p \in 1 .. Len(file) PROVE RP!Rebuilt[p] = file[p]
    <2> DEFINE b == (p - 1) \div BlockSize
               q == ((p - 1) % BlockSize) + 1
               chunk == Chunk(file, b)
    <2>1. b \in 0 .. (Len(entries) - 1) /\ b \in Nat
      BY <1>4
    <2>2. q \in 1 .. BlockSize /\ b * BlockSize + q = p /\ p \in Nat
      <3> DEFINE a == p - 1
      <3>1. a \in Nat /\ p = a + 1 /\ p \in Nat
        BY <1>2
      <3>2. a \div BlockSize \in Nat /\ a % BlockSize \in 0 .. (BlockSize - 1)
            /\ a = BlockSize * (a \div BlockSize) + (a % BlockSize)
        <4> HIDE DEF a
        <4> QED
          BY <1>2, <3>1
      <3>3. BlockSize * (a \div BlockSize) = (a \div BlockSize) * BlockSize
            /\ (a \div BlockSize) * BlockSize \in Nat
        BY <1>2, <3>2
      <3> QED
        BY <1>2, <3>1, <3>2, <3>3
    <2> HIDE DEF b, q
    <2>3. /\ blocks[b] = entries[b + 1] /\ entries[b + 1].raw = chunk
      <3>1. R!Stored(b) # None
        BY <2>1 DEF AllBlocks
      <3>2. b \in DOMAIN blocks /\ blocks[b] # None
        BY <3>1 DEF R!Stored
      <3>3. blocks[b] \in {None, entries[b + 1]}
        BY <3>2 DEF IInv, Storing
      <3> QED
        BY <1>1, <2>1, <3>2, <3>3, EntryFacts
    <2>4. /\ Len(chunk) = R!expected_block_size(Len(file), Len(entries), b)
          /\ \A r \in 1 .. Len(chunk) : chunk[r] = file[b * BlockSize + r]
          /\ Len(chunk) \in 1 .. BlockSize
      BY <1>1, <1>2, <2>1, ChunkFacts
    <2>5. q <= Len(chunk)
      <3>1. CASE b + 1 < Len(entries)
        <4>1. Len(chunk) = BlockSize
          BY <2>4, <3>1 DEF R!expected_block_size
        <4> QED
          BY <1>2, <2>2, <4>1
      <3>2. CASE ~ (b + 1 < Len(entries))
        <4>1. Len(chunk) = Len(file) - (Len(entries) - 1) * BlockSize
          BY <2>4, <3>2 DEF R!expected_block_size
        <4>2. Len(entries) - 1 = b
          BY <1>2, <2>1, <3>2
        <4>3. Len(chunk) = Len(file) - b * BlockSize /\ b * BlockSize \in Nat /\ Len(file) \in Nat
          BY <1>2, <2>1, <4>1, <4>2
        <4> HIDE DEF chunk
        <4> QED
          BY <2>2, <4>3, <1>2
      <3> QED
        BY <3>1, <3>2
    <2>6. chunk[q] = file[p]
      <3>1. q \in 1 .. Len(chunk)
        BY <1>2, <2>2, <2>4, <2>5
      <3> QED
        BY <2>2, <2>4, <3>1
    <2>7. RP!Rebuilt[p] = blocks[b].raw[q]
      BY <1>4 DEF RP!ByteOf, b, q
    <2> QED
      BY <2>3, <2>6, <2>7
  <1> QED
    BY <1>2, <1>4, <1>5

LEMMA FinalizeInv ==
    ASSUME IInv, Finalize
    PROVE  IInv'
  <1> DEFINE Answered == /\ report' # None
                         /\ \/ verdict' = "Verified" /\ report'.bytes = file /\ seen = AllBlocks
                            \/ verdict' = "MissingBlocks" /\ seen # AllBlocks
  <1>1. /\ phase = "encoded" /\ verdict = "open" /\ report = None
        /\ report' = R!finalize_report /\ verdict' = report'.status
        /\ metadata' = metadata /\ blocks' = blocks /\ symbols' = symbols /\ outcome' = outcome
        /\ UNCHANGED <<file, entries, encoderVars, origins, seen>>
    BY DEF Finalize, InSession, R!FinalizeReport, R!store
  <1>2. /\ Encoding' /\ phase' = phase /\ packings' = packings /\ entries' = entries /\ file' = file
        /\ AllBlocks' = AllBlocks
        /\ \A j : Part(j)' = Part(j) /\ Held(j)' = Held(j)
        /\ \A other : Description(other)' = Description(other)
    BY <1>1, EncodingKept DEF encoderVars
  <1>3. Storing /\ Sources /\ Knowing /\ Answering /\ Encoding
    BY DEF IInv
  <1>4. seen \subseteq AllBlocks /\ \A b \in AllBlocks : R!Stored(b) # None <=> b \in seen
    BY <1>1, <1>3 DEF Knowing
  <1>5. ASSUME metadata = None PROVE Answered
    <2>1. report' = [status |-> "MissingBlocks", ranges |-> << <<0, 0>> >>]
      BY <1>1, <1>5 DEF R!finalize_report
    <2>2. << <<0, 0>> >> \in Seq(Nat \X Nat)
      <3>1. <<0, 0>> \in Nat \X Nat
        OBVIOUS
      <3> QED
        BY <3>1
    <2>3. report' \in R!Reports /\ report'.status = "MissingBlocks"
      BY <2>1, <2>2 DEF R!Reports
    <2>4. seen # AllBlocks
      <3>1. DOMAIN blocks = {}
        BY <1>3, <1>5 DEF Storing
      <3>2. 0 \in AllBlocks
        <4>1. Len(entries) \in Nat \ {0}
          BY <1>1, <1>3, Cut
        <4> QED
          BY <4>1 DEF AllBlocks
      <3> QED
        BY <1>4, <3>1, <3>2 DEF R!Stored
    <2> QED
      BY <1>1, <2>3, <2>4, Assumed
  <1>6. ASSUME metadata # None PROVE Answered
    <2> DEFINE gaps == {b \in 0 .. (metadata.total_blocks - 1) : RP!Stored(b) = None}
    <2>1. /\ RP!IInv /\ RP!MetadataValid
          /\ metadata.total_blocks = Len(entries) /\ metadata.global_hash = file
          /\ file \in Files /\ file \in Seq(Bytes)
      BY <1>1, <1>6, Reassembling, ConstantsAssumption
    <2>2. /\ gaps # {} => RP!finalize_report =
                [status |-> "MissingBlocks", ranges |-> RP!MissingRanges]
          /\ gaps = {} => RP!finalize_report =
                [status |-> IF RP!Rebuilt = metadata.global_hash THEN "Verified" ELSE "Mismatch",
                 bytes |-> RP!Rebuilt]
      BY <1>6, <2>1, Assumed, RP!ReportCases
    <2>3. gaps = {b \in AllBlocks : R!Stored(b) = None}
      BY <2>1 DEF AllBlocks, R!Stored, RP!Stored
    <2> HIDE DEF gaps
    <2>4. CASE gaps # {}
      <3>1. report' = [status |-> "MissingBlocks", ranges |-> RP!MissingRanges]
        BY <1>1, <2>2, <2>4, SameReport
      <3>2. seen # AllBlocks
        BY <1>4, <2>3, <2>4
      <3>3. RP!MissingRanges \in Seq(Nat \X Nat)
        BY <1>6, <2>1, Assumed, RP!RangesExact
      <3>4. report' \in R!Reports
        BY <3>1, <3>3 DEF R!Reports
      <3> QED
        BY <1>1, <3>1, <3>2, <3>4, Assumed
    <2>5. CASE gaps = {}
      <3>1. \A b \in AllBlocks : R!Stored(b) # None
        BY <2>3, <2>5
      <3>2. seen = AllBlocks
        BY <1>4, <3>1
      <3>3. RP!Rebuilt = file
        BY <1>1, <1>6, <3>1, RebuiltIsFile
      <3>4. report' = [status |-> "Verified", bytes |-> file]
        BY <1>1, <2>1, <2>2, <2>5, <3>3, SameReport
      <3>5. report' \in R!Reports
        BY <2>1, <3>4 DEF R!Reports
      <3> QED
        BY <1>1, <3>2, <3>4, <3>5, Assumed
    <2> QED
      BY <2>4, <2>5
  <1>7. Answered
    BY <1>5, <1>6
  <1> HIDE DEF Answered
  <1>8. Waiting' /\ Storing'
    BY <1>1, <1>2, <1>3 DEF Waiting, Storing
  <1>9. verdict' # "Rejected"
    BY <1>7 DEF Answered
  <1>10. Sources' /\ Knowing'
    BY <1>1, <1>2, <1>3, <1>9 DEF Sources, Knowing, R!Stored
  <1>11. Answering'
    BY <1>1, <1>2, <1>3, <1>7 DEF Answering, Answered
  <1> QED
    BY <1>2, <1>8, <1>10, <1>11 DEF IInv

-----------------------------------------------------------------------------
(* The theorems.                                                           *)

LEMMA StepInv == IInv /\ [Next]_vars => IInv'
  <1> SUFFICES ASSUME IInv, [Next]_vars PROVE IInv'
    OBVIOUS
  <1>1. CASE Encode
    BY <1>1, EncodeInv
  <1>2. CASE TakeAny
    <2>1. PICK id \in FileIds, i \in DOMAIN packings :
             \E n \in 0 .. packings[i].block_count : TakeCapture(id, i, n)
      BY <1>2 DEF TakeAny
    <2>2. PICK n \in 0 .. packings[i].block_count : TakeCapture(id, i, n)
      BY <2>1
    <2>3. i \in 1 .. Len(packings)
      BY DEF IInv, Encoding, EP!IInv, EP!TypeOK
    <2> QED
      BY <2>2, <2>3, TakeCaptureInv
  <1>3. CASE UnreadableCapture
    BY <1>3, UnreadableInv
  <1>4. CASE Finalize
    BY <1>4, FinalizeInv
  <1>5. CASE UNCHANGED vars
    <2>1. UNCHANGED <<file, entries, encoderVars>> /\ UNCHANGED <<reassemblerVars, sessionVars>>
      BY <1>5 DEF vars
    <2>2. /\ Encoding' /\ phase' = phase /\ packings' = packings /\ entries' = entries
          /\ file' = file /\ AllBlocks' = AllBlocks
          /\ \A j : Part(j)' = Part(j) /\ Held(j)' = Held(j)
          /\ \A other : Description(other)' = Description(other)
      BY <2>1, EncodingKept DEF encoderVars
    <2>3. Waiting'
      BY <2>1, <2>2 DEF IInv, Waiting, R!Init, reassemblerVars, sessionVars
    <2>4. Storing'
      BY <2>1, <2>2 DEF IInv, Storing, reassemblerVars
    <2>5. Sources' /\ Knowing' /\ Answering'
      BY <2>1, <2>2 DEF IInv, Sources, Knowing, Answering, R!Stored, reassemblerVars, sessionVars
    <2> QED
      BY <2>2, <2>3, <2>4, <2>5 DEF IInv
  <1> QED
    BY <1>1, <1>2, <1>3, <1>4, <1>5 DEF Next

\* Every reachable state of the transfer satisfies the invariant.
THEOREM Invariance == Spec => []IInv
  BY InitInv, StepInv, PTL DEF Spec

\* A file that decode_file returns as verified is the file that was encoded,
\* byte for byte, whatever K the search chose, whatever form each block was
\* stored in, and however the captures were damaged, repeated and shuffled;
\* and captures of honest symbols never rebuild a file of another hash.
THEOREM RoundTrips == Spec => []RoundTrip
  <1>1. IInv => RoundTrip
    BY DEF IInv, Answering, RoundTrip
  <1> QED
    BY <1>1, Invariance, PTL

\* Whatever the order and the number of captures of an encoding, the store of
\* the reassembler holds exactly the blocks some capture brought undamaged.
THEOREM AnyOrderHolds == Spec => []AnyOrder
  <1>1. IInv => AnyOrder
    BY DEF IInv, Knowing, AnyOrder, InSession
  <1> QED
    BY <1>1, Invariance, PTL

\* add_symbol refuses an honest capture only when it is of another encoding,
\* and finalize_report returns the file exactly when the captures brought all
\* of its blocks.
THEOREM CapturesDecideAll == Spec => []CapturesDecide
  <1>1. IInv => CapturesDecide
    <2> SUFFICES ASSUME IInv PROVE CapturesDecide
      OBVIOUS
    <2>1. Sources /\ Answering
      BY DEF IInv
    <2>2. verdict = "Rejected" =>
             outcome = "SymbolFileIdMismatch" /\ \E id, other \in origins : id # other
      <3>1. verdict = "Rejected" => origins # {} /\ metadata.file_id \in origins
        BY <2>1 DEF Sources
      <3> QED
        BY <2>1, <3>1 DEF Sources
    <2> QED
      BY <2>1, <2>2 DEF Answering, CapturesDecide
  <1> QED
    BY <1>1, Invariance, PTL

-----------------------------------------------------------------------------
(* Least elements.                                                         *)

LEMMA LeastIsLeast ==
    ASSUME NEW T \in SUBSET Nat, T # {}
    PROVE  Least(T) \in T /\ \A t \in T : Least(T) <= t
BY LeastExists DEF Least

-----------------------------------------------------------------------------
(* The square root that layout.rs rounds up.                               *)

LEMMA CeilSqrtIsLeast ==
    ASSUME NEW len \in Nat, NEW per \in Nat \ {0}
    PROVE  /\ CeilSqrt(len, per) \in 0 .. len
           /\ CeilSqrt(len, per) * CeilSqrt(len, per) * per >= len
           /\ \A s \in Nat : s * s * per >= len => CeilSqrt(len, per) <= s
<1> DEFINE T == {s \in 0 .. len : s * s * per >= len}
<1>1. len \in T
  <2>1. len * len >= len
    <3>1. CASE len = 0
      BY <3>1
    <3>2. CASE len >= 1
      BY <3>2
    <3> QED
      BY <3>1, <3>2
  <2>2. len * len \in Nat
    OBVIOUS
  <2>3. \A a, b \in Nat : b >= 1 => a * b >= a
    OBVIOUS
  <2>4. len * len * per >= len * len
    BY <2>2, <2>3
  <2>5. len * len * per \in Nat
    BY <2>2
  <2> QED
    BY <2>1, <2>2, <2>4, <2>5
<1>2. CeilSqrt(len, per) = Least(T)
  BY DEF CeilSqrt
<1>3. Least(T) \in T /\ \A t \in T : Least(T) <= t
  <2>1. T \in SUBSET Nat /\ T # {}
    BY <1>1
  <2> HIDE DEF T
  <2> QED
    BY <2>1, LeastIsLeast
<1>4. ASSUME NEW s \in Nat, s * s * per >= len PROVE Least(T) <= s
  <2>1. CASE s \in 0 .. len
    BY <2>1, <1>3, <1>4
  <2>2. CASE s > len
    BY <2>2, <1>3
  <2> QED
    BY <2>1, <2>2
<1> QED
  BY <1>2, <1>3, <1>4

-----------------------------------------------------------------------------
(* The recursion of gcd_u32 defines a function.                            *)

Pairs == (0 .. U32_MAX) \X (0 .. U32_MAX)

\* g computes gcd_u32 on the pairs whose second number is below n.
ComputesBelow(g, n) ==
    g = [p \in Pairs |->
            IF p[2] < n THEN IF p[2] = 0 THEN p[1] ELSE g[<<p[2], p[1] % p[2]>>] ELSE 0]

LEMMA WidthOfU32 == U32_MAX \in Nat
BY OpticalAssumption

LEMMA PairsArePairs ==
    \A p \in Pairs : /\ p[1] \in 0 .. U32_MAX /\ p[2] \in 0 .. U32_MAX
                     /\ p = <<p[1], p[2]>>
                     /\ p[2] # 0 => /\ <<p[2], p[1] % p[2]>> \in Pairs
                                    /\ p[1] % p[2] \in 0 .. p[2] - 1
<1> SUFFICES ASSUME NEW p \in Pairs
             PROVE  /\ p[1] \in 0 .. U32_MAX /\ p[2] \in 0 .. U32_MAX
                    /\ p = <<p[1], p[2]>>
                    /\ p[2] # 0 => /\ <<p[2], p[1] % p[2]>> \in Pairs
                                   /\ p[1] % p[2] \in 0 .. p[2] - 1
  OBVIOUS
<1>1. U32_MAX \in Nat
  BY WidthOfU32
<1>2. p[1] \in 0 .. U32_MAX /\ p[2] \in 0 .. U32_MAX /\ p = <<p[1], p[2]>>
  BY DEF Pairs
<1>3. ASSUME p[2] # 0 PROVE p[1] % p[2] \in 0 .. p[2] - 1
  BY <1>1, <1>2, <1>3
<1>4. ASSUME p[2] # 0 PROVE <<p[2], p[1] % p[2]>> \in Pairs
  <2>1. p[1] % p[2] \in 0 .. U32_MAX
    BY <1>1, <1>2, <1>3, <1>4
  <2> QED
    BY <1>2, <2>1 DEF Pairs
<1> QED
  BY <1>2, <1>3, <1>4

LEMMA PairsAreNaturals ==
    ASSUME NEW p \in Pairs PROVE p[1] \in Nat /\ p[2] \in Nat
<1>1. p[1] \in 0 .. U32_MAX /\ p[2] \in 0 .. U32_MAX
  BY PairsArePairs
<1> QED
  BY <1>1, WidthOfU32

LEMMA ComputesOneMore ==
    ASSUME NEW n \in Nat, NEW g, ComputesBelow(g, n)
    PROVE  \E h : ComputesBelow(h, n + 1)
<1> DEFINE h == [p \in Pairs |->
                   IF p[2] < n + 1 THEN IF p[2] = 0 THEN p[1] ELSE g[<<p[2], p[1] % p[2]>>]
                   ELSE 0]
<1>1. ASSUME NEW p \in Pairs, p[2] # 0, p[2] < n + 1
      PROVE  h[<<p[2], p[1] % p[2]>>] = g[<<p[2], p[1] % p[2]>>]
  <2> DEFINE q == <<p[2], p[1] % p[2]>>
  <2>1. q \in Pairs /\ q[2] \in 0 .. p[2] - 1 /\ p[2] \in Nat
    BY <1>1, PairsArePairs, WidthOfU32
  <2>2. q[2] < n /\ q[2] < n + 1
    BY <2>1, <1>1
  <2>3. g[q] = IF q[2] = 0 THEN q[1] ELSE g[<<q[2], q[1] % q[2]>>]
    <3> HIDE DEF q
    <3> QED
      BY <2>1, <2>2 DEF ComputesBelow
  <2>4. h[q] = IF q[2] = 0 THEN q[1] ELSE g[<<q[2], q[1] % q[2]>>]
    <3> HIDE DEF q
    <3> QED
      BY <2>1, <2>2
  <2> QED
    BY <2>3, <2>4
<1>2. h = [p \in Pairs |->
             IF p[2] < n + 1 THEN IF p[2] = 0 THEN p[1] ELSE h[<<p[2], p[1] % p[2]>>]
             ELSE 0]
  <2> HIDE DEF h
  <2>1. \A p \in Pairs :
          (IF p[2] < n + 1 THEN IF p[2] = 0 THEN p[1] ELSE g[<<p[2], p[1] % p[2]>>] ELSE 0)
          = (IF p[2] < n + 1 THEN IF p[2] = 0 THEN p[1] ELSE h[<<p[2], p[1] % p[2]>>] ELSE 0)
    BY <1>1
  <2> QED
    BY <2>1, Zenon DEF h
<1> QED
  BY <1>2 DEF ComputesBelow

LEMMA ComputesAny == \A n \in Nat : \E g : ComputesBelow(g, n)
<1> DEFINE T == {n \in Nat : ~ \E g : ComputesBelow(g, n)}
<1> SUFFICES ASSUME T # {} PROVE FALSE
  OBVIOUS
<1>1. PICK n \in T : \A m \in T : n <= m
  <2>1. T \in SUBSET Nat
    OBVIOUS
  <2> HIDE DEF T
  <2> QED
    BY <2>1, LeastExists
<1>2. CASE n = 0
  <2> DEFINE g == [p \in Pairs |-> 0]
  <2>1. ASSUME NEW p \in Pairs PROVE ~ (p[2] < 0)
    <3>1. p[2] \in 0 .. U32_MAX
      BY PairsArePairs
    <3> QED
      BY <3>1, WidthOfU32
  <2>2. ComputesBelow(g, 0)
    BY <2>1, Zenon DEF ComputesBelow
  <2> QED
    BY <1>2, <2>2
<1>3. CASE n # 0
  <2>1. n - 1 \in Nat /\ ~ (n <= n - 1)
    BY <1>3
  <2>2. PICK g : ComputesBelow(g, n - 1)
    BY <1>1, <2>1
  <2>3. (n - 1) + 1 = n
    BY <2>1
  <2>4. \E h : ComputesBelow(h, (n - 1) + 1)
    BY <2>1, <2>2, ComputesOneMore
  <2>5. \E h : ComputesBelow(h, n)
    BY <2>3, <2>4
  <2> QED
    BY <2>5
<1> QED
  BY <1>2, <1>3

LEMMA GcdStep ==
    \A p \in Pairs :
        gcd_u32[p] = IF p[2] = 0 THEN p[1] ELSE gcd_u32[<<p[2], p[1] % p[2]>>]
<1>1. U32_MAX + 1 \in Nat
  BY WidthOfU32
<1>2. PICK g : ComputesBelow(g, U32_MAX + 1)
  BY <1>1, ComputesAny
<1>3. ASSUME NEW p \in Pairs PROVE p[2] < U32_MAX + 1
  <2>1. p[2] \in 0 .. U32_MAX
    BY PairsArePairs
  <2> QED
    BY <2>1, WidthOfU32
<1>4. g = [p \in Pairs |-> IF p[2] = 0 THEN p[1] ELSE g[<<p[2], p[1] % p[2]>>]]
  BY <1>2, <1>3, Zenon DEF ComputesBelow
<1>5. \E f : f = [p \in Pairs |-> IF p[2] = 0 THEN p[1] ELSE f[<<p[2], p[1] % p[2]>>]]
  BY <1>4
<1>6. gcd_u32 = [p \in Pairs |->
                    IF p[2] = 0 THEN p[1] ELSE gcd_u32[<<p[2], p[1] % p[2]>>]]
  BY <1>5, Zenon DEF gcd_u32, Pairs
<1> QED
  BY <1>6, Zenon

-----------------------------------------------------------------------------
(* gcd_u32 computes the greatest common divisor.                           *)

Divides(g, a) == \E m \in Nat : a = g * m
Combines(g, a, b) == \E x, y \in Int : g = x * a + y * b
GcdOf(g, a, b) == g \in Nat \ {0} /\ Divides(g, a) /\ Divides(g, b) /\ Combines(g, a, b)

\* One division of Euclid's algorithm.
LEMMA EuclidStep ==
    ASSUME NEW a \in Nat, NEW b \in Nat \ {0}, NEW g, GcdOf(g, b, a % b)
    PROVE  GcdOf(g, a, b)
<1> DEFINE d == a \div b
           r == a % b
<1>1. d \in Nat /\ r \in Nat /\ a = b * d + r
  OBVIOUS
<1>2. g \in Nat \ {0}
  BY DEF GcdOf
<1> HIDE DEF d, r
<1>3. PICK m \in Nat : b = g * m
  BY DEF GcdOf, Divides
<1>4. PICK n \in Nat : r = g * n
  BY DEF GcdOf, Divides, r
<1>5. PICK x, y \in Int : g = x * b + y * r
  BY DEF GcdOf, Combines, r
<1>6. Divides(g, a)
  <2>1. m * d + n \in Nat
    BY <1>1
  <2>2. b * d = (g * m) * d
    BY <1>3
  <2>3. (g * m) * d + g * n = g * (m * d + n)
    BY <1>1, <1>2
  <2>4. a = g * (m * d + n)
    BY <1>1, <1>4, <2>2, <2>3
  <2> QED
    BY <2>1, <2>4 DEF Divides
<1>7. Combines(g, a, b)
  <2>1. y \in Int /\ x - y * d \in Int
    BY <1>1
  <2>2. y * (b * d + r) + (x - y * d) * b = x * b + y * r
    BY <1>1
  <2>3. g = y * a + (x - y * d) * b
    BY <1>1, <1>5, <2>2
  <2> QED
    BY <2>1, <2>3 DEF Combines
<1> QED
  BY <1>2, <1>6, <1>7 DEF GcdOf

LEMMA GcdIsGcd ==
    \A p \in Pairs : p[1] > 0 \/ p[2] > 0 => GcdOf(gcd_u32[p], p[1], p[2])
<1> DEFINE Fails(p) == (p[1] > 0 \/ p[2] > 0) /\ ~ GcdOf(gcd_u32[p], p[1], p[2])
           T == {n \in Nat : \E p \in Pairs : p[2] = n /\ Fails(p)}
<1> SUFFICES ASSUME NEW p0 \in Pairs, Fails(p0) PROVE FALSE
  OBVIOUS
<1>1. p0[2] \in T
  <2>1. p0[2] \in Nat
    BY PairsAreNaturals
  <2> QED
    BY <2>1
<1>2. PICK n \in T : \A m \in T : n <= m
  <2>1. T \in SUBSET Nat /\ T # {}
    BY <1>1
  <2> HIDE DEF T
  <2> QED
    BY <2>1, LeastExists
<1>3. PICK p \in Pairs : p[2] = n /\ Fails(p)
  BY <1>2
<1>4. p[1] \in Nat /\ p[2] \in Nat
  BY PairsAreNaturals
<1>5. CASE p[2] = 0
  <2>1. gcd_u32[p] = p[1]
    BY <1>5, GcdStep
  <2>2. p[1] \in Nat \ {0}
    BY <1>3, <1>4, <1>5
  <2>3. p[1] = p[1] * 1 /\ p[2] = p[1] * 0 /\ p[1] = 1 * p[1] + 0 * p[2]
    BY <1>4, <1>5
  <2>4. Divides(p[1], p[1]) /\ Divides(p[1], p[2]) /\ Combines(p[1], p[1], p[2])
    BY <2>3 DEF Divides, Combines
  <2> QED
    BY <1>3, <2>1, <2>2, <2>4 DEF GcdOf
<1>6. CASE p[2] # 0
  <2> DEFINE q == <<p[2], p[1] % p[2]>>
  <2>1. q \in Pairs /\ q[2] \in 0 .. p[2] - 1
    BY <1>6, PairsArePairs
  <2>2. q[2] \in Nat /\ ~ (n <= q[2])
    BY <1>3, <1>4, <2>1
  <2>3. ~ Fails(q)
    <3> HIDE DEF q
    <3> QED
      BY <1>2, <2>1, <2>2
  <2>4. q[1] > 0
    BY <1>4, <1>6
  <2>5. GcdOf(gcd_u32[q], p[2], p[1] % p[2])
    BY <2>3, <2>4
  <2>6. gcd_u32[p] = gcd_u32[q]
    BY <1>6, GcdStep
  <2>7. GcdOf(gcd_u32[q], p[1], p[2])
    BY <1>4, <1>6, <2>5, EuclidStep
  <2> QED
    BY <1>3, <2>6, <2>7
<1> QED
  BY <1>5, <1>6

-----------------------------------------------------------------------------
(* The reduced ratio of a shape.                                           *)

IsRatio(rw, rh, w, h) ==
    /\ rw \in Nat \ {0} /\ rh \in Nat \ {0}
    /\ \E g \in Nat \ {0} : w = g * rw /\ h = g * rh
    /\ Combines(1, rw, rh)

LEMMA ReducedRatio ==
    ASSUME NEW w \in 1 .. U32_MAX, NEW h \in 1 .. U32_MAX
    PROVE  IsRatio(w \div gcd_u32[<<w, h>>], h \div gcd_u32[<<w, h>>], w, h)
<1> DEFINE g == gcd_u32[<<w, h>>]
<1>1. w \in Nat \ {0} /\ h \in Nat \ {0}
  BY WidthOfU32
<1>2. GcdOf(g, w, h)
  <2>1. <<w, h>> \in Pairs
    BY WidthOfU32 DEF Pairs
  <2>2. <<w, h>>[1] = w /\ <<w, h>>[2] = h /\ w > 0
    BY <1>1
  <2> QED
    BY <2>1, <2>2, GcdIsGcd
<1> HIDE DEF g
<1>3. g \in Nat \ {0}
  BY <1>2 DEF GcdOf
<1>4. PICK m \in Nat : w = g * m
  BY <1>2 DEF GcdOf, Divides
<1>5. PICK n \in Nat : h = g * n
  BY <1>2 DEF GcdOf, Divides
<1>6. PICK x, y \in Int : g = x * w + y * h
  BY <1>2 DEF GcdOf, Combines
<1>7. m # 0 /\ n # 0
  BY <1>1, <1>3, <1>4, <1>5
<1>8. w \div g = m /\ h \div g = n
  BY <1>3, <1>4, <1>5
<1>9. 1 = x * m + y * n
  <2>1. x * (g * m) + y * (g * n) = g * (x * m + y * n)
    BY <1>3
  <2>2. g = g * (x * m + y * n)
    BY <1>4, <1>5, <1>6, <2>1
  <2>3. x * m + y * n \in Int
    OBVIOUS
  <2>4. \A a \in Int : g = g * a => a = 1
    BY <1>3
  <2> QED
    BY <2>2, <2>3, <2>4
<1>10. Combines(1, m, n)
  BY <1>9 DEF Combines
<1> QED
  BY <1>3, <1>4, <1>5, <1>7, <1>8, <1>10 DEF IsRatio, g

\* An image has the ratio of a shape only when a whole number scales it.
LEMMA RatioIsScaled ==
    ASSUME NEW w \in Nat \ {0}, NEW h \in Nat \ {0}, NEW rw, NEW rh,
           IsRatio(rw, rh, w, h),
           NEW a \in Nat \ {0}, NEW b \in Nat \ {0}, a * h = b * w
    PROVE  \E t \in Nat \ {0} : a = rw * t /\ b = rh * t
<1>1. rw \in Nat \ {0} /\ rh \in Nat \ {0}
  BY DEF IsRatio
<1>2. PICK g \in Nat \ {0} : w = g * rw /\ h = g * rh
  BY DEF IsRatio
<1>3. PICK x, y \in Int : 1 = x * rw + y * rh
  BY DEF IsRatio, Combines
<1>4. a * rh = b * rw
  <2>1. a * (g * rh) = g * (a * rh) /\ b * (g * rw) = g * (b * rw)
    BY <1>1
  <2>2. g * (a * rh) = g * (b * rw)
    BY <1>2, <2>1
  <2>3. a * rh \in Nat /\ b * rw \in Nat
    BY <1>1
  <2>4. \A u, v \in Nat : g * u = g * v => u = v
    OBVIOUS
  <2> QED
    BY <2>2, <2>3, <2>4
<1> DEFINE t == x * a + y * b
<1>5. t \in Int
  OBVIOUS
<1>6. rw * t = a
  <2>1. rw * t = (x * rw) * a + y * (b * rw)
    BY <1>1
  <2>2. (x * rw) * a + y * (a * rh) = (x * rw + y * rh) * a
    BY <1>1
  <2>3. (x * rw + y * rh) * a = 1 * a
    BY <1>3
  <2> QED
    BY <1>4, <2>1, <2>2, <2>3
<1>7. rh * t = b
  <2>1. rh * t = x * (a * rh) + (y * rh) * b
    BY <1>1
  <2>2. x * (b * rw) + (y * rh) * b = (x * rw + y * rh) * b
    BY <1>1
  <2>3. (x * rw + y * rh) * b = 1 * b
    BY <1>3
  <2> QED
    BY <1>4, <2>1, <2>2, <2>3
<1>8. t > 0
  <2>1. \A c \in Int : rw * c > 0 => c > 0
    BY <1>1
  <2> QED
    BY <1>5, <1>6, <2>1
<1>9. t \in Nat \ {0}
  BY <1>5, <1>8
<1> QED
  BY <1>6, <1>7, <1>9

-----------------------------------------------------------------------------
(* The dimensions chosen (layout.rs).                                      *)

\* What SmallestOfItsShape says of what becomes of the shape for one stream.
Smallest(shape, len, dims) ==
    /\ dims[1] = "Dimensions" =>
           /\ dims[2] \in Nat /\ dims[3] \in Nat
           /\ OfShape(shape, dims[2], dims[3])
           /\ Holding(dims[2], dims[3], len)
           /\ PixelBytes(dims[2], dims[3]) <= ISIZE_MAX
           /\ \A w \in 1 .. dims[2], h \in 1 .. dims[3] :
                  OfShape(shape, w, h) /\ Holding(w, h, len) =>
                      <<w, h>> = <<dims[2], dims[3]>>
    /\ dims[1] \in Unrendered =>
           \A w, h \in 1 .. U32_MAX :
               OfShape(shape, w, h) /\ Holding(w, h, len) => PixelBytes(w, h) > ISIZE_MAX

NoneHolds(shape, len) ==
    \A w, h \in 1 .. U32_MAX : OfShape(shape, w, h) => ~Holding(w, h, len)

\* The sides come to before their product is taken: no image of the shape that
\* holds the stream is shorter or narrower, and they hold it, or none does.
Sides(shape, len, w, h) ==
    /\ w \in Nat /\ h \in Nat
    /\ OfShape(shape, w, h)
    /\ Holding(w, h, len) \/ NoneHolds(shape, len)
    /\ \A a, b \in Nat \ {0} :
           OfShape(shape, a, b) /\ Holding(a, b, len) => w <= a /\ h <= b

Chosen(shape, len, dims) ==
    \/ dims = <<"InvalidDimensions">> /\ NoneHolds(shape, len)
    \/ \E w, h \in Nat : dims = <<"Dimensions", w, h>> /\ Sides(shape, len, w, h)

ShapeType == [kind : {"Square", "WidthHeight", "Aspect"}, w : 0 .. U32_MAX, h : 0 .. U32_MAX]

\* An image scaled from a ratio holds the stream from the rounded root on, and
\* for no smaller scale.
LEMMA ScaleHolds ==
    ASSUME NEW rw \in Nat \ {0}, NEW rh \in Nat \ {0}, NEW len \in Nat \ {0}
    PROVE  LET scale == AtLeastOne(CeilSqrt(len, BYTES_PER_PIXEL * rw * rh))
           IN  /\ scale \in Nat \ {0}
               /\ Holding(rw * scale, rh * scale, len)
               /\ \A t \in Nat : Holding(rw * t, rh * t, len) => scale <= t
<1> DEFINE per == BYTES_PER_PIXEL * rw * rh
           root == CeilSqrt(len, per)
<1>1. per \in Nat \ {0}
  <2>1. \A a, b \in Nat \ {0} : a * b \in Nat \ {0}
    OBVIOUS
  <2>2. 3 * rw \in Nat \ {0}
    OBVIOUS
  <2>3. (3 * rw) * rh \in Nat \ {0}
    BY <2>1, <2>2
  <2> QED
    BY <2>3 DEF BYTES_PER_PIXEL
<1>2. /\ root \in 0 .. len
      /\ root * root * per >= len
      /\ \A s \in Nat : s * s * per >= len => root <= s
  <2> HIDE DEF per
  <2> QED
    BY <1>1, CeilSqrtIsLeast
<1>3. root \in Nat \ {0}
  <2>1. root = 0 => root * root * per = 0
    BY <1>1
  <2> QED
    BY <1>2, <2>1
<1>4. \A t \in Nat : PixelBytes(rw * t, rh * t) = t * t * per
  BY DEF PixelBytes, BYTES_PER_PIXEL
<1>5. AtLeastOne(root) = root
  BY <1>3 DEF AtLeastOne
<1> HIDE DEF root, per
<1>6. Holding(rw * root, rh * root, len)
  BY <1>2, <1>3, <1>4 DEF Holding
<1>7. \A t \in Nat : Holding(rw * t, rh * t, len) => root <= t
  BY <1>2, <1>4 DEF Holding
<1> QED
  BY <1>3, <1>5, <1>6, <1>7 DEF root, per

\* The rounded number of pixels tells whether a square holds the bytes.
LEMMA PixelsHold ==
    ASSUME NEW len \in Nat \ {0}, NEW s \in Nat
    PROVE  LET pixels == (len + BYTES_PER_PIXEL - 1) \div BYTES_PER_PIXEL
           IN  pixels \in Nat \ {0} /\ (Holding(s, s, len) <=> s * s * 1 >= pixels)
<1> DEFINE pixels == (len + 2) \div 3
<1>1. pixels \in Nat \ {0} /\ 3 * pixels >= len /\ 3 * (pixels - 1) < len
  OBVIOUS
<1>2. (len + BYTES_PER_PIXEL - 1) \div BYTES_PER_PIXEL = pixels
  BY DEF BYTES_PER_PIXEL
<1>3. s * s \in Nat
  OBVIOUS
<1> HIDE DEF pixels
<1>4. Holding(s, s, len) <=> s * s * 3 >= len
  BY DEF Holding, PixelBytes, BYTES_PER_PIXEL
<1>5. \A q \in Nat : q * 3 >= len <=> q >= pixels
  BY <1>1
<1> QED
  BY <1>1, <1>2, <1>3, <1>4, <1>5

LEMMA PixelBytesType == \A w, h \in Nat : PixelBytes(w, h) \in Nat
<1>1. \A a, b \in Nat : a * b \in Nat
  OBVIOUS
<1> QED
  BY <1>1 DEF PixelBytes, BYTES_PER_PIXEL

LEMMA PixelBytesGrow ==
    ASSUME NEW w \in Nat, NEW h \in Nat, NEW a \in Nat, NEW b \in Nat, w <= a, h <= b
    PROVE  PixelBytes(w, h) <= PixelBytes(a, b)
<1>1. \A x, y, z \in Nat : y <= z => x * y <= x * z /\ y * x <= z * x
  OBVIOUS
<1>2. w * h <= w * b /\ w * b <= a * b
  BY <1>1
<1>3. w * h \in Nat /\ w * b \in Nat /\ a * b \in Nat
  OBVIOUS
<1> QED
  BY <1>2, <1>3 DEF PixelBytes, BYTES_PER_PIXEL

\* What the u64 keeps of the bytes: all of them, unless they overflow it.
LEMMA CapacityOfBytes ==
    ASSUME NEW w \in Nat, NEW h \in Nat
    PROVE  /\ capacity_bytes(w, h) \in Nat /\ capacity_bytes(w, h) <= PixelBytes(w, h)
           /\ ~Overflows(w, h) => capacity_bytes(w, h) = PixelBytes(w, h)
<1>1. PixelBytes(w, h) \in Nat /\ U64_MAX \in Nat
  BY PixelBytesType, OpticalAssumption
<1>2. \A x, m \in Nat : /\ x % (m + 1) \in Nat /\ x % (m + 1) <= x
                        /\ x <= m => x % (m + 1) = x
  <2> SUFFICES ASSUME NEW x \in Nat, NEW m \in Nat
               PROVE  /\ x % (m + 1) \in Nat /\ x % (m + 1) <= x
                      /\ x <= m => x % (m + 1) = x
    OBVIOUS
  <2> DEFINE d == m + 1
  <2>1. d \in Nat \ {0} /\ (x <= m => x < d)
    OBVIOUS
  <2> HIDE DEF d
  <2>2. x % d \in Nat /\ (x % d) <= x /\ (x < d => x % d = x)
    <3>1. x \div d \in Nat /\ x = d * (x \div d) + (x % d) /\ x % d \in 0 .. d - 1
      BY <2>1
    <3>2. d * (x \div d) \in Nat
      BY <2>1, <3>1
    <3>3. x < d => x \div d = 0
      BY <2>1
    <3>4. x \div d = 0 => d * (x \div d) = 0
      BY <2>1
    <3> QED
      BY <2>1, <3>1, <3>2, <3>3, <3>4
  <2> QED
    BY <2>1, <2>2 DEF d
<1> QED
  BY <1>1, <1>2 DEF capacity_bytes, Overflows

\* What the check of the sides, the allocation and from_flat make of them.
LEMMA SidesAreSmallest ==
    ASSUME NEW shape, NEW len \in Nat, NEW w, NEW h, NEW checked \in BOOLEAN,
           Sides(shape, len, w, h)
    PROVE  Smallest(shape, len, Framed(Fits(w, h, len, checked)))
<1> DEFINE dims == Framed(Fits(w, h, len, checked))
<1>1. w \in Nat /\ h \in Nat /\ OfShape(shape, w, h)
  BY DEF Sides
<1>2. /\ capacity_bytes(w, h) \in Nat /\ capacity_bytes(w, h) <= PixelBytes(w, h)
      /\ ~Overflows(w, h) => capacity_bytes(w, h) = PixelBytes(w, h)
      /\ PixelBytes(w, h) \in Nat
  BY <1>1, CapacityOfBytes, PixelBytesType
<1>3. U64_MAX \in Nat /\ ISIZE_MAX \in Nat /\ ISIZE_MAX <= U64_MAX
  BY OpticalAssumption
<1>4. ASSUME PixelBytes(w, h) > ISIZE_MAX, NEW a \in 1 .. U32_MAX, NEW b \in 1 .. U32_MAX,
             OfShape(shape, a, b), Holding(a, b, len)
      PROVE  PixelBytes(a, b) > ISIZE_MAX
  <2>1. a \in Nat \ {0} /\ b \in Nat \ {0}
    BY WidthOfU32
  <2>2. w <= a /\ h <= b
    BY <1>4, <2>1 DEF Sides
  <2>3. PixelBytes(w, h) <= PixelBytes(a, b) /\ PixelBytes(a, b) \in Nat
    BY <1>1, <2>1, <2>2, PixelBytesGrow, PixelBytesType
  <2> QED
    BY <1>2, <1>3, <1>4, <2>3
<1>5. CASE PixelBytes(w, h) > ISIZE_MAX
  <2>1. dims[1] # "Dimensions"
    <3>1. CASE Overflows(w, h)
      BY <3>1 DEF Framed, Fits
    <3>2. CASE ~Overflows(w, h)
      <4>1. capacity_bytes(w, h) > ISIZE_MAX
        BY <1>2, <1>5, <3>2
      <4> QED
        BY <3>2, <4>1 DEF Framed, Fits
    <3> QED
      BY <3>1, <3>2
  <2> QED
    BY <1>4, <1>5, <2>1 DEF Smallest
<1>6. CASE ~ (PixelBytes(w, h) > ISIZE_MAX)
  <2>1. ~Overflows(w, h) /\ capacity_bytes(w, h) = PixelBytes(w, h)
        /\ ~ (capacity_bytes(w, h) > ISIZE_MAX)
    BY <1>2, <1>3, <1>6 DEF Overflows
  <2>2. CASE Holding(w, h, len)
    <3>1. ~ (capacity_bytes(w, h) < len)
      BY <1>2, <2>1, <2>2 DEF Holding
    <3>2. dims = <<"Dimensions", w, h>>
      BY <2>1, <3>1 DEF Framed, Fits
    <3>3. dims[1] = "Dimensions" /\ dims[2] = w /\ dims[3] = h
      BY <3>2
    <3>4. dims[1] \notin Unrendered
      BY <3>3 DEF Unrendered
    <3>5. ASSUME NEW a \in 1 .. w, NEW b \in 1 .. h, OfShape(shape, a, b), Holding(a, b, len)
          PROVE  <<a, b>> = <<w, h>>
      <4>1. a \in Nat \ {0} /\ b \in Nat \ {0} /\ a <= w /\ b <= h
        BY <1>1
      <4>2. w <= a /\ h <= b
        BY <3>5, <4>1 DEF Sides
      <4>3. a = w /\ b = h
        BY <1>1, <4>1, <4>2
      <4> QED
        BY <4>3
    <3>6. PixelBytes(w, h) <= ISIZE_MAX
      BY <1>2, <1>3, <1>6
    <3> HIDE DEF dims
    <3>7. Smallest(shape, len, dims)
      BY <1>1, <2>2, <3>3, <3>4, <3>5, <3>6 DEF Smallest
    <3> QED
      BY <3>7 DEF dims
  <2>3. CASE ~Holding(w, h, len)
    <3>1. capacity_bytes(w, h) < len
      BY <1>2, <2>1, <2>3 DEF Holding
    <3>2. dims[1] # "Dimensions"
      BY <2>1, <3>1 DEF Framed, Fits
    <3>3. NoneHolds(shape, len)
      BY <2>3 DEF Sides
    <3> QED
      BY <3>2, <3>3 DEF Smallest, NoneHolds
  <2> QED
    BY <2>2, <2>3
<1> QED
  BY <1>5, <1>6

LEMMA SquareIsChosen ==
    ASSUME NEW shape \in ShapeType, shape.kind = "Square", NEW len \in Nat \ {0}
    PROVE  Chosen(shape, len, square_dimensions(len))
<1> DEFINE pixels == (len + BYTES_PER_PIXEL - 1) \div BYTES_PER_PIXEL
           root == CeilSqrt(pixels, 1)
           side == AtLeastOne(root)
<1>1. pixels \in Nat \ {0}
  BY PixelsHold
<1>2. \A s \in Nat : Holding(s, s, len) <=> s * s * 1 >= pixels
  BY PixelsHold
<1> HIDE DEF pixels
<1>3. /\ root \in 0 .. pixels
      /\ root * root * 1 >= pixels
      /\ \A s \in Nat : s * s * 1 >= pixels => root <= s
  BY <1>1, CeilSqrtIsLeast
<1> HIDE DEF root
<1>4. root \in Nat \ {0}
  <2>1. root = 0 => root * root * 1 = 0
    OBVIOUS
  <2> QED
    BY <1>1, <1>3, <2>1
<1>5. side = root
  BY <1>4 DEF AtLeastOne
<1>6. Holding(root, root, len) /\ \A s \in Nat : Holding(s, s, len) => root <= s
  BY <1>2, <1>3, <1>4
<1>7. square_dimensions(len) =
          IF root > U32_MAX THEN <<"InvalidDimensions">> ELSE <<"Dimensions", root, root>>
  BY <1>5, Zenon DEF square_dimensions, pixels, root
<1>8. CASE root > U32_MAX
  <2>1. ASSUME NEW w \in 1 .. U32_MAX, NEW h \in 1 .. U32_MAX,
               OfShape(shape, w, h), Holding(w, h, len)
        PROVE  FALSE
    <3>1. w = h /\ w \in Nat
      BY <2>1, WidthOfU32 DEF OfShape
    <3> QED
      BY <3>1, <2>1, <1>4, <1>6, <1>8, WidthOfU32
  <2>2. square_dimensions(len) = <<"InvalidDimensions">>
    BY <1>7, <1>8
  <2> QED
    BY <2>1, <2>2 DEF Chosen, NoneHolds
<1>9. CASE ~ (root > U32_MAX)
  <2>1. OfShape(shape, root, root)
    BY DEF OfShape
  <2>2. ASSUME NEW a \in Nat \ {0}, NEW b \in Nat \ {0},
               OfShape(shape, a, b), Holding(a, b, len)
        PROVE  root <= a /\ root <= b
    <3>1. a = b
      BY <2>2 DEF OfShape
    <3> QED
      BY <3>1, <2>2, <1>6
  <2>3. Sides(shape, len, root, root)
    BY <1>4, <1>6, <2>1, <2>2 DEF Sides
  <2> QED
    BY <1>4, <1>7, <1>9, <2>3 DEF Chosen
<1> QED
  BY <1>8, <1>9

LEMMA ExplicitIsChosen ==
    ASSUME NEW shape \in ShapeType, shape.kind = "WidthHeight", NEW len \in Nat \ {0}
    PROVE  Chosen(shape, len, explicit_dimensions(shape.w, shape.h))
<1>1. shape.w \in Nat /\ shape.h \in Nat
  BY WidthOfU32 DEF ShapeType
<1>2. \A w, h : OfShape(shape, w, h) <=> w = shape.w /\ h = shape.h
  BY DEF OfShape
<1>3. CASE shape.w = 0 \/ shape.h = 0
  <2>1. NoneHolds(shape, len)
    BY <1>2, <1>3, WidthOfU32 DEF NoneHolds
  <2> QED
    BY <1>3, <2>1 DEF explicit_dimensions, Chosen
<1>4. CASE ~ (shape.w = 0 \/ shape.h = 0)
  <2>1. explicit_dimensions(shape.w, shape.h) = <<"Dimensions", shape.w, shape.h>>
    BY <1>4 DEF explicit_dimensions
  <2>2. Holding(shape.w, shape.h, len) \/ NoneHolds(shape, len)
    BY <1>2 DEF NoneHolds
  <2>3. Sides(shape, len, shape.w, shape.h)
    BY <1>1, <1>2, <2>2 DEF Sides
  <2> QED
    BY <1>1, <2>1, <2>3 DEF Chosen
<1> QED
  BY <1>3, <1>4

LEMMA AspectIsChosen ==
    ASSUME NEW shape \in ShapeType, shape.kind = "Aspect", NEW len \in Nat \ {0}
    PROVE  Chosen(shape, len, aspect_dimensions(shape.w, shape.h, len))
<1>1. shape.w \in 0 .. U32_MAX /\ shape.h \in 0 .. U32_MAX
  BY DEF ShapeType
<1>2. CASE shape.w = 0 \/ shape.h = 0
  <2>1. \A w, h \in 1 .. U32_MAX : ~OfShape(shape, w, h)
    BY <1>2 DEF OfShape
  <2> QED
    BY <1>2, <2>1 DEF aspect_dimensions, Chosen, NoneHolds
<1>3. CASE ~ (shape.w = 0 \/ shape.h = 0)
  <2> DEFINE W == shape.w
             H == shape.h
             rw == W \div gcd_u32[<<W, H>>]
             rh == H \div gcd_u32[<<W, H>>]
             scale == AtLeastOne(CeilSqrt(len, BYTES_PER_PIXEL * rw * rh))
  <2>1. W \in 1 .. U32_MAX /\ H \in 1 .. U32_MAX
    BY <1>1, <1>3, WidthOfU32
  <2>2. W \in Nat \ {0} /\ H \in Nat \ {0}
    BY <2>1, WidthOfU32
  <2>4. \A w, h : OfShape(shape, w, h) <=> w * H = h * W
    BY <2>2 DEF OfShape
  <2>5. aspect_dimensions(W, H, len) = scaled_dimensions(rw, rh, len)
    BY <1>3 DEF aspect_dimensions
  <2> HIDE DEF W, H
  <2>6. IsRatio(rw, rh, W, H)
    BY <2>1, ReducedRatio
  <2> HIDE DEF rw, rh
  <2>7. rw \in Nat \ {0} /\ rh \in Nat \ {0}
    BY <2>6 DEF IsRatio
  <2>8. /\ scale \in Nat \ {0}
        /\ Holding(rw * scale, rh * scale, len)
        /\ \A t \in Nat : Holding(rw * t, rh * t, len) => scale <= t
    BY <2>7, ScaleHolds
  <2>9. scaled_dimensions(rw, rh, len) =
            IF rw * scale > U32_MAX \/ rh * scale > U32_MAX THEN <<"InvalidDimensions">>
            ELSE <<"Dimensions", rw * scale, rh * scale>>
    BY Zenon DEF scaled_dimensions
  <2> HIDE DEF scale
  <2>10. rw * scale \in Nat /\ rh * scale \in Nat
    BY <2>7, <2>8
  \* An image of the shape that holds the stream is at least as large.
  <2>11. ASSUME NEW a \in Nat \ {0}, NEW b \in Nat \ {0},
                OfShape(shape, a, b), Holding(a, b, len)
         PROVE  rw * scale <= a /\ rh * scale <= b
    <3>1. a * H = b * W
      BY <2>4, <2>11
    <3>2. PICK t \in Nat \ {0} : a = rw * t /\ b = rh * t
      BY <2>2, <2>6, <3>1, RatioIsScaled
    <3>3. scale <= t
      BY <2>8, <2>11, <3>2
    <3>4. \A r, s, u \in Nat : s <= u => r * s <= r * u
      OBVIOUS
    <3> QED
      BY <2>7, <2>8, <3>2, <3>3, <3>4
  <2>12. CASE rw * scale > U32_MAX \/ rh * scale > U32_MAX
    <3>1. ASSUME NEW a \in 1 .. U32_MAX, NEW b \in 1 .. U32_MAX,
                 OfShape(shape, a, b), Holding(a, b, len)
          PROVE  FALSE
      <4>1. a \in Nat \ {0} /\ b \in Nat \ {0} /\ a <= U32_MAX /\ b <= U32_MAX
        BY WidthOfU32
      <4>2. rw * scale <= a /\ rh * scale <= b
        BY <2>11, <3>1, <4>1
      <4> QED
        BY <2>10, <2>12, <4>1, <4>2, WidthOfU32
    <3>2. aspect_dimensions(W, H, len) = <<"InvalidDimensions">>
      BY <2>5, <2>9, <2>12
    <3> QED
      BY <3>1, <3>2 DEF W, H, Chosen, NoneHolds
  <2>13. CASE ~ (rw * scale > U32_MAX \/ rh * scale > U32_MAX)
    <3>1. OfShape(shape, rw * scale, rh * scale)
      <4>1. PICK g \in Nat \ {0} : W = g * rw /\ H = g * rh
        BY <2>6 DEF IsRatio
      <4>2. (rw * scale) * (g * rh) = (rh * scale) * (g * rw)
        BY <2>7, <2>8
      <4>3. (rw * scale) * H = (rh * scale) * W
        BY <4>1, <4>2
      <4> QED
        BY <2>4, <4>3
    <3>2. Sides(shape, len, rw * scale, rh * scale)
      BY <2>8, <2>10, <2>11, <3>1 DEF Sides
    <3>3. aspect_dimensions(W, H, len) = <<"Dimensions", rw * scale, rh * scale>>
      BY <2>5, <2>9, <2>13
    <3> QED
      BY <2>10, <3>2, <3>3 DEF W, H, Chosen
  <2> QED
    BY <2>12, <2>13
<1> QED
  BY <1>2, <1>3

\* Whatever the shape, with or without overflow checks, the dimensions chosen are
\* the smallest of it, and it is refused only for images no memory holds.
THEOREM DimensionsAreSmallest ==
    ASSUME NEW shape \in ShapeType, NEW len \in Nat \ {0}, NEW checked \in BOOLEAN
    PROVE  Smallest(shape, len, Framed(compute_dimensions(shape, len, checked)))
<1> DEFINE fitted(dims) ==
               IF dims[1] = "Dimensions" THEN Fits(dims[2], dims[3], len, checked) ELSE dims
<1>1. ASSUME NEW dims, Chosen(shape, len, dims)
      PROVE  Smallest(shape, len, Framed(fitted(dims)))
  <2>1. CASE dims = <<"InvalidDimensions">> /\ NoneHolds(shape, len)
    <3>1. dims[1] # "Dimensions"
      BY <2>1
    <3>2. Framed(fitted(dims)) = dims
      BY <3>1 DEF Framed
    <3> QED
      BY <2>1, <3>1, <3>2 DEF Smallest, NoneHolds
  <2>2. ASSUME NEW w \in Nat, NEW h \in Nat,
               dims = <<"Dimensions", w, h>>, Sides(shape, len, w, h)
        PROVE  Smallest(shape, len, Framed(fitted(dims)))
    <3>1. fitted(dims) = Fits(w, h, len, checked)
      BY <2>2
    <3> HIDE DEF fitted
    <3>2. Smallest(shape, len, Framed(Fits(w, h, len, checked)))
      BY <2>2, SidesAreSmallest
    <3> QED
      BY <3>1, <3>2
  <2> QED
    BY <1>1, <2>1, <2>2 DEF Chosen
<1>2. shape.kind \in {"Square", "WidthHeight", "Aspect"}
  BY DEF ShapeType
<1>3. CASE shape.kind = "Square"
  <2>1. compute_dimensions(shape, len, checked) = fitted(square_dimensions(len))
    BY <1>3 DEF compute_dimensions
  <2> HIDE DEF fitted
  <2> QED
    BY <1>1, <1>3, <2>1, SquareIsChosen
<1>4. CASE shape.kind = "WidthHeight"
  <2>1. compute_dimensions(shape, len, checked) =
            fitted(explicit_dimensions(shape.w, shape.h))
    BY <1>4 DEF compute_dimensions
  <2> HIDE DEF fitted
  <2> QED
    BY <1>1, <1>4, <2>1, ExplicitIsChosen
<1>5. CASE shape.kind = "Aspect"
  <2>1. compute_dimensions(shape, len, checked) =
            fitted(aspect_dimensions(shape.w, shape.h, len))
    BY <1>5 DEF compute_dimensions
  <2> HIDE DEF fitted
  <2> QED
    BY <1>1, <1>5, <2>1, AspectIsChosen
<1> QED
  BY <1>2, <1>3, <1>4, <1>5

-----------------------------------------------------------------------------
(* The renders of a behaviour.                                             *)

\* What the last render was asked, and that it answered what Dimensions says.
Rendered ==
    command = "render" =>
        \E doc \in OpticalFiles, kg \in Ks, shape \in Shapes, checked \in BOOLEAN :
            /\ request = [file |-> doc, k |-> kg, shape |-> shape]
            /\ result = Dimensions(doc, kg, shape, checked)

LEMMA RenderedInvariant == OpticalSpec => []Rendered
<1>1. OpticalStart => Rendered
  BY DEF OpticalStart, Rendered
<1>2. Rendered /\ [OpticalNext]_optical_vars => Rendered'
  <2> SUFFICES ASSUME Rendered, [OpticalNext]_optical_vars PROVE Rendered'
    OBVIOUS
  <2>1. ASSUME NEW doc \in OpticalFiles, NEW kg \in Ks, NEW shape \in Shapes,
               NEW checked \in BOOLEAN, Render(doc, kg, shape, checked)
        PROVE  Rendered'
    BY <2>1 DEF Render, Rendered
  <2>2. CASE StopWriting
    BY <2>2 DEF StopWriting, Rendered
  <2>3. ASSUME NEW changed, Change(changed) PROVE Rendered'
    BY <2>3 DEF Change, Rendered
  <2>4. ASSUME NEW name \in {"extract", "inspect", "inspect_deep"}, NEW answer,
               Read(name, answer)
        PROVE  Rendered'
    BY <2>4 DEF Read, Rendered
  <2>5. CASE UNCHANGED optical_vars
    BY <2>5 DEF optical_vars, Rendered
  <2>6. CASE DamageByte \/ CutRow \/ Recolour
    BY <2>3, <2>6 DEF DamageByte, CutRow, Recolour
  <2>7. CASE \E cell \in {Zero, Wrong} : AddRow(cell)
    BY <2>3, <2>7 DEF AddRow
  <2>8. CASE \E v \in Headers : Reheader(v)
    BY <2>3, <2>8 DEF Reheader
  <2>9. CASE Extract \/ Inspect \/ InspectDeep
    BY <2>4, <2>9 DEF Extract, Inspect, InspectDeep
  <2> QED
    BY <2>1, <2>2, <2>5, <2>6, <2>7, <2>8, <2>9 DEF OpticalNext
<1> QED
  BY <1>1, <1>2, PTL DEF OpticalSpec

LEMMA LengthOfBoth ==
    ASSUME NEW s, NEW t, NEW n \in Nat, Len(s) = 9, s = [i \in 1 .. 9 |-> s[i]],
           t = [i \in 1 .. n |-> t[i]]
    PROVE  Len(s \o t) = 9 + n
<1> DEFINE S == {s[i] : i \in 1 .. 9} \cup {t[i] : i \in 1 .. n}
<1>1. s \in [1 .. 9 -> S] /\ t \in [1 .. n -> S]
  BY Zenon
<1>2. s \in Seq(S) /\ t \in Seq(S) /\ Len(t) = n
  <2> HIDE DEF S
  <2> QED
    BY <1>1
<1> HIDE DEF S
<1> QED
  BY <1>2

\* The stream is as long as render says when it asks for the dimensions.
LEMMA StreamLength ==
    ASSUME NEW doc \in OpticalFiles, NEW kg \in Ks, kg \in 1 .. MAX_K
    PROVE  /\ SymbolCount(doc, kg) * kg * RS_N \in Nat
           /\ Len(FlatStream(doc, kg)) = OPTICAL_HEADER_LEN + SymbolCount(doc, kg) * kg * RS_N
<1>1. kg \in Nat \ {0} /\ RS_N \in Nat \ {0} /\ Blocks[doc] \in Nat
  BY OpticalAssumption
<1>2. SymbolCount(doc, kg) \in Nat
  BY <1>1 DEF SymbolCount
<1>3. \A a, b \in Nat : a * b \in Nat
  OBVIOUS
<1>4. SymbolCount(doc, kg) * (kg * RS_N) \in Nat /\ SymbolCount(doc, kg) * kg * RS_N \in Nat
  BY <1>1, <1>2, <1>3
<1>5. SymbolCount(doc, kg) * (kg * RS_N) = SymbolCount(doc, kg) * kg * RS_N
  BY <1>1, <1>2
<1> DEFINE v == HeaderOf(kg, SymbolCount(doc, kg))
           n == SymbolCount(doc, kg) * (kg * RS_N)
           cells == [b \in 1 .. n |->
                        SymbolCell(doc, kg, ((b - 1) \div (kg * RS_N)) + 1, (b - 1) % (kg * RS_N))]
<1>6. OPTICAL_HEADER_LEN = 9
  BY OpticalAssumption DEF Fields
<1>7. Len(serialize_v1(v)) = 9 /\ serialize_v1(v) = [i \in 1 .. 9 |-> serialize_v1(v)[i]]
  <2> HIDE DEF v
  <2> QED
    BY DEF serialize_v1
<1>8. FlatStream(doc, kg) = serialize_v1(v) \o cells
  BY DEF FlatStream
<1>9. cells = [i \in 1 .. n |-> cells[i]]
  <2> HIDE DEF n
  <2> QED
    OBVIOUS
<1>10. n \in Nat
  BY <1>4
<1> HIDE DEF v, cells, n
<1>11. Len(serialize_v1(v) \o cells) = 9 + n
  BY <1>7, <1>9, <1>10, LengthOfBoth
<1> QED
  BY <1>4, <1>5, <1>6, <1>8, <1>11 DEF n

\* SmallestOfItsShape: render picks the smallest image of the shape asked for, and
\* refuses a shape, wrapped or not, only when an image of it that holds the stream
\* is larger than memory can be (compute_dimensions, from_flat).
THEOREM RenderIsSmallest == OpticalSpec => []SmallestOfItsShape
<1>1. Rendered => SmallestOfItsShape
  <2> SUFFICES ASSUME Rendered, command = "render" PROVE SmallestOfItsShape
    BY DEF SmallestOfItsShape
  <2>1. PICK doc \in OpticalFiles, kg \in Ks, shape \in Shapes, checked \in BOOLEAN :
            /\ request = [file |-> doc, k |-> kg, shape |-> shape]
            /\ result = Dimensions(doc, kg, shape, checked)
    BY DEF Rendered
  <2>2. request.file = doc /\ request.k = kg /\ request.shape = shape
    BY <2>1
  <2> DEFINE payload == SymbolCount(doc, kg) * kg * RS_N
             refused == result[1] # "Dimensions" /\ result[1] \notin Unrendered
  <2>3. CASE refused
    BY <2>3 DEF SmallestOfItsShape
  <2>4. CASE ~ refused
    <3>1. /\ shape.kind # "malformed" /\ kg \in 1 .. MAX_K
          /\ result = Framed(compute_dimensions(shape, OPTICAL_HEADER_LEN + payload, checked))
      BY <2>1, <2>4, Zenon DEF Dimensions, Unrendered
    <3>2. payload \in Nat /\ Len(FlatStream(doc, kg)) = OPTICAL_HEADER_LEN + payload
      BY <3>1, StreamLength
    <3> HIDE DEF payload
    <3>3. OPTICAL_HEADER_LEN = 9
      BY OpticalAssumption DEF Fields
    <3>4. OPTICAL_HEADER_LEN + payload \in Nat \ {0}
      BY <3>2, <3>3
    <3>5. shape \in ShapeType
      BY <3>1, OpticalAssumption DEF ShapeType
    <3>6. Smallest(shape, OPTICAL_HEADER_LEN + payload, result)
      BY <3>1, <3>4, <3>5, DimensionsAreSmallest
    <3> QED
      BY <2>2, <3>2, <3>6 DEF Smallest, SmallestOfItsShape
  <2> QED
    BY <2>3, <2>4
<1> QED
  BY <1>1, RenderedInvariant, PTL

-----------------------------------------------------------------------------
(* Slots of equal size.                                                    *)

LEMMA InSlot ==
    ASSUME NEW size \in Nat \ {0}, NEW n \in Nat, NEW p \in 0 .. size - 1
    PROVE  /\ n * size + p \in Nat
           /\ (n * size + p) \div size = n /\ (n * size + p) % size = p
<1>1. n * size + p \in Nat
  OBVIOUS
<1> QED
  BY <1>1, DivisionIsUnique

\* A slot before the end of count slots ends by it.
LEMMA SlotEnds ==
    ASSUME NEW size \in Nat \ {0}, NEW count \in Nat, NEW n \in Nat
    PROVE  /\ n < count <=> n * size + size <= count * size
           /\ n * size < count * size => n < count
<1>1. CASE n < count
  <2>1. PICK d \in Nat : count = n + 1 + d
    <3>1. count - n - 1 \in Nat /\ count = n + 1 + (count - n - 1)
      BY <1>1
    <3> QED
      BY <3>1
  <2>2. d * size \in Nat
    OBVIOUS
  <2>3. (n + 1 + d) * size = n * size + size + d * size
    OBVIOUS
  <2> QED
    BY <1>1, <2>1, <2>2, <2>3
<1>2. CASE ~ (n < count)
  <2>1. PICK d \in Nat : n = count + d
    <3>1. n - count \in Nat /\ n = count + (n - count)
      BY <1>2
    <3> QED
      BY <3>1
  <2>2. d * size \in Nat
    OBVIOUS
  <2>3. (count + d) * size = count * size + d * size
    OBVIOUS
  <2> QED
    BY <1>2, <2>1, <2>2, <2>3
<1> QED
  BY <1>1, <1>2

\* Of rows of kg numbers, count have the remainder 0.
LEMMA CountInColumn ==
    ASSUME NEW kg \in Nat \ {0}, NEW count \in Nat \ {0}
    PROVE  LET column == {p \in 0 .. kg * count - 1 : p % kg = 0}
           IN  IsFiniteSet(column) /\ Cardinality(column) \in Nat /\ Cardinality(column) >= count
<1> DEFINE column == {p \in 0 .. kg * count - 1 : p % kg = 0}
           f == [r \in 0 .. count - 1 |-> r * kg]
<1>1. kg * count \in Nat
  OBVIOUS
<1>2. IsFiniteSet(column)
  <2>1. IsFiniteSet(0 .. kg * count - 1)
    BY <1>1, FS_Interval
  <2>2. column \in SUBSET (0 .. kg * count - 1)
    OBVIOUS
  <2> HIDE DEF column
  <2> QED
    BY <2>1, <2>2, FS_Subset
<1>3. \A r \in 0 .. count - 1 : r * kg \in column
  <2> SUFFICES ASSUME NEW r \in 0 .. count - 1 PROVE r * kg \in column
    OBVIOUS
  <2>0. r \in Nat /\ r < count /\ 0 \in 0 .. kg - 1
    OBVIOUS
  <2>1. r * kg + 0 \in Nat /\ (r * kg + 0) % kg = 0
    BY <2>0, InSlot
  <2>2. r * kg + kg <= count * kg
    BY <2>0, SlotEnds
  <2>3. count * kg = kg * count
    OBVIOUS
  <2>4. r * kg \in Nat /\ r * kg + 0 = r * kg
    BY <2>0
  <2>5. r * kg \in 0 .. kg * count - 1
    <3>1. r * kg + kg <= kg * count
      BY <2>2, <2>3
    <3> HIDE DEF column
    <3> QED
      BY <3>1, <2>4, <1>1
  <2> QED
    BY <2>1, <2>4, <2>5
<1>4. f \in Injection(0 .. count - 1, column)
  <2>1. f \in [0 .. count - 1 -> column]
    BY <1>3
  <2>2. ASSUME NEW a \in 0 .. count - 1, NEW b \in 0 .. count - 1, a * kg = b * kg PROVE a = b
    BY <2>2
  <2>3. \A a, b \in 0 .. count - 1 : f[a] = f[b] => a = b
    BY <2>2
  <2> HIDE DEF f, column
  <2> QED
    BY <2>1, <2>3 DEF Injection, IsInjective
<1>5. Cardinality(0 .. count - 1) <= Cardinality(column)
  <2> HIDE DEF f, column
  <2> QED
    BY <1>2, <1>4, FS_Injection
<1>6. Cardinality(0 .. count - 1) = count
  BY FS_Interval
<1>7. Cardinality(column) \in Nat
  <2> HIDE DEF column
  <2> QED
    BY <1>2, FS_CardinalityType
<1> HIDE DEF column
<1> QED
  BY <1>2, <1>5, <1>6, <1>7 DEF column

-----------------------------------------------------------------------------
(* What render writes.                                                     *)

Size(kg) == kg * RS_N
PayloadOf(doc, kg) == SymbolCount(doc, kg) * Size(kg)

\* The cell of byte b of the image of a doc.
Written(doc, kg, b) ==
    IF b <= OPTICAL_HEADER_LEN THEN serialize_v1(HeaderOf(kg, SymbolCount(doc, kg)))[b]
    ELSE IF b <= OPTICAL_HEADER_LEN + PayloadOf(doc, kg)
    THEN SymbolCell(doc, kg, ((b - OPTICAL_HEADER_LEN - 1) \div Size(kg)) + 1,
                    (b - OPTICAL_HEADER_LEN - 1) % Size(kg))
    ELSE Zero

IsCells(s) == \E S : s \in Seq(S)

LEMMA HeaderIsNine == OPTICAL_HEADER_LEN = 9
BY OpticalAssumption DEF Fields

\* A function on an initial interval is a sequence.
LEMMA FunctionIsCells ==
    ASSUME NEW n \in Nat, NEW f, f = [b \in 1 .. n |-> f[b]]
    PROVE  IsCells(f) /\ Len(f) = n
<1> DEFINE S == {f[b] : b \in 1 .. n}
<1>1. f \in [1 .. n -> S]
  BY Zenon
<1>2. f \in Seq(S) /\ Len(f) = n
  <2> HIDE DEF S
  <2> QED
    BY <1>1
<1> QED
  BY <1>2 DEF IsCells

\* The fields of a header, and the cells its CRC covers.
Under(v) ==
    <<<<"magic", 1>>, <<"version", 1>>, <<"header_len", 9>>, <<"flags", v.flags>>,
      <<"k_global", v.k_global>>, <<"total_symbols", v.total_symbols>>,
      <<"reserved", v.reserved>>, <<"payload_len", v.payload_len>>>>

LEMMA Serialized ==
    ASSUME NEW v, NEW s, s = serialize_v1(v)
    PROVE  /\ IsCells(Under(v)) /\ Len(Under(v)) = 8 /\ IsCells(s) /\ Len(s) = 9
           /\ s[1] = <<"magic", 1>> /\ s[2] = <<"version", 1>> /\ s[3] = <<"header_len", 9>>
           /\ s[4] = <<"flags", v.flags>> /\ s[5] = <<"k_global", v.k_global>>
           /\ s[6] = <<"total_symbols", v.total_symbols>> /\ s[7] = <<"reserved", v.reserved>>
           /\ s[8] = <<"payload_len", v.payload_len>> /\ s[9] = <<"crc", Under(v)>>
           /\ \A b \in 1 .. 8 : Under(v)[b] = s[b]
<1> DEFINE a1 == <<"magic", 1>>
           a2 == <<"version", 1>>
           a3 == <<"header_len", 9>>
           a4 == <<"flags", v.flags>>
           a5 == <<"k_global", v.k_global>>
           a6 == <<"total_symbols", v.total_symbols>>
           a7 == <<"reserved", v.reserved>>
           a8 == <<"payload_len", v.payload_len>>
           e == <<"crc", Under(v)>>
<1>1. s = Append(Under(v), e)
  BY HeaderIsNine DEF serialize_v1, Under
<1>2. Under(v) = <<a1, a2, a3, a4, a5, a6, a7, a8>>
  BY DEF Under
<1> HIDE DEF a1, a2, a3, a4, a5, a6, a7, a8, e
<1> DEFINE u == Under(v)
<1> HIDE DEF u
<1>3. u = <<a1, a2, a3, a4, a5, a6, a7, a8>>
      /\ s = Append(<<a1, a2, a3, a4, a5, a6, a7, a8>>, e)
  BY <1>1, <1>2 DEF u
<1>4. u = [b \in 1 .. 8 |-> u[b]] /\ s = [b \in 1 .. 9 |-> s[b]]
  BY <1>3
<1>5. /\ s[1] = a1 /\ s[2] = a2 /\ s[3] = a3 /\ s[4] = a4 /\ s[5] = a5
      /\ s[6] = a6 /\ s[7] = a7 /\ s[8] = a8 /\ s[9] = e
  BY <1>3
<1>6. \A b \in 1 .. 8 : u[b] = s[b]
  BY <1>3
<1>7. IsCells(u) /\ Len(u) = 8 /\ IsCells(s) /\ Len(s) = 9
  BY <1>4, FunctionIsCells
<1> QED
  BY <1>5, <1>6, <1>7 DEF a1, a2, a3, a4, a5, a6, a7, a8, e, u

LEMMA SameCells ==
    ASSUME NEW s, NEW t, IsCells(s), IsCells(t), Len(s) = Len(t),
           \A b \in 1 .. Len(s) : s[b] = t[b]
    PROVE  s = t
<1>1. PICK S : s \in Seq(S)
  BY DEF IsCells
<1>2. PICK T : t \in Seq(T)
  BY DEF IsCells
<1>3. s \in Seq(S \cup T) /\ t \in Seq(S \cup T)
  BY <1>1, <1>2, SeqMonotonic
<1> QED
  BY <1>3, SeqEqual, Zenon

LEMMA CellsAreSized ==
    ASSUME NEW s, IsCells(s)
    PROVE  Len(s) \in Nat /\ DOMAIN s = 1 .. Len(s)
<1>1. PICK S : s \in Seq(S)
  BY DEF IsCells
<1> QED
  BY <1>1, LenProperties

LEMMA Joined ==
    ASSUME NEW s, NEW t, IsCells(s), IsCells(t)
    PROVE  /\ IsCells(s \o t) /\ Len(s \o t) = Len(s) + Len(t)
           /\ \A b \in 1 .. Len(s) + Len(t) :
                  (s \o t)[b] = IF b <= Len(s) THEN s[b] ELSE t[b - Len(s)]
<1>1. PICK S : s \in Seq(S)
  BY DEF IsCells
<1>2. PICK T : t \in Seq(T)
  BY DEF IsCells
<1>3. s \in Seq(S \cup T) /\ t \in Seq(S \cup T)
  BY <1>1, <1>2, SeqMonotonic
<1>4. s \o t \in Seq(S \cup T)
  BY <1>3, ConcatProperties, Zenon
<1>5. IsCells(s \o t)
  BY <1>4 DEF IsCells
<1> QED
  BY <1>3, <1>5, ConcatProperties, Zenon

LEMMA CutCells ==
    ASSUME NEW s, IsCells(s), NEW n \in Nat, n <= Len(s)
    PROVE  /\ IsCells(SubSeq(s, 1, n)) /\ Len(SubSeq(s, 1, n)) = n
           /\ \A b \in 1 .. n : SubSeq(s, 1, n)[b] = s[b]
<1>1. PICK S : s \in Seq(S)
  BY DEF IsCells
<1>2. SubSeq(s, 1, n) \in Seq(S) /\ Len(SubSeq(s, 1, n)) = n
  BY <1>1
<1>3. \A b \in 1 .. n : SubSeq(s, 1, n)[b] = s[b]
  BY <1>1
<1>4. IsCells(SubSeq(s, 1, n))
  BY <1>2 DEF IsCells
<1> QED
  BY <1>2, <1>3, <1>4

\* The padded stream has in every cell what Written tells.
LEMMA RenderWrites ==
    ASSUME NEW doc \in OpticalFiles, NEW kg \in Nat \ {0}, NEW w \in Nat, NEW h \in Nat
    PROVE  LET cells == Padded(FlatStream(doc, kg), w, h)
           IN  /\ IsCells(cells) /\ Len(cells) = PixelBytes(w, h)
               /\ \A b \in 1 .. Len(cells) : cells[b] = Written(doc, kg, b)
<1> DEFINE total == SymbolCount(doc, kg)
           payload == PayloadOf(doc, kg)
           head == serialize_v1(HeaderOf(kg, total))
           body == [b \in 1 .. (SymbolCount(doc, kg) * (kg * RS_N)) |->
                      SymbolCell(doc, kg, ((b - 1) \div (kg * RS_N)) + 1, (b - 1) % (kg * RS_N))]
           stream == FlatStream(doc, kg)
           room == PixelBytes(w, h)
           cells == Padded(stream, w, h)
<1>1. payload \in Nat /\ room \in Nat
  <2>1. RS_N \in Nat \ {0} /\ Blocks[doc] \in Nat
    BY OpticalAssumption
  <2>2. total \in Nat
    BY <2>1 DEF SymbolCount
  <2>3. \A a, b \in Nat : a * b \in Nat
    OBVIOUS
  <2>4. payload \in Nat
    BY <2>1, <2>2, <2>3 DEF PayloadOf, Size
  <2> QED
    BY <2>3, <2>4 DEF PixelBytes, BYTES_PER_PIXEL
<1>2. stream = head \o body
  BY DEF FlatStream
<1>3. IsCells(head) /\ Len(head) = 9
  <2> HIDE DEF total
  <2> QED
    BY Serialized
<1>4. body = [b \in 1 .. payload |->
                SymbolCell(doc, kg, ((b - 1) \div Size(kg)) + 1, (b - 1) % Size(kg))]
  BY DEF PayloadOf, Size
<1>5. IsCells(body) /\ Len(body) = payload
  <2>1. body = [b \in 1 .. payload |-> body[b]]
    <3> HIDE DEF payload
    <3> QED
      BY <1>4
  <2> HIDE DEF payload, body
  <2> QED
    BY <1>1, <2>1, FunctionIsCells
<1>6. \A b \in 1 .. payload : body[b] = SymbolCell(doc, kg, ((b - 1) \div Size(kg)) + 1, (b - 1) % Size(kg))
  <2> HIDE DEF payload, body
  <2> QED
    BY <1>4
<1> HIDE DEF head, body, payload, room
<1>7. /\ Len(stream) = 9 + payload
      /\ \A b \in 1 .. 9 + payload : stream[b] = IF b <= 9 THEN head[b] ELSE body[b - 9]
  <2> HIDE DEF stream
  <2>1. /\ Len(head \o body) = Len(head) + Len(body)
        /\ \A b \in 1 .. Len(head) + Len(body) :
               (head \o body)[b] = IF b <= Len(head) THEN head[b] ELSE body[b - Len(head)]
    BY <1>3, <1>5, Joined, Zenon
  <2> QED
    BY <1>2, <1>3, <1>5, <2>1, Zenon
<1> HIDE DEF stream
<1>8. cells = [b \in 1 .. room |-> IF b <= Len(stream) THEN stream[b] ELSE Zero]
  BY DEF Padded, room
<1>9. cells = [b \in 1 .. room |-> cells[b]]
  BY <1>8
<1>10. ASSUME NEW b \in 1 .. room PROVE cells[b] = Written(doc, kg, b)
  <2>1. cells[b] = IF b <= Len(stream) THEN stream[b] ELSE Zero
    BY <1>8
  <2>2. CASE b <= 9
    <3>1. cells[b] = head[b]
      BY <1>1, <1>7, <2>1, <2>2
    <3> QED
      BY <2>2, <3>1, HeaderIsNine DEF Written, head
  <2>3. CASE b > 9 /\ b <= 9 + payload
    <3>1. b - 9 \in 1 .. payload
      BY <1>1, <2>3
    <3>2. cells[b] = body[b - 9]
      BY <1>1, <1>7, <2>1, <2>3
    <3>3. cells[b] = SymbolCell(doc, kg, ((b - 9 - 1) \div Size(kg)) + 1, (b - 9 - 1) % Size(kg))
      BY <1>6, <3>1, <3>2
    <3> QED
      BY <2>3, <3>3, HeaderIsNine DEF Written, payload
  <2>4. CASE b > 9 + payload
    <3>1. cells[b] = Zero
      BY <1>1, <1>7, <2>1, <2>4
    <3>2. ~ (b <= 9)
      BY <1>1, <2>4
    <3> QED
      BY <2>4, <3>1, <3>2, <1>1, HeaderIsNine DEF Written, payload
  <2> QED
    BY <1>1, <2>2, <2>3, <2>4
<1> HIDE DEF cells
<1>11. IsCells(cells) /\ Len(cells) = room
  BY <1>1, <1>9, FunctionIsCells
<1> QED
  BY <1>10, <1>11 DEF cells, room, stream

-----------------------------------------------------------------------------
(* Reading the header.                                                     *)

LEMMA FieldsAt ==
    /\ Field("magic") = image.cells[1] /\ Field("version") = image.cells[2]
    /\ Field("header_len") = image.cells[3] /\ Field("flags") = image.cells[4]
    /\ Field("k_global") = image.cells[5] /\ Field("total_symbols") = image.cells[6]
    /\ Field("reserved") = image.cells[7] /\ Field("payload_len") = image.cells[8]
    /\ Field("crc") = image.cells[9]
<1>1. DOMAIN Fields = 1 .. 9
  BY DEF Fields
<1>2. /\ Fields[1] = "magic" /\ Fields[2] = "version" /\ Fields[3] = "header_len"
      /\ Fields[4] = "flags" /\ Fields[5] = "k_global" /\ Fields[6] = "total_symbols"
      /\ Fields[7] = "reserved" /\ Fields[8] = "payload_len" /\ Fields[9] = "crc"
  BY DEF Fields
<1>3. \A f \in 1 .. 9 : \A g \in 1 .. 9 : Fields[f] = Fields[g] => f = g
  BY <1>2
<1>4. ASSUME NEW f \in 1 .. 9 PROVE Field(Fields[f]) = image.cells[f]
  <2>1. (CHOOSE g \in DOMAIN Fields : Fields[g] = Fields[f]) = f
    BY <1>1, <1>3
  <2> QED
    BY <2>1 DEF Field
<1>5. /\ Field(Fields[1]) = image.cells[1] /\ Field(Fields[2]) = image.cells[2]
      /\ Field(Fields[3]) = image.cells[3] /\ Field(Fields[4]) = image.cells[4]
      /\ Field(Fields[5]) = image.cells[5] /\ Field(Fields[6]) = image.cells[6]
      /\ Field(Fields[7]) = image.cells[7] /\ Field(Fields[8]) = image.cells[8]
      /\ Field(Fields[9]) = image.cells[9]
  BY <1>4
<1> QED
  BY <1>2, <1>5

\* The image has the header of v.
Headed(v) ==
    /\ IsCells(image.cells) /\ Len(image.cells) >= OPTICAL_HEADER_LEN
    /\ \A b \in 1 .. OPTICAL_HEADER_LEN : image.cells[b] = serialize_v1(v)[b]

Consistent(v) ==
    /\ v.reserved = 0 /\ v.k_global # 0 /\ v.total_symbols # 0
    /\ v.payload_len = v.k_global * v.total_symbols * RS_N

LEMMA ReadsTheHeader ==
    ASSUME NEW v, Headed(v)
    PROVE  /\ Value("k_global") = v.k_global /\ Value("total_symbols") = v.total_symbols
           /\ Value("payload_len") = v.payload_len
           /\ ContainerError = <<"none">> <=> image # Unreadable /\ Consistent(v)
<1> DEFINE c == image.cells
           s == serialize_v1(v)
<1>1. /\ IsCells(Under(v)) /\ Len(Under(v)) = 8 /\ IsCells(s) /\ Len(s) = 9
      /\ s[1] = <<"magic", 1>> /\ s[2] = <<"version", 1>> /\ s[3] = <<"header_len", 9>>
      /\ s[4] = <<"flags", v.flags>> /\ s[5] = <<"k_global", v.k_global>>
      /\ s[6] = <<"total_symbols", v.total_symbols>> /\ s[7] = <<"reserved", v.reserved>>
      /\ s[8] = <<"payload_len", v.payload_len>> /\ s[9] = <<"crc", Under(v)>>
      /\ \A b \in 1 .. 8 : Under(v)[b] = s[b]
  BY Serialized
<1>2. IsCells(c) /\ Len(c) \in Nat /\ Len(c) >= 9 /\ \A b \in 1 .. 9 : c[b] = s[b]
  BY HeaderIsNine, CellsAreSized DEF Headed
<1>3. Covered = Under(v)
  <2> DEFINE t == SubSeq(c, 1, 8)
  <2>1. Covered = t
    BY HeaderIsNine DEF Covered
  <2>2. IsCells(t) /\ Len(t) = 8 /\ \A b \in 1 .. 8 : t[b] = c[b]
    <3> HIDE DEF c
    <3> QED
      BY <1>2, CutCells
  <2> HIDE DEF t, s
  <2>3. \A b \in 1 .. 8 : t[b] = Under(v)[b]
    BY <1>1, <1>2, <2>2
  <2>4. t = Under(v)
    BY <1>1, <2>2, <2>3, SameCells
  <2> QED
    BY <2>1, <2>4
<1>4. /\ c[1] = <<"magic", 1>> /\ c[2] = <<"version", 1>> /\ c[3] = <<"header_len", 9>>
      /\ c[5] = <<"k_global", v.k_global>>
      /\ c[6] = <<"total_symbols", v.total_symbols>> /\ c[7] = <<"reserved", v.reserved>>
      /\ c[8] = <<"payload_len", v.payload_len>> /\ c[9] = <<"crc", Under(v)>>
  BY <1>1, <1>2
<1>5. /\ Value("k_global") = v.k_global /\ Value("total_symbols") = v.total_symbols
      /\ Value("payload_len") = v.payload_len
  BY <1>4, FieldsAt DEF Value
<1>6. /\ Holds("magic", 1) /\ Holds("version", 1) /\ Holds("header_len", OPTICAL_HEADER_LEN)
      /\ Holds("crc", Covered)
      /\ Holds("reserved", 0) <=> v.reserved = 0
  BY <1>3, <1>4, FieldsAt, HeaderIsNine DEF Holds
<1>7. ~ (Len(image.cells) < OPTICAL_HEADER_LEN)
  BY <1>2, HeaderIsNine
<1>8. validate_payload_len <=> v.payload_len = v.k_global * v.total_symbols * RS_N
  BY <1>5 DEF validate_payload_len
<1>9. ContainerError = <<"none">> <=> image # Unreadable /\ Consistent(v)
  BY <1>5, <1>6, <1>7, <1>8 DEF ContainerError, Consistent
<1> QED
  BY <1>5, <1>9

\* What a cell of the image may hold: what was rendered, nothing, damage, or in
\* the header the field of another writer.
KeptCell(cell, b, doc, kg) ==
    \/ cell \in {Zero, Wrong, Written(doc, kg, b)}
    \/ b <= OPTICAL_HEADER_LEN /\ \E v \in Headers : cell = serialize_v1(v)[b]

Kept(doc, kg) ==
    /\ IsCells(image.cells)
    /\ \A b \in 1 .. Len(image.cells) : KeptCell(image.cells[b], b, doc, kg)

Writers(doc, kg) == Headers \cup {HeaderOf(kg, SymbolCount(doc, kg))}

\* The CRC tells whose header it is.
LEMMA CrcTellsTheHeader ==
    ASSUME NEW doc, NEW kg, Kept(doc, kg), ContainerError = <<"none">>
    PROVE  image # Unreadable /\ \E v \in Writers(doc, kg) : Headed(v)
<1> DEFINE c == image.cells
<1>1. image # Unreadable /\ ~ (Len(c) < 9) /\ Holds("crc", Covered)
  BY HeaderIsNine, Zenon DEF ContainerError
<1>2. IsCells(c) /\ Len(c) \in Nat /\ Len(c) >= 9
  BY <1>1, CellsAreSized DEF Kept
<1>3. c[9] = <<"crc", Covered>>
  BY <1>1, FieldsAt DEF Holds
<1>4. \E v \in Writers(doc, kg) : c[9] = serialize_v1(v)[9]
  <2>1. \/ c[9] \in {Zero, Wrong, Written(doc, kg, 9)}
        \/ \E v \in Headers : c[9] = serialize_v1(v)[9]
    BY <1>2 DEF Kept, KeptCell
  <2>2. c[9] # Zero /\ c[9] # Wrong
    BY <1>3 DEF Zero, Wrong
  <2>3. Written(doc, kg, 9) = serialize_v1(HeaderOf(kg, SymbolCount(doc, kg)))[9]
    BY HeaderIsNine DEF Written
  <2> QED
    BY <2>1, <2>2, <2>3 DEF Writers
<1>5. PICK v \in Writers(doc, kg) : c[9] = serialize_v1(v)[9]
  BY <1>4
<1> DEFINE s == serialize_v1(v)
<1>6. Len(Under(v)) = 8 /\ s[9] = <<"crc", Under(v)>> /\ \A b \in 1 .. 8 : Under(v)[b] = s[b]
  BY Serialized
<1>7. Covered = Under(v)
  BY <1>3, <1>5, <1>6
<1>8. Covered = SubSeq(c, 1, 8) /\ \A b \in 1 .. 8 : SubSeq(c, 1, 8)[b] = c[b]
  <2>1. Covered = SubSeq(c, 1, 8)
    BY HeaderIsNine DEF Covered
  <2> HIDE DEF c
  <2> QED
    BY <1>2, <2>1, CutCells
<1>9. \A b \in 1 .. 9 : c[b] = s[b]
  <2> HIDE DEF c, s
  <2>1. \A b \in 1 .. 8 : c[b] = s[b]
    BY <1>6, <1>7, <1>8
  <2>2. c[9] = s[9]
    BY <1>5 DEF s
  <2> QED
    BY <2>1, <2>2
<1>10. Headed(v)
  BY <1>2, <1>9, HeaderIsNine DEF Headed
<1> QED
  BY <1>1, <1>10

-----------------------------------------------------------------------------
(* Decoding the symbols.                                                   *)

\* A doc was rendered with kg, and the image holds nothing another doc did.
Rendition(doc, kg) ==
    /\ doc \in OpticalFiles /\ kg \in 1 .. MAX_K /\ Blocks[doc] > 0
    /\ request.file = doc /\ request.k = kg
    /\ Kept(doc, kg)

LEMMA SizesOfAFile ==
    ASSUME NEW doc \in OpticalFiles, NEW kg \in Nat \ {0}, Blocks[doc] > 0
    PROVE  /\ RS_N \in Nat \ {0} /\ Size(kg) \in Nat \ {0}
           /\ SymbolCount(doc, kg) \in Nat \ {0} /\ PayloadOf(doc, kg) \in Nat
           /\ PayloadOf(doc, kg) = SymbolCount(doc, kg) * kg * RS_N
           /\ PayloadOf(doc, kg) = kg * SymbolCount(doc, kg) * RS_N
<1>1. RS_N \in Nat \ {0} /\ Blocks[doc] \in Nat
  BY OpticalAssumption
<1>2. \A a, b \in Nat \ {0} : a * b \in Nat \ {0}
  OBVIOUS
<1>3. SymbolCount(doc, kg) \in Nat
  BY <1>1 DEF SymbolCount
<1>4. SymbolCount(doc, kg) # 0
  <2> DEFINE q == SymbolCount(doc, kg)
  <2>1. Blocks[doc] + kg - 1 \in Nat /\ Blocks[doc] + kg - 1 >= kg
    BY <1>1
  <2>2. Blocks[doc] + kg - 1 < kg * (q + 1)
    BY <2>1 DEF SymbolCount
  <2>3. q = 0 => kg * (q + 1) = kg
    OBVIOUS
  <2> HIDE DEF q
  <2>4. q # 0
    BY <2>1, <2>2, <2>3
  <2> QED
    BY <2>4 DEF q
<1>5. Size(kg) \in Nat \ {0}
  BY <1>1, <1>2 DEF Size
<1> DEFINE t == SymbolCount(doc, kg)
<1> HIDE DEF t
<1>6. t * (kg * RS_N) = t * kg * RS_N /\ t * kg * RS_N = kg * t * RS_N
  BY <1>1, <1>3 DEF t
<1>7. t * (kg * RS_N) \in Nat
  BY <1>2, <1>3, <1>4, <1>5 DEF t, Size
<1> QED
  BY <1>1, <1>3, <1>4, <1>5, <1>6, <1>7 DEF t, PayloadOf, Size

\* The cells of symbol n + 1, and what a cell of a symbol tells.
LEMMA SlotIsWritten ==
    ASSUME NEW doc \in OpticalFiles, NEW kg \in Nat \ {0}, Blocks[doc] > 0,
           NEW n \in Nat, NEW p \in 0 .. Size(kg) - 1
    PROVE  /\ n < SymbolCount(doc, kg) =>
                  Written(doc, kg, 9 + n * Size(kg) + p + 1) = SymbolCell(doc, kg, n + 1, p)
           /\ ~ (n < SymbolCount(doc, kg)) => Written(doc, kg, 9 + n * Size(kg) + p + 1) = Zero
<1> DEFINE size == Size(kg)
           total == SymbolCount(doc, kg)
           payload == PayloadOf(doc, kg)
           b == 9 + n * size + p + 1
<1>1. size \in Nat \ {0} /\ total \in Nat \ {0} /\ payload \in Nat /\ payload = total * size
  BY SizesOfAFile DEF PayloadOf
<1> HIDE DEF size, total, payload
<1>2. p \in 0 .. size - 1
  BY DEF size
<1>3. n * size \in Nat /\ n * size + p \in Nat
      /\ (n * size + p) \div size = n /\ (n * size + p) % size = p
  BY <1>1, <1>2, InSlot
<1>4. b \in Nat /\ b - 9 - 1 = n * size + p /\ b > 9
  BY <1>2, <1>3
<1>5. n < total <=> n * size + size <= total * size
  BY <1>1, SlotEnds
<1>6. n * size < total * size => n < total
  BY <1>1, SlotEnds
<1>7. total * size \in Nat
  BY <1>1
<1>8. n < total <=> b <= 9 + payload
  BY <1>1, <1>2, <1>3, <1>5, <1>6, <1>7
<1>9. ~ (b <= 9)
  BY <1>4
<1> HIDE DEF b
<1>10. n < total => Written(doc, kg, b) = SymbolCell(doc, kg, n + 1, p)
  BY <1>3, <1>4, <1>8, <1>9, HeaderIsNine DEF Written, size, payload
<1>11. ~ (n < total) => Written(doc, kg, b) = Zero
  BY <1>8, <1>9, HeaderIsNine DEF Written, payload
<1> QED
  BY <1>10, <1>11 DEF b, size, total

LEMMA DistinctCells ==
    ASSUME NEW doc, NEW kg, NEW i, NEW p
    PROVE  /\ SymbolCell(doc, kg, i, p) # Zero /\ SymbolCell(doc, kg, i, p) # Wrong
           /\ \A g, l, j, q : SymbolCell(doc, kg, i, p) = SymbolCell(g, l, j, q) =>
                  doc = g /\ kg = l /\ i = j /\ p = q
BY DEF SymbolCell, Zero, Wrong

\* A symbol is decoded only where it was rendered: of each of its codewords one
\* byte at least is the one rendered.
LEMMA DecodedWhereRendered ==
    ASSUME NEW doc, NEW kg, Rendition(doc, kg),
           NEW K \in Nat \ {0}, K = Value("k_global"), NEW n \in Nat, NEW i,
           9 + n * Size(K) + Size(K) <= Len(image.cells),
           DecodesAs(9 + n * Size(K), i)
    PROVE  K = kg /\ i = n + 1 /\ n < SymbolCount(doc, kg)
<1> DEFINE start == 9 + n * Size(K)
           right(p) == image.cells[start + p + 1] = SymbolCell(doc, K, i, p)
           column == {p \in 0 .. K * RS_N - 1 : p % K = 0}
<1>1. doc \in OpticalFiles /\ kg \in Nat \ {0} /\ Blocks[doc] > 0 /\ request.file = doc
  BY OpticalAssumption DEF Rendition
<1>2. RS_N \in Nat \ {0} /\ Size(K) \in Nat \ {0} /\ Correctable \in Nat /\ Correctable < RS_N
  <2>1. RS_N \in Nat \ {0} /\ Correctable \in Nat /\ Correctable < RS_N
    BY OpticalAssumption
  <2> QED
    BY <2>1 DEF Size
<1>3. n * Size(K) \in Nat /\ start \in Nat
  BY <1>2
<1>4. PICK p \in 0 .. Size(K) - 1 : right(p)
  <2> SUFFICES ASSUME \A p \in 0 .. Size(K) - 1 : ~ right(p) PROVE FALSE
    OBVIOUS
  <2> DEFINE wrong == {p \in 0 .. SymbolSize - 1 :
                          p % K = 0 /\ image.cells[start + p + 1] #
                                           SymbolCell(request.file, K, i, p)}
  <2>1. SymbolSize = Size(K) /\ Size(K) = K * RS_N
    BY DEF SymbolSize, Size
  <2>2. Cardinality(wrong) <= Correctable
    <3>1. 0 \in 0 .. K - 1
      OBVIOUS
    <3> QED
      BY <3>1 DEF DecodesAs
  <2>3. wrong = column
    BY <1>1, <2>1
  <2>4. Cardinality(column) \in Nat /\ Cardinality(column) >= RS_N
    BY <1>2, CountInColumn
  <2> HIDE DEF wrong, column
  <2> QED
    BY <1>2, <2>2, <2>3, <2>4
<1> DEFINE b == start + p + 1
<1>5. b \in 1 .. Len(image.cells) /\ b > 9
  <2>1. Len(image.cells) \in Nat
    BY CellsAreSized DEF Rendition, Kept
  <2> QED
    BY <1>2, <1>3, <2>1
<1>6. image.cells[b] = Written(doc, kg, b)
  <2>1. image.cells[b] \in {Zero, Wrong, Written(doc, kg, b)}
    <3> HIDE DEF b
    <3> QED
      BY <1>5, HeaderIsNine DEF Rendition, Kept, KeptCell
  <2>2. image.cells[b] = SymbolCell(doc, K, i, p)
    BY <1>4
  <2> QED
    BY <2>1, <2>2, DistinctCells
<1>7. Written(doc, kg, b) = SymbolCell(doc, K, i, p)
  BY <1>4, <1>6
<1>8. K = kg
  <2>1. PICK j, q : Written(doc, kg, b) \in {Zero, SymbolCell(doc, kg, j, q)}
    <3>1. ~ (b <= OPTICAL_HEADER_LEN)
      BY <1>5, HeaderIsNine
    <3> HIDE DEF b
    <3>2. Written(doc, kg, b) \in
            {Zero, SymbolCell(doc, kg, ((b - OPTICAL_HEADER_LEN - 1) \div Size(kg)) + 1,
                              (b - OPTICAL_HEADER_LEN - 1) % Size(kg))}
      BY <3>1, Zenon DEF Written
    <3> QED
      BY <3>2, Zenon
  <2> QED
    BY <1>7, <2>1, DistinctCells
<1>9. b = 9 + n * Size(kg) + p + 1 /\ p \in 0 .. Size(kg) - 1
  BY <1>8
<1>10. n < SymbolCount(doc, kg) => Written(doc, kg, b) = SymbolCell(doc, kg, n + 1, p)
  BY <1>1, <1>9, SlotIsWritten
<1>11. ~ (n < SymbolCount(doc, kg)) => Written(doc, kg, b) = Zero
  BY <1>1, <1>9, SlotIsWritten
<1> QED
  BY <1>7, <1>8, <1>10, <1>11, DistinctCells

-----------------------------------------------------------------------------
(* Extracting.                                                             *)

\* What the original kept of the payload.
Payload(doc, kg) ==
    /\ Len(original.cells) >= OPTICAL_HEADER_LEN + PayloadOf(doc, kg)
    /\ \A b \in 1 .. Len(original.cells) : original.cells[b] = Written(doc, kg, b)
    /\ IsCells(original.cells)

\* The bytes of the codewords of symbol i that are not as rendered.
Damaged(doc, kg, i, j) ==
    {p \in 0 .. Size(kg) - 1 :
        p % kg = j /\ image.cells[9 + (i - 1) * Size(kg) + p + 1] # SymbolCell(doc, kg, i, p)}

Flagged(doc, kg, flags) == [HeaderOf(kg, SymbolCount(doc, kg)) EXCEPT !.flags = flags]
Flags == {0} \cup {v.flags : v \in Headers}

LEMMA HeadedIsPrefix ==
    ASSUME NEW v, IsCells(image.cells), Len(image.cells) >= 9
    PROVE  Headed(v) <=> SubSeq(image.cells, 1, OPTICAL_HEADER_LEN) = serialize_v1(v)
<1> DEFINE c == image.cells
           s == serialize_v1(v)
           t == SubSeq(c, 1, 9)
<1>1. IsCells(s) /\ Len(s) = 9
  BY Serialized
<1>2. Len(c) \in Nat
  BY CellsAreSized
<1>3. IsCells(t) /\ Len(t) = 9 /\ \A b \in 1 .. 9 : t[b] = c[b]
  <2> HIDE DEF c
  <2> QED
    BY <1>2, CutCells DEF c
<1> HIDE DEF s, t
<1>4. t = s => \A b \in 1 .. 9 : c[b] = s[b]
  BY <1>3
<1>5. ASSUME \A b \in 1 .. 9 : c[b] = s[b] PROVE t = s
  <2>1. Len(t) = Len(s) /\ \A b \in 1 .. Len(t) : t[b] = s[b]
    BY <1>1, <1>3, <1>5
  <2> QED
    BY <1>1, <1>3, <2>1, SameCells
<1> QED
  BY <1>4, <1>5, HeaderIsNine DEF Headed, s, t

\* Recoverable, of any doc and K.
TellsTheFile(doc, kg) ==
    LET total == SymbolCount(doc, kg)
        end == OPTICAL_HEADER_LEN + total * kg * RS_N
        wrong(i, j) == {p \in 0 .. kg * RS_N - 1 :
                           LET b == OPTICAL_HEADER_LEN + (i - 1) * kg * RS_N + p + 1
                           IN  p % kg = j /\ image.cells[b] # original.cells[b]}
    IN  /\ Len(image.cells) >= end
        /\ \E flags \in {0} \cup {v.flags : v \in Headers} :
               SubSeq(image.cells, 1, OPTICAL_HEADER_LEN) =
                   serialize_v1([HeaderOf(kg, total) EXCEPT !.flags = flags])
        /\ \A i \in 1 .. total, j \in 0 .. kg - 1 : Cardinality(wrong(i, j)) <= Correctable
        /\ \A b \in end + 1 .. Len(image.cells) : image.cells[b] = Zero

LEMMA RecoverableMeans ==
    ASSUME NEW doc, NEW kg, Rendition(doc, kg), Payload(doc, kg)
    PROVE  Recoverable <=>
             /\ Len(image.cells) >= 9 + PayloadOf(doc, kg)
             /\ \E flags \in Flags : Headed(Flagged(doc, kg, flags))
             /\ \A i \in 1 .. SymbolCount(doc, kg), j \in 0 .. kg - 1 :
                    Cardinality(Damaged(doc, kg, i, j)) <= Correctable
             /\ \A b \in 9 + PayloadOf(doc, kg) + 1 .. Len(image.cells) : image.cells[b] = Zero
<1> DEFINE total == SymbolCount(doc, kg)
           payload == PayloadOf(doc, kg)
           wrong(i, j) == {p \in 0 .. kg * RS_N - 1 :
                              LET b == OPTICAL_HEADER_LEN + (i - 1) * kg * RS_N + p + 1
                              IN  p % kg = j /\ image.cells[b] # original.cells[b]}
<1>1. doc \in OpticalFiles /\ kg \in Nat \ {0} /\ Blocks[doc] > 0 /\ request.file = doc /\ request.k = kg
  BY OpticalAssumption DEF Rendition
<1>2. /\ RS_N \in Nat \ {0} /\ Size(kg) \in Nat \ {0} /\ total \in Nat \ {0} /\ payload \in Nat
      /\ payload = total * kg * RS_N /\ payload = total * Size(kg)
  BY <1>1, SizesOfAFile DEF PayloadOf
<1>3. OPTICAL_HEADER_LEN + total * kg * RS_N = 9 + payload
  BY <1>2, HeaderIsNine
<1>4. IsCells(image.cells) /\ Len(image.cells) \in Nat /\ Len(original.cells) \in Nat
  BY CellsAreSized DEF Rendition, Kept, Payload
<1>5. ASSUME NEW i \in 1 .. total, NEW j \in 0 .. kg - 1 PROVE wrong(i, j) = Damaged(doc, kg, i, j)
  <2> DEFINE n == i - 1
  <2>1. n \in Nat /\ n < total /\ n + 1 = i
    BY <1>2
  <2>2. n * kg * RS_N = n * Size(kg)
    BY <1>1, <1>2, <2>1 DEF Size
  <2>3. kg * RS_N = Size(kg)
    BY DEF Size
  <2>4. ASSUME NEW p \in 0 .. Size(kg) - 1
        PROVE  /\ OPTICAL_HEADER_LEN + (i - 1) * kg * RS_N + p + 1 = 9 + (i - 1) * Size(kg) + p + 1
               /\ original.cells[9 + (i - 1) * Size(kg) + p + 1] = SymbolCell(doc, kg, i, p)
    <3> DEFINE b == 9 + n * Size(kg) + p + 1
    <3>1. OPTICAL_HEADER_LEN + n * kg * RS_N + p + 1 = b
      BY <2>2, HeaderIsNine
    <3>2. Written(doc, kg, b) = SymbolCell(doc, kg, n + 1, p)
      BY <1>1, <2>1, SlotIsWritten
    <3>3. n * Size(kg) + Size(kg) <= total * Size(kg)
      BY <1>2, <2>1, SlotEnds
    <3>4. n * Size(kg) \in Nat
      BY <1>2, <2>1
    <3>5. Len(original.cells) >= 9 + payload
      BY HeaderIsNine DEF Payload
    <3>0. \A m, z, y, l \in Nat : \A q \in 0 .. z - 1 :
             m + z <= y /\ l >= 9 + y => 9 + m + q + 1 \in 1 .. l
      OBVIOUS
    <3>9. n * Size(kg) + Size(kg) <= payload /\ Size(kg) \in Nat
      BY <1>2, <3>3
    <3> HIDE DEF n, payload
    <3>6. b \in 1 .. Len(original.cells)
      BY <1>2, <1>4, <3>0, <3>4, <3>5, <3>9
    <3>7. original.cells[b] = Written(doc, kg, b)
      <4> HIDE DEF b
      <4> QED
        BY <3>6 DEF Payload
    <3> QED
      BY <2>1, <3>1, <3>2, <3>7 DEF n
  <2>5. wrong(i, j) = {p \in 0 .. Size(kg) - 1 :
                         p % kg = j /\ image.cells[9 + (i - 1) * Size(kg) + p + 1] #
                                          SymbolCell(doc, kg, i, p)}
    <3> HIDE DEF n
    <3> QED
      BY <2>3, <2>4
  <2> QED
    BY <2>5 DEF Damaged
<1>6. Len(image.cells) >= 9 + payload =>
        ((\E flags \in Flags : Headed(Flagged(doc, kg, flags))) <=>
            \E flags \in {0} \cup {v.flags : v \in Headers} :
               SubSeq(image.cells, 1, OPTICAL_HEADER_LEN) =
                   serialize_v1([HeaderOf(kg, total) EXCEPT !.flags = flags]))
  <2> SUFFICES ASSUME Len(image.cells) >= 9 + payload
               PROVE  \A flags : Headed(Flagged(doc, kg, flags)) <=>
                          SubSeq(image.cells, 1, OPTICAL_HEADER_LEN) =
                             serialize_v1([HeaderOf(kg, total) EXCEPT !.flags = flags])
    BY Zenon DEF Flags
  <2>1. Len(image.cells) >= 9
    BY <1>2, <1>4
  <2> QED
    BY <1>4, <2>1, HeadedIsPrefix DEF Flagged
<1> DEFINE A == Len(image.cells) >= 9 + payload
           B == \E flags \in {0} \cup {v.flags : v \in Headers} :
                   SubSeq(image.cells, 1, OPTICAL_HEADER_LEN) =
                       serialize_v1([HeaderOf(kg, total) EXCEPT !.flags = flags])
           C == \A i \in 1 .. total, j \in 0 .. kg - 1 : Cardinality(wrong(i, j)) <= Correctable
           D == \A b \in 9 + payload + 1 .. Len(image.cells) : image.cells[b] = Zero
<1>7. Recoverable <=> A /\ B /\ C /\ D
  <2>1. Recoverable <=> TellsTheFile(request.file, request.k)
    BY DEF Recoverable, TellsTheFile
  <2>2. Recoverable <=> TellsTheFile(doc, kg)
    BY <1>1, <2>1
  <2> HIDE DEF wrong
  <2>3. TellsTheFile(doc, kg) <=> A /\ B /\ C /\ D
    BY <1>3, Zenon DEF TellsTheFile, wrong
  <2> QED
    BY <2>2, <2>3
<1>8. C <=> \A i \in 1 .. total, j \in 0 .. kg - 1 :
               Cardinality(Damaged(doc, kg, i, j)) <= Correctable
  <2> HIDE DEF wrong
  <2> QED
    BY <1>5
<1>9. A => (B <=> \E flags \in Flags : Headed(Flagged(doc, kg, flags)))
  BY <1>6
<1> HIDE DEF B, C
<1> QED
  BY <1>7, <1>8, <1>9

\* What extract does with a consistent container long enough.
Extracts(doc, K, T) ==
    /\ \A n \in 0 .. T - 1 : Decoded(9 + n * Size(K)) # {}
    /\ UNION {Decoded(9 + n * Size(K)) : n \in 0 .. T - 1} = 1 .. SymbolCount(doc, K)

LEMMA ExtractMeans ==
    ASSUME NEW doc, NEW kg, Rendition(doc, kg), NEW v, Headed(v), image # Unreadable,
           Consistent(v), v.k_global \in Nat, v.total_symbols \in Nat
    PROVE  LET end == 9 + v.payload_len
           IN  /\ ExtractResult # <<"panic">>
               /\ ExtractResult = <<"Extracted", doc>> <=>
                    /\ end <= Len(image.cells)
                    /\ \A b \in end + 1 .. Len(image.cells) : image.cells[b] = Zero
                    /\ Extracts(doc, v.k_global, v.total_symbols)
<1> DEFINE K == v.k_global
           T == v.total_symbols
           end == 9 + v.payload_len
<1>1. /\ Value("k_global") = K /\ Value("total_symbols") = T
      /\ Value("payload_len") = v.payload_len /\ ContainerError = <<"none">>
  BY ReadsTheHeader
<1>2. K \in Nat \ {0} /\ T \in Nat \ {0} /\ v.payload_len = K * T * RS_N
  BY DEF Consistent
<1>3. RS_N \in Nat \ {0}
  BY OpticalAssumption
<1> HIDE DEF K, T
<1>4. Size(K) \in Nat \ {0} /\ v.payload_len = T * Size(K) /\ v.payload_len \in Nat
  <2>1. \A a, b \in Nat \ {0} : a * b \in Nat \ {0}
    OBVIOUS
  <2>2. Size(K) \in Nat \ {0}
    BY <1>2, <1>3, <2>1 DEF Size
  <2>3. T * Size(K) \in Nat
    BY <1>2, <2>2
  <2>4. K * T * RS_N = T * (K * RS_N)
    BY <1>2, <1>3
  <2> QED
    BY <1>2, <2>2, <2>3, <2>4 DEF Size
<1>5. SymbolSize = Size(K) /\ PayloadEnd = end /\ request.file = doc
  BY <1>1, HeaderIsNine DEF SymbolSize, Size, PayloadEnd, Rendition
<1>6. Starts = {9 + n * Size(K) : n \in 0 .. T - 1}
  BY <1>1, <1>5, HeaderIsNine DEF Starts
<1>7. Len(image.cells) \in Nat
  BY CellsAreSized DEF Headed
<1>8. PayloadEnd <= Len(image.cells) =>
        ~ \E start \in Starts : start + SymbolSize > Len(image.cells)
  <2> SUFFICES ASSUME PayloadEnd <= Len(image.cells), NEW n \in 0 .. T - 1
               PROVE  ~ (9 + n * Size(K) + Size(K) > Len(image.cells))
    BY <1>5, <1>6
  <2>1. n \in Nat /\ n < T
    BY <1>2
  <2>2. n * Size(K) + Size(K) <= T * Size(K)
    BY <1>2, <1>4, <2>1, SlotEnds
  <2>3. n * Size(K) \in Nat
    BY <1>4, <2>1
  <2> QED
    BY <1>4, <1>5, <1>7, <2>2, <2>3
<1> DEFINE A == end <= Len(image.cells)
           B == \A b \in end + 1 .. Len(image.cells) : image.cells[b] = Zero
           C == \A start \in Starts : Decoded(start) # {}
           D == UNION {Decoded(start) : start \in Starts} = 1 .. SymbolCount(doc, K)
<1>9. C /\ D <=> Extracts(doc, K, T)
  BY <1>6 DEF Extracts
<1>10. ~ (PayloadEnd > Len(image.cells)) <=> A
  BY <1>4, <1>5, <1>7
<1>11. ExtractResult # <<"panic">> /\ (ExtractResult = <<"Extracted", doc>> <=> A /\ B /\ C /\ D)
  BY <1>1, <1>5, <1>8, <1>10, Zenon DEF ExtractResult
<1> QED
  BY <1>9, <1>11 DEF K, T

LEMMA DecodesUndamaged ==
    ASSUME NEW doc, NEW kg \in Nat \ {0}, request.file = doc, Value("k_global") = kg, NEW i
    PROVE  DecodesAs(9 + (i - 1) * Size(kg), i) <=>
               \A j \in 0 .. kg - 1 : Cardinality(Damaged(doc, kg, i, j)) <= Correctable
<1> DEFINE start == 9 + (i - 1) * Size(kg)
           wrong(j) == {p \in 0 .. SymbolSize - 1 :
                           p % kg = j /\ image.cells[start + p + 1] #
                                            SymbolCell(request.file, kg, i, p)}
<1>1. SymbolSize = Size(kg)
  BY DEF SymbolSize, Size
<1>2. ASSUME NEW j PROVE wrong(j) = Damaged(doc, kg, i, j)
  BY <1>1 DEF Damaged
<1>3. DecodesAs(start, i) <=> \A j \in 0 .. kg - 1 : Cardinality(wrong(j)) <= Correctable
  BY DEF DecodesAs
<1> HIDE DEF wrong, start
<1>4. DecodesAs(start, i) <=>
        \A j \in 0 .. kg - 1 : Cardinality(Damaged(doc, kg, i, j)) <= Correctable
  BY <1>2, <1>3
<1> QED
  BY <1>4 DEF start

LEMMA SameHeader ==
    ASSUME NEW v, NEW doc, NEW kg,
           v.reserved = 0, v.k_global = kg, v.total_symbols = SymbolCount(doc, kg),
           v.payload_len = SymbolCount(doc, kg) * kg * RS_N
    PROVE  serialize_v1(v) = serialize_v1(Flagged(doc, kg, v.flags))
<1> DEFINE w == Flagged(doc, kg, v.flags)
<1>1. /\ w.flags = v.flags /\ w.k_global = v.k_global /\ w.total_symbols = v.total_symbols
      /\ w.reserved = v.reserved /\ w.payload_len = v.payload_len
  BY DEF Flagged, HeaderOf
<1> HIDE DEF w
<1>2. serialize_v1(v) = serialize_v1(w)
  BY <1>1 DEF serialize_v1
<1> QED
  BY <1>2 DEF w

LEMMA FlaggedIsConsistent ==
    ASSUME NEW doc \in OpticalFiles, NEW kg \in Nat \ {0}, Blocks[doc] > 0, NEW flags
    PROVE  /\ Consistent(Flagged(doc, kg, flags))
           /\ Flagged(doc, kg, flags).k_global = kg
           /\ Flagged(doc, kg, flags).total_symbols = SymbolCount(doc, kg)
           /\ Flagged(doc, kg, flags).payload_len = PayloadOf(doc, kg)
<1> DEFINE w == Flagged(doc, kg, flags)
<1>1. /\ w.k_global = kg /\ w.total_symbols = SymbolCount(doc, kg) /\ w.reserved = 0
      /\ w.payload_len = SymbolCount(doc, kg) * kg * RS_N
  BY DEF Flagged, HeaderOf
<1>2. /\ SymbolCount(doc, kg) \in Nat \ {0}
      /\ PayloadOf(doc, kg) = SymbolCount(doc, kg) * kg * RS_N
      /\ PayloadOf(doc, kg) = kg * SymbolCount(doc, kg) * RS_N
  BY SizesOfAFile
<1> HIDE DEF w
<1>3. w.payload_len = w.k_global * w.total_symbols * RS_N
  BY <1>1, <1>2, Zenon
<1>4. Consistent(w)
  BY <1>1, <1>2, <1>3 DEF Consistent
<1> QED
  BY <1>1, <1>2, <1>4 DEF w

\* The writers of a header tell numbers.
LEMMA WritersTellNumbers ==
    ASSUME NEW doc \in OpticalFiles, NEW kg \in Nat \ {0}, Blocks[doc] > 0,
           NEW v \in Writers(doc, kg)
    PROVE  v.k_global \in Nat /\ v.total_symbols \in Nat /\ v.flags \in Flags
<1>1. CASE v \in Headers
  <2>1. v \in [flags : Nat, k_global : Nat, total_symbols : Nat, reserved : Nat,
               payload_len : Nat]
    BY <1>1, OpticalAssumption
  <2> QED
    BY <1>1, <2>1 DEF Flags
<1>2. CASE v = HeaderOf(kg, SymbolCount(doc, kg))
  <2>1. SymbolCount(doc, kg) \in Nat
    BY SizesOfAFile
  <2> QED
    BY <1>2, <2>1 DEF HeaderOf, Flags
<1> QED
  BY <1>1, <1>2 DEF Writers

LEMMA ExtractedIsRecoverable ==
    ASSUME NEW doc, NEW kg, Rendition(doc, kg), Payload(doc, kg),
           NEW v \in Writers(doc, kg), Headed(v), image # Unreadable, Consistent(v),
           ExtractResult = <<"Extracted", doc>>
    PROVE  Recoverable
<1> DEFINE K == v.k_global
           T == v.total_symbols
           total == SymbolCount(doc, kg)
<1>1. doc \in OpticalFiles /\ kg \in Nat \ {0} /\ Blocks[doc] > 0 /\ request.file = doc
  BY OpticalAssumption DEF Rendition
<1>2. K \in Nat \ {0} /\ T \in Nat \ {0} /\ v.flags \in Flags
  BY <1>1, WritersTellNumbers DEF Consistent
<1>3. Value("k_global") = K
  BY ReadsTheHeader
<1>4. /\ 9 + v.payload_len <= Len(image.cells)
      /\ \A b \in 9 + v.payload_len + 1 .. Len(image.cells) : image.cells[b] = Zero
      /\ Extracts(doc, K, T)
  BY <1>2, ExtractMeans
<1>5. total \in Nat \ {0} /\ RS_N \in Nat \ {0}
  BY <1>1, SizesOfAFile
<1>6. v.payload_len = K * T * RS_N /\ v.reserved = 0
  BY DEF Consistent
<1>7. Len(image.cells) \in Nat
  BY CellsAreSized DEF Headed
<1> HIDE DEF K, T, total
<1>8. Size(K) \in Nat \ {0} /\ v.payload_len = T * Size(K)
  <2>1. \A a, b \in Nat \ {0} : a * b \in Nat \ {0}
    OBVIOUS
  <2>2. K * T * RS_N = T * (K * RS_N)
    BY <1>2, <1>5
  <2> QED
    BY <1>2, <1>5, <1>6, <2>1, <2>2 DEF Size
<1>9. ASSUME NEW n \in 0 .. T - 1, NEW i \in Decoded(9 + n * Size(K))
      PROVE  K = kg /\ i = n + 1 /\ n < total
  <2>1. n \in Nat /\ n < T
    BY <1>2
  <2>2. n * Size(K) + Size(K) <= T * Size(K) /\ n * Size(K) \in Nat
    BY <1>2, <1>8, <2>1, SlotEnds
  <2>3. 9 + n * Size(K) + Size(K) <= Len(image.cells)
    <3>1. \A m, z, y, l \in Nat : m + z <= y /\ 9 + y <= l => 9 + m + z <= l
      OBVIOUS
    <3>2. T * Size(K) \in Nat /\ 9 + T * Size(K) <= Len(image.cells)
      BY <1>2, <1>4, <1>8
    <3> QED
      BY <1>7, <1>8, <2>2, <3>1, <3>2
  <2>4. DecodesAs(9 + n * Size(K), i)
    BY DEF Decoded
  <2> QED
    BY <1>2, <1>3, <2>1, <2>3, <2>4, DecodedWhereRendered DEF total
<1>10. \A n \in 0 .. T - 1 : n + 1 \in Decoded(9 + n * Size(K)) /\ K = kg /\ n < total
  <2> SUFFICES ASSUME NEW n \in 0 .. T - 1
               PROVE  n + 1 \in Decoded(9 + n * Size(K)) /\ K = kg /\ n < total
    OBVIOUS
  <2>1. PICK i : i \in Decoded(9 + n * Size(K))
    BY <1>4 DEF Extracts
  <2> QED
    BY <1>9, <2>1
<1>11. K = kg /\ T <= total
  <2>1. T - 1 \in 0 .. T - 1
    BY <1>2
  <2>2. K = kg /\ T - 1 < total
    BY <1>10, <2>1
  <2> QED
    BY <1>2, <1>5, <2>2
<1>12. total <= T
  <2>1. total \in 1 .. SymbolCount(doc, K)
    BY <1>5, <1>11 DEF total
  <2>2. PICK n \in 0 .. T - 1 : total \in Decoded(9 + n * Size(K))
    BY <1>4, <2>1 DEF Extracts
  <2>3. total = n + 1
    BY <1>9, <2>2
  <2> QED
    BY <1>2, <2>3
<1>13. T = total
  BY <1>2, <1>5, <1>11, <1>12
<1>14. v.payload_len = PayloadOf(doc, kg) /\ PayloadOf(doc, kg) = total * kg * RS_N
  BY <1>1, <1>8, <1>11, <1>13, SizesOfAFile DEF PayloadOf, total
<1>15. Headed(Flagged(doc, kg, v.flags))
  <2>1. serialize_v1(v) = serialize_v1(Flagged(doc, kg, v.flags))
    BY <1>6, <1>11, <1>13, <1>14, SameHeader DEF K, T, total
  <2> QED
    BY <2>1 DEF Headed
<1>16. \A i \in 1 .. total, j \in 0 .. kg - 1 : Cardinality(Damaged(doc, kg, i, j)) <= Correctable
  <2> SUFFICES ASSUME NEW i \in 1 .. total
               PROVE  \A j \in 0 .. kg - 1 : Cardinality(Damaged(doc, kg, i, j)) <= Correctable
    OBVIOUS
  <2>1. i - 1 \in 0 .. T - 1 /\ (i - 1) + 1 = i
    BY <1>5, <1>13
  <2>2. i \in Decoded(9 + (i - 1) * Size(K))
    <3>1. (i - 1) + 1 \in Decoded(9 + (i - 1) * Size(K))
      BY <1>10, <2>1
    <3> QED
      BY <2>1, <3>1
  <2>3. DecodesAs(9 + (i - 1) * Size(kg), i)
    BY <1>11, <2>2 DEF Decoded
  <2> QED
    BY <1>1, <1>3, <1>11, <2>3, DecodesUndamaged
<1> QED
  BY <1>2, <1>4, <1>14, <1>15, <1>16, RecoverableMeans DEF total

LEMMA RecoverableIsExtracted ==
    ASSUME NEW doc, NEW kg, Rendition(doc, kg), Payload(doc, kg), Recoverable
    PROVE  ContainerError = <<"none">> /\ ExtractResult = <<"Extracted", doc>>
<1> DEFINE total == SymbolCount(doc, kg)
<1>1. doc \in OpticalFiles /\ kg \in Nat \ {0} /\ Blocks[doc] > 0 /\ request.file = doc
  BY OpticalAssumption DEF Rendition
<1>2. /\ Len(image.cells) >= 9 + PayloadOf(doc, kg)
      /\ \E flags \in Flags : Headed(Flagged(doc, kg, flags))
      /\ \A i \in 1 .. SymbolCount(doc, kg), j \in 0 .. kg - 1 :
             Cardinality(Damaged(doc, kg, i, j)) <= Correctable
      /\ \A b \in 9 + PayloadOf(doc, kg) + 1 .. Len(image.cells) : image.cells[b] = Zero
  BY RecoverableMeans, Zenon
<1>3. PICK flags \in Flags : Headed(Flagged(doc, kg, flags))
  BY <1>2
<1> DEFINE w == Flagged(doc, kg, flags)
<1>4. /\ Consistent(w) /\ w.k_global = kg /\ w.total_symbols = total
      /\ w.payload_len = PayloadOf(doc, kg)
  BY <1>1, FlaggedIsConsistent
<1>5. total \in Nat \ {0} /\ PayloadOf(doc, kg) \in Nat
  BY <1>1, SizesOfAFile
<1>6. Len(image.cells) \in Nat
  BY CellsAreSized DEF Rendition, Kept
<1>7. image # Unreadable
  <2>1. Len(image.cells) # 0
    BY <1>2, <1>5, <1>6
  <2> QED
    BY <2>1 DEF Unreadable
<1>8. Headed(w) /\ w.k_global \in Nat /\ w.total_symbols \in Nat
  BY <1>1, <1>3, <1>4, <1>5
<1> HIDE DEF w, total
<1>9. ContainerError = <<"none">> /\ Value("k_global") = kg
  BY <1>4, <1>7, <1>8, ReadsTheHeader
<1>10. \A n \in 0 .. total - 1 : n + 1 \in Decoded(9 + n * Size(kg))
  <2> SUFFICES ASSUME NEW n \in 0 .. total - 1
               PROVE  n + 1 \in Decoded(9 + n * Size(kg))
    OBVIOUS
  <2> DEFINE i == n + 1
  <2>1. i \in 1 .. total /\ i - 1 = n
    BY <1>5
  <2> HIDE DEF i
  <2>2. \A j \in 0 .. kg - 1 : Cardinality(Damaged(doc, kg, i, j)) <= Correctable
    BY <1>2, <2>1 DEF total
  <2>3. DecodesAs(9 + (i - 1) * Size(kg), i)
    BY <1>1, <1>9, <2>2, DecodesUndamaged
  <2>4. i \in Decoded(9 + n * Size(kg))
    BY <1>1, <1>9, <2>1, <2>3 DEF Decoded, total
  <2> QED
    BY <2>4 DEF i
<1>11. Extracts(doc, kg, total)
  <2>1. UNION {Decoded(9 + n * Size(kg)) : n \in 0 .. total - 1} \subseteq 1 .. total
    BY <1>1, <1>9 DEF Decoded, total
  <2>2. ASSUME NEW i \in 1 .. total
        PROVE  i \in UNION {Decoded(9 + n * Size(kg)) : n \in 0 .. total - 1}
    <3>1. i - 1 \in 0 .. total - 1 /\ (i - 1) + 1 = i
      BY <1>5
    <3>2. (i - 1) + 1 \in Decoded(9 + (i - 1) * Size(kg))
      BY <1>10, <3>1
    <3>3. i \in Decoded(9 + (i - 1) * Size(kg))
      BY <3>1, <3>2
    <3> QED
      BY <3>1, <3>3
  <2>3. UNION {Decoded(9 + n * Size(kg)) : n \in 0 .. total - 1} = 1 .. total
    BY <2>1, <2>2
  <2>4. \A n \in 0 .. total - 1 : Decoded(9 + n * Size(kg)) # {}
    BY <1>10
  <2> QED
    BY <2>3, <2>4 DEF Extracts, total
<1>12. ExtractResult = <<"Extracted", doc>>
  <2>1. /\ 9 + w.payload_len <= Len(image.cells)
        /\ \A b \in 9 + w.payload_len + 1 .. Len(image.cells) : image.cells[b] = Zero
    BY <1>2, <1>4, <1>5, <1>6
  <2> QED
    BY <1>4, <1>7, <1>8, <1>11, <2>1, ExtractMeans
<1> QED
  BY <1>9, <1>12

LEMMA ExtractIsRight ==
    ASSUME NEW doc, NEW kg, Rendition(doc, kg), Payload(doc, kg)
    PROVE  /\ Recoverable <=> ExtractResult = <<"Extracted", doc>>
           /\ ExtractResult # <<"panic">>
<1>1. Recoverable => ExtractResult = <<"Extracted", doc>>
  BY RecoverableIsExtracted
<1>2. CASE ContainerError # <<"none">>
  <2>1. ExtractResult = ContainerError
    BY <1>2 DEF ExtractResult
  <2>2. ContainerError[1] # "Extracted" /\ ContainerError[1] # "panic"
    BY DEF ContainerError
  <2>3. ExtractResult # <<"Extracted", doc>> /\ ExtractResult # <<"panic">>
    BY <2>1, <2>2
  <2> QED
    BY <1>1, <2>3
<1>3. CASE ContainerError = <<"none">>
  <2>1. Kept(doc, kg)
    BY DEF Rendition
  <2>2. image # Unreadable /\ \E v \in Writers(doc, kg) : Headed(v)
    BY <1>3, <2>1, CrcTellsTheHeader
  <2>3. PICK v \in Writers(doc, kg) : Headed(v)
    BY <2>2
  <2>4. Consistent(v)
    BY <1>3, <2>3, ReadsTheHeader
  <2>5. v.k_global \in Nat /\ v.total_symbols \in Nat
    BY WritersTellNumbers, OpticalAssumption DEF Rendition
  <2>6. ExtractResult # <<"panic">>
    BY <2>2, <2>3, <2>4, <2>5, ExtractMeans
  <2>7. ExtractResult = <<"Extracted", doc>> => Recoverable
    BY <2>2, <2>3, <2>4, ExtractedIsRecoverable
  <2> QED
    BY <1>1, <2>6, <2>7
<1> QED
  BY <1>2, <1>3

-----------------------------------------------------------------------------
(* The image at every step.                                                *)

IsRaster(i) ==
    /\ DOMAIN i = {"width", "height", "cells"}
    /\ i.width \in Nat /\ i.height \in Nat /\ IsCells(i.cells)
    /\ Len(i.cells) = PixelBytes(i.width, i.height)

Container ==
    /\ IsRaster(image)
    /\ command = "none" => original = Unreadable
    /\ original = Unreadable => image = Unreadable
    /\ original # Unreadable =>
           Rendition(request.file, request.k) /\ Payload(request.file, request.k)
    /\ command = "extract" => original # Unreadable /\ result = ExtractResult

LEMMA UnreadableIsRaster == IsRaster(Unreadable) /\ Len(Unreadable.cells) = 0
<1>1. <<>> \in Seq({}) /\ Len(<<>>) = 0
  OBVIOUS
<1>2. IsCells(<<>>)
  BY <1>1 DEF IsCells
<1> QED
  BY <1>1, <1>2 DEF IsRaster, Unreadable, PixelBytes, BYTES_PER_PIXEL

LEMMA ChangeKeeps ==
    ASSUME Container, NEW changed, Change(changed), IsRaster(changed),
           \A b \in 1 .. Len(changed.cells) :
               KeptCell(changed.cells[b], b, request.file, request.k)
    PROVE  Container'
<1>1. /\ image # Unreadable /\ image' = changed /\ command' = "changed"
      /\ request' = request /\ original' = original
  BY DEF Change
<1>2. original # Unreadable /\ Rendition(request.file, request.k)
      /\ Payload(request.file, request.k)
  BY <1>1 DEF Container
<1>3. IsRaster(image)' /\ IsCells(changed.cells)
  BY <1>1 DEF IsRaster
<1>4. Kept(request.file, request.k)'
  BY <1>1, <1>3 DEF Kept, IsCells, KeptCell, Written, SymbolCell
<1>5. Rendition(request.file, request.k)'
  BY <1>1, <1>2, <1>4 DEF Rendition
<1>6. Payload(request.file, request.k)'
  BY <1>1, <1>2 DEF Payload, IsCells
<1> QED
  BY <1>1, <1>2, <1>3, <1>5, <1>6 DEF Container

\* Another doc, K or image is what the answer of extract may change with.
LEMMA UnchangedAnswer ==
    ASSUME UNCHANGED <<request, image>>
    PROVE  ExtractResult' = ExtractResult
<1>1. image' = image /\ request' = request
  OBVIOUS
<1>2. ASSUME NEW name PROVE Value(name)' = Value(name) /\ Field(name)' = Field(name)
  BY <1>1, Zenon DEF Value, Field
<1>3. SymbolSize' = SymbolSize /\ PayloadEnd' = PayloadEnd
  BY <1>2 DEF SymbolSize, PayloadEnd
<1>4. ContainerError' = ContainerError
  <2>1. Covered' = Covered
    BY <1>1 DEF Covered
  <2>2. \A name, value : Holds(name, value)' = Holds(name, value)
    BY <1>2 DEF Holds
  <2> QED
    BY <1>1, <1>2, <2>1, <2>2 DEF ContainerError, validate_payload_len, Holds
<1>5. ASSUME NEW start PROVE Decoded(start)' = Decoded(start)
  <2>1. ASSUME NEW i PROVE DecodesAs(start, i)' <=> DecodesAs(start, i)
    <3> DEFINE kg == Value("k_global")
               wrong(j) == {p \in 0 .. SymbolSize - 1 :
                               p % kg = j /\ image.cells[start + p + 1] #
                                                SymbolCell(request.file, kg, i, p)}
    <3>1. kg' = kg
      BY <1>2
    <3>2. \A j : wrong(j)' = wrong(j)
      <4> HIDE DEF kg
      <4> QED
        BY <1>1, <1>3, <3>1 DEF SymbolCell
    <3>3. DecodesAs(start, i) <=> \A j \in 0 .. kg - 1 : Cardinality(wrong(j)) <= Correctable
      BY DEF DecodesAs
    <3>4. DecodesAs(start, i)' <=>
            \A j \in 0 .. kg' - 1 : Cardinality(wrong(j)') <= Correctable
      BY DEF DecodesAs
    <3> HIDE DEF kg, wrong
    <3> QED
      BY <3>1, <3>2, <3>3, <3>4
  <2>2. SymbolCount(request.file, Value("k_global"))' =
            SymbolCount(request.file, Value("k_global"))
    BY <1>1, <1>2 DEF SymbolCount
  <2> QED
    BY <2>1, <2>2 DEF Decoded
<1>6. Starts' = Starts
  BY <1>2, <1>3 DEF Starts
<1>7. UNION {Decoded(start)' : start \in Starts} = UNION {Decoded(start) : start \in Starts}
  BY <1>5
<1>8. SymbolCount(request.file, Value("k_global"))' =
          SymbolCount(request.file, Value("k_global"))
  BY <1>1, <1>2 DEF SymbolCount
<1>9. (UNION {Decoded(start) : start \in Starts})' = UNION {Decoded(start) : start \in Starts}
  BY <1>6, <1>7
<1>10. (\E start \in Starts : Decoded(start) = {})' <=> \E start \in Starts : Decoded(start) = {}
  BY <1>5, <1>6
<1> DEFINE padding == \E b \in PayloadEnd + 1 .. Len(image.cells) : image.cells[b] # Zero
           past == \E start \in Starts : start + SymbolSize > Len(image.cells)
           empty == \E start \in Starts : Decoded(start) = {}
           all == UNION {Decoded(start) : start \in Starts} =
                      1 .. SymbolCount(request.file, Value("k_global"))
<1>11. padding' = padding /\ past' = past
  BY <1>1, <1>3, <1>6 DEF Zero
<1>12. ExtractResult =
         IF ContainerError # <<"none">> THEN ContainerError
         ELSE IF PayloadEnd > Len(image.cells) THEN <<"PayloadTruncated">>
         ELSE IF padding THEN <<"PaddingNotZero">>
         ELSE IF past THEN <<"panic">>
         ELSE IF empty THEN <<"CodecError">>
         ELSE IF ~ all THEN <<"MissingSymbols">>
         ELSE <<"Extracted", request.file>>
  BY Zenon DEF ExtractResult
<1>13. ExtractResult' =
         IF ContainerError' # <<"none">> THEN ContainerError'
         ELSE IF PayloadEnd' > Len(image'.cells) THEN <<"PayloadTruncated">>
         ELSE IF padding' THEN <<"PaddingNotZero">>
         ELSE IF past' THEN <<"panic">>
         ELSE IF empty' THEN <<"CodecError">>
         ELSE IF ~ all' THEN <<"MissingSymbols">>
         ELSE <<"Extracted", request'.file>>
  BY Zenon DEF ExtractResult
<1>14. (empty' <=> empty) /\ (all' <=> all)
  BY <1>8, <1>9, <1>10
<1> HIDE DEF padding, past, empty, all
<1> QED
  BY <1>1, <1>3, <1>4, <1>11, <1>12, <1>13, <1>14

LEMMA UnchangedKeeps ==
    ASSUME Container, UNCHANGED <<request, image, original>>
    PROVE  /\ IsRaster(image)'
           /\ (original = Unreadable => image = Unreadable)'
           /\ (original # Unreadable =>
                  Rendition(request.file, request.k) /\ Payload(request.file, request.k))'
<1>1. image' = image /\ request' = request /\ original' = original
  OBVIOUS
<1>2. IsRaster(image)' <=> IsRaster(image)
  BY <1>1 DEF IsRaster, IsCells
<1>3. Rendition(request.file, request.k)' <=> Rendition(request.file, request.k)
  BY <1>1 DEF Rendition, Kept, IsCells, KeptCell, Written, SymbolCell
<1>4. Payload(request.file, request.k)' <=> Payload(request.file, request.k)
  BY <1>1 DEF Payload, IsCells, Written, SymbolCell
<1> QED
  BY <1>1, <1>2, <1>3, <1>4 DEF Container

LEMMA RenderKeeps ==
    ASSUME Container, NEW doc \in OpticalFiles, NEW kg \in Ks, NEW shape \in Shapes,
           NEW checked \in BOOLEAN, Render(doc, kg, shape, checked)
    PROVE  Container'
<1> DEFINE dims == Dimensions(doc, kg, shape, checked)
           cells == Padded(FlatStream(doc, kg), dims[2], dims[3])
           rendered == [width |-> dims[2], height |-> dims[3], cells |-> cells]
<1>1. /\ command = "none" /\ command' = "render"
      /\ request' = [file |-> doc, k |-> kg, shape |-> shape]
  BY DEF Render
<1>2. request'.file = doc /\ request'.k = kg
  BY <1>1
<1>3. CASE dims[1] # "Dimensions"
  <2>1. image' = image /\ original' = original
    BY <1>3 DEF Render
  <2>2. original = Unreadable
    BY <1>1 DEF Render, Container
  <2> QED
    BY <1>1, <2>1, <2>2 DEF Container, IsRaster, IsCells
<1>4. CASE dims[1] = "Dimensions"
  <2>1. image' = rendered /\ original' = rendered
    BY <1>4 DEF Render
  <2> DEFINE payload == SymbolCount(doc, kg) * kg * RS_N
  <2>2. /\ shape.kind # "malformed" /\ kg \in 1 .. MAX_K /\ Blocks[doc] # 0
        /\ dims = Framed(compute_dimensions(shape, OPTICAL_HEADER_LEN + payload, checked))
    BY <1>4, Zenon DEF Dimensions
  <2>3. kg \in Nat \ {0} /\ Blocks[doc] > 0
    BY <2>2, OpticalAssumption
  <2>4. payload \in Nat /\ payload = PayloadOf(doc, kg)
    BY <2>3, SizesOfAFile
  <2> HIDE DEF payload, dims
  <2>5. OPTICAL_HEADER_LEN + payload \in Nat \ {0}
    BY <2>4, HeaderIsNine
  <2>6. shape \in ShapeType
    BY <2>2, OpticalAssumption DEF ShapeType
  <2>7. Smallest(shape, OPTICAL_HEADER_LEN + payload, dims)
    BY <2>2, <2>5, <2>6, DimensionsAreSmallest
  <2>8. /\ dims[2] \in Nat /\ dims[3] \in Nat
        /\ PixelBytes(dims[2], dims[3]) >= OPTICAL_HEADER_LEN + payload
    BY <1>4, <2>7 DEF Smallest, Holding
  <2>9. /\ IsCells(cells) /\ Len(cells) = PixelBytes(dims[2], dims[3])
        /\ \A b \in 1 .. Len(cells) : cells[b] = Written(doc, kg, b)
    <3>1. ASSUME NEW w \in Nat, NEW h \in Nat
          PROVE  /\ IsCells(Padded(FlatStream(doc, kg), w, h))
                 /\ Len(Padded(FlatStream(doc, kg), w, h)) = PixelBytes(w, h)
                 /\ \A b \in 1 .. Len(Padded(FlatStream(doc, kg), w, h)) :
                        Padded(FlatStream(doc, kg), w, h)[b] = Written(doc, kg, b)
      BY <2>3, RenderWrites
    <3> QED
      BY <2>8, <3>1
  <2> HIDE DEF cells
  <2>10. DOMAIN rendered = {"width", "height", "cells"} /\ rendered.width = dims[2] /\ rendered.height = dims[3] /\ rendered.cells = cells
    OBVIOUS
  <2>11. IsRaster(rendered)
    BY <2>8, <2>9, <2>10 DEF IsRaster
  <2> HIDE DEF rendered
  <2>12. IsRaster(image)'
    BY <2>1, <2>11 DEF IsRaster, IsCells
  <2>13. Rendition(doc, kg)'
    <3>1. Kept(doc, kg)'
      BY <2>1, <2>9, <2>10 DEF Kept, IsCells, KeptCell, Written, SymbolCell
    <3> QED
      BY <1>2, <2>2, <2>3, <3>1 DEF Rendition
  <2>14. Payload(doc, kg)'
    BY <2>1, <2>4, <2>8, <2>9, <2>10 DEF Payload, IsCells, Written, SymbolCell
  <2> QED
    BY <1>1, <1>2, <2>1, <2>12, <2>13, <2>14 DEF Container
<1> QED
  BY <1>3, <1>4

LEMMA OtherCells ==
    ASSUME NEW i, IsRaster(i), NEW h, NEW cells
    PROVE  /\ LET j == [i EXCEPT !.cells = cells]
              IN  /\ DOMAIN j = {"width", "height", "cells"}
                  /\ j.width = i.width /\ j.height = i.height /\ j.cells = cells
           /\ LET j == [i EXCEPT !.height = h, !.cells = cells]
              IN  /\ DOMAIN j = {"width", "height", "cells"}
                  /\ j.width = i.width /\ j.height = h /\ j.cells = cells
BY DEF IsRaster

LEMMA DamageByteKeeps ==
    ASSUME Container, DamageByte
    PROVE  Container'
<1> DEFINE c == image.cells
<1>1. PICK b \in DOMAIN c : Change([image EXCEPT !.cells[b] = Wrong])
  BY DEF DamageByte
<1> DEFINE d == [c EXCEPT ![b] = Wrong]
           changed == [image EXCEPT !.cells[b] = Wrong]
<1>2. IsRaster(image) /\ original # Unreadable /\ Kept(request.file, request.k)
  BY <1>1 DEF Container, Change, Rendition
<1>3. DOMAIN changed = {"width", "height", "cells"}
  BY <1>2 DEF IsRaster
<1>4. changed.width = image.width /\ changed.height = image.height /\ changed.cells = d
  BY <1>2 DEF IsRaster
<1>5. PICK S : c \in Seq(S)
  BY <1>2 DEF IsRaster, IsCells
<1>6. /\ d \in Seq(S \cup {Wrong}) /\ Len(d) = Len(c)
      /\ \A i \in 1 .. Len(c) : d[i] = Wrong \/ d[i] = c[i]
  <2>1. c \in Seq(S \cup {Wrong}) /\ DOMAIN c = 1 .. Len(c)
    BY <1>5, SeqMonotonic, LenProperties
  <2> HIDE DEF c
  <2>2. b \in 1 .. Len(c) /\ Wrong \in S \cup {Wrong}
    BY <2>1
  <2> QED
    BY <2>1, <2>2, ExceptSeq
<1> HIDE DEF d, changed
<1>7. IsRaster(changed)
  BY <1>2, <1>3, <1>4, <1>6 DEF IsRaster, IsCells
<1>8. \A i \in 1 .. Len(changed.cells) :
         KeptCell(changed.cells[i], i, request.file, request.k)
  BY <1>2, <1>4, <1>6 DEF Kept, KeptCell
<1>9. Change(changed)
  BY <1>1 DEF changed
<1> QED
  BY <1>7, <1>8, <1>9, ChangeKeeps

LEMMA CutRowKeeps ==
    ASSUME Container, CutRow
    PROVE  Container'
<1> DEFINE c == image.cells
           n == PixelBytes(image.width, image.height - 1)
           changed == [image EXCEPT !.height = @ - 1,
                                    !.cells = SubSeq(@, 1, PixelBytes(image.width, image.height - 1))]
<1>1. image.height > 1 /\ Change(changed)
  BY DEF CutRow
<1>2. IsRaster(image) /\ original # Unreadable /\ Kept(request.file, request.k)
  BY <1>1 DEF Container, Change, Rendition
<1>3. DOMAIN changed = {"width", "height", "cells"}
  <2> DEFINE h == image.height - 1
             cells == SubSeq(c, 1, n)
  <2>1. changed = [image EXCEPT !.height = h, !.cells = cells]
    OBVIOUS
  <2> HIDE DEF h, cells, changed
  <2> QED
    BY <1>2, <2>1, OtherCells
<1>4. /\ changed.width = image.width /\ changed.height = image.height - 1
      /\ changed.cells = SubSeq(c, 1, n)
  <2> DEFINE h == image.height - 1
             cells == SubSeq(c, 1, n)
  <2>1. changed = [image EXCEPT !.height = h, !.cells = cells]
    OBVIOUS
  <2> HIDE DEF h, cells, changed
  <2>2. changed.width = image.width /\ changed.height = h /\ changed.cells = cells
    BY <1>2, <2>1, OtherCells
  <2> QED
    BY <2>2 DEF h, cells
<1>5. image.width \in Nat /\ image.height \in Nat /\ image.height - 1 \in Nat
  BY <1>1, <1>2 DEF IsRaster
<1>6. n \in Nat /\ n <= Len(c)
  <2> DEFINE w == image.width
             h == image.height
  <2>1. w * (h - 1) \in Nat /\ w * h \in Nat /\ w * h = w * (h - 1) + w
    BY <1>5
  <2>2. w \in Nat
    BY <1>5
  <2>3. Len(c) = w * h * 3 /\ n = w * (h - 1) * 3
    BY <1>2 DEF IsRaster, PixelBytes, BYTES_PER_PIXEL
  <2> HIDE DEF w, h, n, c
  <2> QED
    BY <2>1, <2>2, <2>3
<1>7. /\ IsCells(SubSeq(c, 1, n)) /\ Len(SubSeq(c, 1, n)) = n
      /\ \A b \in 1 .. n : SubSeq(c, 1, n)[b] = c[b]
  <2> HIDE DEF c, n
  <2>1. IsCells(c)
    BY <1>2 DEF IsRaster, c
  <2> QED
    BY <1>6, <2>1, CutCells
<1>8. IsRaster(changed)
  <2> HIDE DEF changed, c
  <2> QED
    BY <1>3, <1>4, <1>5, <1>7 DEF IsRaster
<1>9. \A b \in 1 .. Len(changed.cells) : KeptCell(changed.cells[b], b, request.file, request.k)
  <2>1. Len(c) \in Nat
    BY <1>2, CellsAreSized DEF IsRaster
  <2> HIDE DEF changed, n
  <2> QED
    BY <1>2, <1>4, <1>6, <1>7, <2>1 DEF Kept
<1> HIDE DEF changed
<1> QED
  BY <1>1, <1>8, <1>9, ChangeKeeps

LEMMA AddRowKeeps ==
    ASSUME Container, NEW cell \in {Zero, Wrong}, AddRow(cell)
    PROVE  Container'
<1> DEFINE c == image.cells
           n == PixelBytes(image.width, 1)
           row == [b \in 1 .. n |-> cell]
           changed == [image EXCEPT !.height = @ + 1,
                                    !.cells = @ \o [b \in 1 .. PixelBytes(image.width, 1) |-> cell]]
<1>1. Change(changed)
  BY DEF AddRow
<1>2. IsRaster(image) /\ original # Unreadable /\ Kept(request.file, request.k)
  BY <1>1 DEF Container, Change, Rendition
<1>3. DOMAIN changed = {"width", "height", "cells"}
  <2> DEFINE h == image.height + 1
             cells == c \o row
  <2>1. changed = [image EXCEPT !.height = h, !.cells = cells]
    OBVIOUS
  <2> HIDE DEF h, cells, changed
  <2> QED
    BY <1>2, <2>1, OtherCells
<1>4. /\ changed.width = image.width /\ changed.height = image.height + 1
      /\ changed.cells = c \o row
  <2> DEFINE h == image.height + 1
             cells == c \o row
  <2>1. changed = [image EXCEPT !.height = h, !.cells = cells]
    OBVIOUS
  <2> HIDE DEF h, cells, changed
  <2>2. changed.width = image.width /\ changed.height = h /\ changed.cells = cells
    BY <1>2, <2>1, OtherCells
  <2> QED
    BY <2>2 DEF h, cells
<1>5. image.width \in Nat /\ image.height \in Nat /\ n \in Nat
  BY <1>2, PixelBytesType DEF IsRaster
<1>6. IsCells(row) /\ Len(row) = n /\ \A b \in 1 .. n : row[b] = cell
  <2> HIDE DEF n
  <2>1. row = [b \in 1 .. n |-> row[b]] /\ \A b \in 1 .. n : row[b] = cell
    OBVIOUS
  <2> HIDE DEF row
  <2> QED
    BY <1>5, <2>1, FunctionIsCells
<1>7. IsCells(c) /\ Len(c) \in Nat /\ Len(c) = PixelBytes(image.width, image.height)
  BY <1>2, CellsAreSized DEF IsRaster
<1> HIDE DEF c, row
<1>8. /\ IsCells(c \o row) /\ Len(c \o row) = Len(c) + n
      /\ \A b \in 1 .. Len(c) + n : (c \o row)[b] = IF b <= Len(c) THEN c[b] ELSE row[b - Len(c)]
  <2> HIDE DEF n
  <2>1. /\ IsCells(c \o row) /\ Len(c \o row) = Len(c) + Len(row)
        /\ \A b \in 1 .. Len(c) + Len(row) :
               (c \o row)[b] = IF b <= Len(c) THEN c[b] ELSE row[b - Len(c)]
    BY <1>6, <1>7, Joined, Zenon
  <2> QED
    BY <1>6, <2>1, Zenon
<1>9. Len(c) + n = PixelBytes(image.width, image.height + 1)
  BY <1>5, <1>7 DEF PixelBytes, BYTES_PER_PIXEL
<1> HIDE DEF changed
<1>10. IsRaster(changed)
  BY <1>3, <1>4, <1>5, <1>8, <1>9 DEF IsRaster
<1>11. \A b \in 1 .. Len(changed.cells) : KeptCell(changed.cells[b], b, request.file, request.k)
  <2> HIDE DEF n
  <2> SUFFICES ASSUME NEW b \in 1 .. Len(c) + n
               PROVE  KeptCell((c \o row)[b], b, request.file, request.k)
    BY <1>4, <1>8
  <2>1. CASE b <= Len(c)
    BY <1>2, <1>5, <1>7, <1>8, <2>1 DEF Kept, c
  <2>2. CASE b > Len(c)
    <3>1. b - Len(c) \in 1 .. n
      BY <1>5, <1>7, <2>2
    <3>2. (c \o row)[b] = cell
      BY <1>5, <1>6, <1>7, <1>8, <2>2, <3>1
    <3> QED
      BY <3>2 DEF KeptCell
  <2>3. b <= Len(c) \/ b > Len(c)
    BY <1>5, <1>7
  <2> QED
    BY <2>1, <2>2, <2>3, Zenon
<1> QED
  BY <1>1, <1>10, <1>11, ChangeKeeps

LEMMA ReheaderKeeps ==
    ASSUME Container, NEW v \in Headers, Reheader(v)
    PROVE  Container'
<1> DEFINE c == image.cells
           s == serialize_v1(v)
           d == [b \in DOMAIN c |-> IF b <= OPTICAL_HEADER_LEN THEN s[b] ELSE c[b]]
           changed == [image EXCEPT !.cells =
                         [b \in DOMAIN @ |-> IF b <= OPTICAL_HEADER_LEN THEN s[b] ELSE @[b]]]
<1>1. Change(changed)
  BY DEF Reheader
<1>2. IsRaster(image) /\ original # Unreadable /\ Kept(request.file, request.k)
  BY <1>1 DEF Container, Change, Rendition
<1>3. /\ DOMAIN changed = {"width", "height", "cells"}
      /\ changed.width = image.width /\ changed.height = image.height /\ changed.cells = d
  <2>1. changed = [image EXCEPT !.cells = d]
    OBVIOUS
  <2> HIDE DEF d, changed
  <2> QED
    BY <1>2, <2>1, OtherCells
<1>4. changed.width = image.width /\ changed.height = image.height /\ changed.cells = d
  BY <1>3
<1>5. DOMAIN c = 1 .. Len(c) /\ Len(c) \in Nat
  BY <1>2, CellsAreSized DEF IsRaster
<1>6. /\ IsCells(d) /\ Len(d) = Len(c)
      /\ \A b \in 1 .. Len(c) : d[b] = IF b <= OPTICAL_HEADER_LEN THEN s[b] ELSE c[b]
  <2> HIDE DEF c, s
  <2>1. /\ d = [b \in 1 .. Len(c) |-> d[b]]
        /\ \A b \in 1 .. Len(c) : d[b] = IF b <= OPTICAL_HEADER_LEN THEN s[b] ELSE c[b]
    BY <1>5
  <2> HIDE DEF d
  <2> QED
    BY <1>5, <2>1, FunctionIsCells
<1> HIDE DEF d, changed
<1>7. IsRaster(changed)
  BY <1>2, <1>3, <1>4, <1>6 DEF IsRaster
<1>8. \A b \in 1 .. Len(changed.cells) : KeptCell(changed.cells[b], b, request.file, request.k)
  <2> HIDE DEF s
  <2>1. ASSUME NEW b \in 1 .. Len(c), b <= OPTICAL_HEADER_LEN
        PROVE  KeptCell(d[b], b, request.file, request.k)
    BY <1>6, <2>1 DEF KeptCell, s
  <2>2. ASSUME NEW b \in 1 .. Len(c), ~ (b <= OPTICAL_HEADER_LEN)
        PROVE  KeptCell(d[b], b, request.file, request.k)
    BY <1>2, <1>6, <2>2 DEF Kept
  <2> QED
    BY <1>4, <1>6, <2>1, <2>2
<1> QED
  BY <1>1, <1>7, <1>8, ChangeKeeps

LEMMA ContainerInvariant == OpticalSpec => []Container
<1>1. OpticalStart => Container
  BY UnreadableIsRaster DEF OpticalStart, Container
<1>2. Container /\ [OpticalNext]_optical_vars => Container'
  <2> SUFFICES ASSUME Container, [OpticalNext]_optical_vars PROVE Container'
    OBVIOUS
  <2>1. ASSUME NEW doc \in OpticalFiles, NEW kg \in Ks, NEW shape \in Shapes,
               NEW checked \in BOOLEAN, Render(doc, kg, shape, checked)
        PROVE  Container'
    BY <2>1, RenderKeeps
  <2>2. CASE StopWriting
    <3>1. /\ image' = Unreadable /\ request' = request /\ original' = original
          /\ command' = command /\ command = "render" /\ image # Unreadable
      BY <2>2 DEF StopWriting
    <3>2. IsRaster(image)'
      BY <3>1, UnreadableIsRaster DEF IsRaster, IsCells
    <3>3. original # Unreadable /\ Rendition(request.file, request.k)
          /\ Payload(request.file, request.k)
      BY <3>1 DEF Container
    <3>4. Kept(request.file, request.k)'
      BY <3>1, UnreadableIsRaster DEF Kept, IsCells, IsRaster
    <3>5. Rendition(request.file, request.k)'
      BY <3>1, <3>3, <3>4 DEF Rendition
    <3>6. Payload(request.file, request.k)'
      BY <3>1, <3>3 DEF Payload, IsCells, Written, SymbolCell
    <3> QED
      BY <3>1, <3>2, <3>3, <3>5, <3>6 DEF Container
  <2>3. CASE Recolour
    <3>1. Change(Unreadable)
      BY <2>3 DEF Recolour
    <3>2. \A b \in 1 .. Len(Unreadable.cells) :
             KeptCell(Unreadable.cells[b], b, request.file, request.k)
      BY UnreadableIsRaster
    <3> QED
      BY <3>1, <3>2, UnreadableIsRaster, ChangeKeeps
  <2>4. ASSUME NEW name \in {"inspect", "inspect_deep"}, NEW answer, Read(name, answer)
        PROVE  Container'
    BY <2>4, UnchangedKeeps DEF Read, Container
  <2>5. CASE Extract
    <3>1. /\ original # Unreadable /\ command' = "extract" /\ result' = ExtractResult
          /\ UNCHANGED <<request, image, original>>
      BY <2>5 DEF Extract, Read
    <3>2. ExtractResult' = ExtractResult
      BY <3>1, UnchangedAnswer
    <3> QED
      BY <3>1, <3>2, UnchangedKeeps DEF Container
  <2>6. CASE UNCHANGED optical_vars
    <3>1. UNCHANGED <<request, image, original>> /\ command' = command /\ result' = result
      BY <2>6 DEF optical_vars
    <3>2. ExtractResult' = ExtractResult
      BY <3>1, UnchangedAnswer
    <3> QED
      BY <3>1, <3>2, UnchangedKeeps DEF Container
  <2>7. CASE \E cell \in {Zero, Wrong} : AddRow(cell)
    BY <2>7, AddRowKeeps
  <2>8. CASE \E v \in Headers : Reheader(v)
    BY <2>8, ReheaderKeeps
  <2>9. CASE Inspect \/ InspectDeep
    BY <2>4, <2>9 DEF Inspect, InspectDeep
  <2> QED
    BY <2>1, <2>2, <2>3, <2>5, <2>6, <2>7, <2>8, <2>9, DamageByteKeeps, CutRowKeeps DEF OpticalNext
<1> QED
  BY <1>1, <1>2, PTL DEF OpticalSpec

\* ExtractsWhatWasRendered: from an image damaged, cut, padded, recoloured or
\* given another header, extract returns the doc rendered exactly when the image
\* still tells it, and otherwise an error, never a panic (extract).
THEOREM ExtractReturnsTheFile == OpticalSpec => []ExtractsWhatWasRendered
<1>1. Container => ExtractsWhatWasRendered
  <2> SUFFICES ASSUME Container, command = "extract"
               PROVE  /\ Recoverable <=> result = <<"Extracted", request.file>>
                      /\ result # <<"panic">>
    BY DEF ExtractsWhatWasRendered
  <2>1. /\ result = ExtractResult /\ Rendition(request.file, request.k)
        /\ Payload(request.file, request.k)
    BY DEF Container
  <2> QED
    BY <2>1, ExtractIsRight, Zenon
<1> QED
  BY <1>1, ContainerInvariant, PTL
=============================================================================

-------------------------- MODULE ReassemblerProofs --------------------------
(***************************************************************************)
(* Proofs about Reassembler, for every set of inputs and every value of    *)
(* the limits.  IInv is inductive: the types need the ranges (a block in   *)
(* the store lies below the limit because its range fits the file), the    *)
(* ranges need the pinning (a file is described once a range is stored),   *)
(* and the failure property needs both.  The second half follows the two   *)
(* loops of finalize_report turn by turn, and ends with the refinement of  *)
(* FileAssembly.                                                           *)
(***************************************************************************)
EXTENDS Reassembler, Induction, SequenceTheorems

IInv ==
    /\ TypeOK
    /\ PinnedByStoredSymbol
    /\ RangesPartitionBlocks
    /\ StoredBlocksDecode

\* The range of a well-formed symbol is a non-empty part of the file it
\* describes, and its indices are within the limits (reassemble.rs, the checks
\* that come before anything is stored).
LEMMA WellFormedRange ==
    ASSUME NEW s \in Inputs, WellFormed(s)
    PROVE  /\ s.total_blocks \in 1 .. MaxTotalBlocks
           /\ BlockRange(s) \subseteq 0 .. (s.total_blocks - 1)
           /\ BlockRange(s) \subseteq 0 .. (MaxTotalBlocks - 1)
           /\ s.block_start \in BlockRange(s)
           /\ s.symbol_index \in 0 .. (MaxTotalSymbols - 1)
  <1>1. s \in DecodedSymbol
    BY ConstantsAssumption
  <1>2. /\ s.block_start \in Nat /\ s.block_count \in Nat
        /\ s.total_blocks \in Nat /\ s.total_symbols \in Nat
        /\ s.symbol_index \in Nat
        /\ MaxTotalBlocks \in Nat /\ MaxTotalSymbols \in Nat
        /\ MaxBlockCount \in Nat
    BY <1>1, ConstantsAssumption DEF DecodedSymbol
  <1>3. /\ s.total_blocks \in 1 .. MaxTotalBlocks
        /\ s.total_symbols \in 1 .. MaxTotalSymbols
        /\ s.block_count \in 1 .. MaxBlockCount
        /\ s.symbol_index < s.total_symbols
        /\ s.block_start + s.block_count <= s.total_blocks
    BY DEF WellFormed, validate_header_invariants, IndexFits, RangeFits
  <1> QED
    BY <1>2, <1>3 DEF BlockRange

\* An entry that normalize_symbol_blocks lets through is a block entry that
\* decodes to the size its place in the file calls for.
LEMMA EntryDecodes ==
    ASSUME NEW s \in Inputs, NEW b
    PROVE  /\ EntryAt(s, b) \in BlockEntry \cup {None}
           /\ EntryAt(s, b) # None =>
                 Decodes(EntryAt(s, b),
                         expected_block_size(s.file_size, s.total_blocks, b))
  <1>1. s.blocks \in Seq(BlockEntry \cup {None})
    BY ConstantsAssumption DEF DecodedSymbol
  <1>2. \A i \in DOMAIN s.blocks : s.blocks[i] \in BlockEntry \cup {None}
    BY <1>1
  <1> QED
    BY <1>2 DEF EntryAt

\* The metadata a symbol pins has the type of metadata and is not None.
LEMMA MetadataType ==
    ASSUME NEW s \in Inputs
    PROVE  /\ MetadataOf(s) \in ReassemblyMetadata
           /\ MetadataOf(s) # None
           /\ StoredAs(s) \in StoredSymbol
           /\ BlockRange(StoredAs(s)) = BlockRange(s)
           /\ MetadataOf(s).file_size = s.file_size
           /\ MetadataOf(s).total_blocks = s.total_blocks
  BY ConstantsAssumption
  DEF MetadataOf, DecodedSymbol, ReassemblyMetadata, StoredAs, StoredSymbol, BlockRange

\* A new FileReassembler is empty.
LEMMA InitInv == Init => IInv
  <1> SUFFICES ASSUME Init PROVE IInv
    OBVIOUS
  <1>1. DOMAIN blocks = {} /\ DOMAIN symbols = {}
    BY DEF Init
  <1>2. TypeOK
    BY <1>1 DEF Init, TypeOK
  <1>3. PinnedByStoredSymbol /\ RangesPartitionBlocks /\ StoredBlocksDecode
    BY <1>1 DEF Init, PinnedByStoredSymbol, RangesPartitionBlocks, StoredBlocksDecode
  <1> QED
    BY <1>2, <1>3 DEF IInv

\* A call that rejects the symbol before looking at the store.
LEMMA RejectedInv ==
    ASSUME IInv, NEW s, NEW error \in Errors, Rejected(s, error)
    PROVE  IInv'
  BY DEF IInv, Rejected, store, TypeOK, PinnedByStoredSymbol,
         RangesPartitionBlocks, StoredBlocksDecode, BlockRange

\* The metadata is already what an admitted symbol says, unless nothing is
\* stored yet.
LEMMA AdmittedMetadata ==
    ASSUME IInv, NEW s \in Inputs, Admitted(s)
    PROVE  /\ metadata' = MetadataOf(s)
           /\ metadata # None => metadata' = metadata
           /\ metadata = None => DOMAIN symbols = {} /\ DOMAIN blocks = {}
  <1>1. metadata' = MetadataOf(s) /\ metadata \in {None, MetadataOf(s)}
    BY DEF Admitted, AdmitsMetadata
  <1>2. metadata = None => DOMAIN symbols = {}
    BY DEF IInv, PinnedByStoredSymbol
  <1>3. DOMAIN symbols = {} => DOMAIN blocks = {}
    BY DEF IInv, RangesPartitionBlocks
  <1> QED
    BY <1>1, <1>2, <1>3

\* A call that rejects the symbol against what is stored: something is, so
\* the metadata was pinned before.
LEMMA RejectStoredInv ==
    ASSUME IInv, NEW s \in Inputs, RejectMovedDuplicate(s) \/ RejectOverlap(s)
    PROVE  IInv' /\ UNCHANGED store
  <1>1. Admitted(s) /\ UNCHANGED <<blocks, symbols>>
        /\ outcome' \in Errors /\ UNCHANGED report
    BY DEF RejectMovedDuplicate, RejectOverlap, Errors, Admitted
  <1>2. DOMAIN symbols # {} \/ DOMAIN blocks # {}
    BY DEF RejectMovedDuplicate, RejectOverlap, IsStored,
           ensure_no_overlapping_blocks
  <1>3. UNCHANGED metadata
    BY <1>1, <1>2, AdmittedMetadata
  <1> QED
    BY <1>1, <1>3 DEF IInv, store, TypeOK, PinnedByStoredSymbol,
         RangesPartitionBlocks, StoredBlocksDecode, BlockRange

\* A duplicate fills what is lacking and leaves the rest as it was.
LEMMA MergeInv ==
    ASSUME IInv, NEW s \in Inputs, MergeDuplicate(s)
    PROVE  /\ IInv'
           /\ DOMAIN blocks' = DOMAIN blocks
           /\ BlockRange(s) \subseteq DOMAIN blocks
           /\ UNCHANGED metadata
  <1>1. /\ Admitted(s) /\ WellFormed(s)
        /\ s.symbol_index \in DOMAIN symbols
        /\ symbols[s.symbol_index] = StoredAs(s)
        /\ UNCHANGED <<symbols, report>>
        /\ outcome' \in Errors \cup {"Ok"}
    BY DEF MergeDuplicate, Admitted, IsStored, Errors
  <1>2. UNCHANGED metadata /\ metadata = MetadataOf(s)
    BY <1>1, AdmittedMetadata
  <1>3. BlockRange(s) \subseteq DOMAIN blocks
    BY <1>1, MetadataType DEF IInv, RangesPartitionBlocks
  <1>4. blocks' = [b \in DOMAIN blocks |->
                     IF b \in BlockRange(s) THEN Merged(s, b, EntryAt(s, b))
                     ELSE blocks[b]]
    <2>1. DOMAIN blocks \cup BlockRange(s) = DOMAIN blocks
      BY <1>3
    <2> QED
      BY <2>1 DEF MergeDuplicate
  <1>5. DOMAIN blocks' = DOMAIN blocks
    BY <1>4
  <1>6. \A b \in DOMAIN blocks :
           blocks'[b] = blocks[b] \/ blocks'[b] = EntryAt(s, b)
    BY <1>4 DEF Merged, Stored
  <1>7. \A b \in DOMAIN blocks' :
           /\ blocks'[b] \in BlockEntry \cup {None}
           /\ blocks'[b] # None =>
                Decodes(blocks'[b], expected_block_size(metadata.file_size,
                                                        metadata.total_blocks, b))
    BY <1>2, <1>5, <1>6, EntryDecodes, MetadataType
    DEF IInv, TypeOK, StoredBlocksDecode
  <1>8. TypeOK'
    BY <1>1, <1>2, <1>4, <1>5, <1>7 DEF IInv, TypeOK
  <1>9. PinnedByStoredSymbol' /\ RangesPartitionBlocks'
    BY <1>1, <1>2, <1>5
    DEF IInv, PinnedByStoredSymbol, RangesPartitionBlocks, BlockRange
  <1>10. StoredBlocksDecode'
    BY <1>2, <1>7 DEF StoredBlocksDecode
  <1> QED
    BY <1>2, <1>3, <1>5, <1>8, <1>9, <1>10 DEF IInv

\* A new symbol adds its own range of blocks, which meets no other.
LEMMA InsertInv ==
    ASSUME IInv, NEW s \in Inputs, InsertSymbol(s)
    PROVE  IInv'
  <1> DEFINE n == s.symbol_index
  <1>1. /\ Admitted(s) /\ WellFormed(s)
        /\ n \notin DOMAIN symbols
        /\ BlockRange(s) \cap DOMAIN blocks = {}
        /\ outcome' = "Ok" /\ UNCHANGED report
    BY DEF InsertSymbol, Admitted, IsStored, ensure_no_overlapping_blocks
  <1>2. /\ metadata' = MetadataOf(s)
        /\ \/ metadata' = metadata
           \/ DOMAIN symbols = {} /\ DOMAIN blocks = {}
    BY <1>1, AdmittedMetadata
  <1>3. symbols' = [i \in DOMAIN symbols \cup {n} |->
                      IF i = n THEN StoredAs(s) ELSE symbols[i]]
    BY DEF InsertSymbol
  <1>4. blocks' = [b \in DOMAIN blocks \cup BlockRange(s) |->
                     IF b \in BlockRange(s) THEN EntryAt(s, b) ELSE blocks[b]]
    BY DEF InsertSymbol
  <1>5. /\ DOMAIN symbols' = DOMAIN symbols \cup {n}
        /\ DOMAIN blocks' = DOMAIN blocks \cup BlockRange(s)
        /\ symbols'[n] = StoredAs(s)
        /\ \A i \in DOMAIN symbols : symbols'[i] = symbols[i]
    BY <1>1, <1>3, <1>4
  <1>6. \A b \in DOMAIN blocks' :
           /\ blocks'[b] \in BlockEntry \cup {None}
           /\ blocks'[b] # None =>
                Decodes(blocks'[b], expected_block_size(metadata'.file_size,
                                                        metadata'.total_blocks, b))
    <2> SUFFICES ASSUME NEW b \in DOMAIN blocks'
                 PROVE  /\ blocks'[b] \in BlockEntry \cup {None}
                        /\ blocks'[b] # None =>
                             Decodes(blocks'[b],
                                     expected_block_size(metadata'.file_size,
                                                         metadata'.total_blocks, b))
      OBVIOUS
    <2>1. CASE b \in BlockRange(s)
      BY <2>1, <1>2, <1>4, <1>5, EntryDecodes, MetadataType
    <2>2. CASE b \notin BlockRange(s)
      <3>1. b \in DOMAIN blocks /\ blocks'[b] = blocks[b] /\ metadata' = metadata
        BY <2>2, <1>2, <1>4, <1>5
      <3> QED
        BY <3>1 DEF IInv, TypeOK, StoredBlocksDecode
    <2> QED
      BY <2>1, <2>2
  <1>7. TypeOK'
    <2>1. metadata' \in ReassemblyMetadata \cup {None}
      BY <1>2, MetadataType
    <2>2. DOMAIN blocks' \subseteq 0 .. (MaxTotalBlocks - 1)
          /\ DOMAIN symbols' \subseteq 0 .. (MaxTotalSymbols - 1)
      BY <1>1, <1>5, WellFormedRange DEF IInv, TypeOK
    <2>3. blocks' \in [DOMAIN blocks' -> BlockEntry \cup {None}]
      BY <1>4, <1>6
    <2>4. symbols' \in [DOMAIN symbols' -> StoredSymbol]
      BY <1>3, <1>5, MetadataType DEF IInv, TypeOK
    <2> QED
      BY <1>1, <2>1, <2>2, <2>3, <2>4 DEF IInv, TypeOK
  <1>8. PinnedByStoredSymbol'
    BY <1>2, <1>5, MetadataType DEF PinnedByStoredSymbol
  <1>9. RangesPartitionBlocks'
    <2>1. BlockRange(symbols'[n]) = BlockRange(s)
      BY <1>5, MetadataType
    <2>2. \A i \in DOMAIN symbols : BlockRange(symbols'[i]) = BlockRange(symbols[i])
      BY <1>5
    <2>3. DOMAIN blocks' = UNION {BlockRange(symbols'[i]) : i \in DOMAIN symbols'}
      BY <1>5, <2>1, <2>2 DEF IInv, RangesPartitionBlocks
    <2>4. \A i \in DOMAIN symbols : BlockRange(symbols[i]) \cap BlockRange(s) = {}
      BY <1>1 DEF IInv, RangesPartitionBlocks
    <2>5. \A i, j \in DOMAIN symbols' :
             i # j => BlockRange(symbols'[i]) \cap BlockRange(symbols'[j]) = {}
      BY <1>5, <2>1, <2>2, <2>4 DEF IInv, RangesPartitionBlocks
    <2>6. \A i \in DOMAIN symbols' :
             BlockRange(symbols'[i]) \subseteq 0 .. (metadata'.total_blocks - 1)
      BY <1>1, <1>2, <1>5, <2>1, <2>2, WellFormedRange, MetadataType
      DEF IInv, RangesPartitionBlocks
    <2> QED
      BY <2>3, <2>5, <2>6 DEF RangesPartitionBlocks
  <1>10. StoredBlocksDecode'
    BY <1>6 DEF StoredBlocksDecode
  <1> QED
    BY <1>7, <1>8, <1>9, <1>10 DEF IInv

\* Every call of add_symbol keeps the store well formed.
LEMMA AddSymbolInv ==
    ASSUME IInv, NEW s \in Inputs, AddSymbol(s)
    PROVE  IInv'
  <1>1. CASE RejectHeader(s) \/ RejectIndex(s) \/ RejectRange(s) \/ RejectMetadata(s)
    <2>1. \E error \in Errors : Rejected(s, error)
      BY <1>1 DEF RejectHeader, RejectIndex, RejectRange, RejectMetadata, Errors
    <2> QED
      BY <2>1, RejectedInv
  <1>2. CASE RejectMovedDuplicate(s) \/ RejectOverlap(s)
    BY <1>2, RejectStoredInv
  <1>3. CASE MergeDuplicate(s)
    BY <1>3, MergeInv
  <1>4. CASE InsertSymbol(s)
    BY <1>4, InsertInv
  <1> QED
    BY <1>1, <1>2, <1>3, <1>4 DEF AddSymbol

\* finalize_report reads the store and changes nothing of it.
LEMMA FinalizeInv ==
    ASSUME IInv, FinalizeReport
    PROVE  IInv'
  <1>1. finalize_report.status \in {"MissingBlocks", "Undecodable",
                                     "Verified", "Mismatch"}
    BY DEF finalize_report
  <1>2. UNCHANGED store /\ UNCHANGED outcome /\ report' = finalize_report
    BY DEF FinalizeReport
  <1> QED
    BY <1>1, <1>2 DEF IInv, store, TypeOK, PinnedByStoredSymbol,
         RangesPartitionBlocks, StoredBlocksDecode, BlockRange

\* The invariant is inductive.
LEMMA StepInv == IInv /\ [Next]_vars => IInv'
  <1> SUFFICES ASSUME IInv, [Next]_vars PROVE IInv'
    OBVIOUS
  <1>1. ASSUME NEW s \in Inputs, AddSymbol(s) PROVE IInv'
    BY <1>1, AddSymbolInv
  <1>2. CASE FinalizeReport
    BY <1>2, FinalizeInv
  <1>3. CASE UNCHANGED vars
    BY <1>3 DEF vars, IInv, TypeOK, PinnedByStoredSymbol,
         RangesPartitionBlocks, StoredBlocksDecode, BlockRange
  <1> QED
    BY <1>1, <1>2, <1>3 DEF Next

\* Whatever symbols arrive, the store is well formed (FileReassembler).
THEOREM Invariance == Spec => []IInv
  BY InitInv, StepInv, PTL DEF Spec

\* Every variable keeps its type, for any inputs.
THEOREM TypeCorrect == Spec => []TypeOK
  BY Invariance, PTL DEF IInv

\* A file's description is pinned exactly when one of its symbols is stored.
THEOREM Pinning == Spec => []PinnedByStoredSymbol
  BY Invariance, PTL DEF IInv

\* The blocks present are the disjoint ranges of the stored symbols.
THEOREM Partition == Spec => []RangesPartitionBlocks
  BY Invariance, PTL DEF IInv

\* finalize_report never meets a stored block it cannot decode.
THEOREM StoredDecodes == Spec => []StoredBlocksDecode
  BY Invariance, PTL DEF IInv

\* A block once recovered survives every call of add_symbol.
LEMMA KeptByCall ==
    ASSUME NEW s \in Inputs, AddSymbol(s), NEW b \in DOMAIN blocks, blocks[b] # None
    PROVE  b \in DOMAIN blocks' /\ blocks'[b] = blocks[b]
  <1>1. CASE UNCHANGED blocks
    BY <1>1
  <1>2. CASE MergeDuplicate(s)
    BY <1>2 DEF MergeDuplicate, Merged, Stored
  <1>3. CASE InsertSymbol(s)
    BY <1>3 DEF InsertSymbol, ensure_no_overlapping_blocks
  <1> QED
    BY <1>1, <1>2, <1>3
    DEF AddSymbol, RejectHeader, RejectIndex, RejectRange, RejectMetadata,
        RejectMovedDuplicate, RejectOverlap, Rejected, store

\* A recovered block is neither replaced nor removed by any later call.
THEOREM RecoveredKept == Spec => RecoveredBlockKept
  <1>1. ASSUME [Next]_vars, NEW b \in DOMAIN blocks, blocks[b] # None
        PROVE  b \in DOMAIN blocks' /\ blocks'[b] = blocks[b]
    <2>1. ASSUME NEW s \in Inputs, AddSymbol(s)
          PROVE  b \in DOMAIN blocks' /\ blocks'[b] = blocks[b]
      BY <1>1, <2>1, KeptByCall
    <2>2. CASE UNCHANGED blocks
      BY <2>2, <1>1
    <2> QED
      BY <1>1, <2>1, <2>2 DEF Next, FinalizeReport, store, vars
  <1>2. [Next]_vars =>
          [\A b \in DOMAIN blocks : blocks[b] # None =>
              b \in DOMAIN blocks' /\ blocks'[b] = blocks[b]]_vars
    BY <1>1
  <1> QED
    BY <1>2, PTL DEF Spec, RecoveredBlockKept

\* A symbol answered Ok is in the store, whether it was new or a duplicate.
THEOREM AcceptedStored == Spec => AcceptedMeansStored
  <1>1. ASSUME IInv, NEW s \in Inputs, AddSymbol(s), outcome' = "Ok"
        PROVE  /\ metadata' = MetadataOf(s)
               /\ \A b \in BlockRange(s) :
                     EntryAt(s, b) # None => blocks'[b] = EntryAt(s, b)
    <2>1. CASE MergeDuplicate(s)
      <3>1. ~Diverges(s)
        BY <1>1, <2>1 DEF MergeDuplicate
      <3>2. \A b \in BlockRange(s) : blocks'[b] = Merged(s, b, EntryAt(s, b))
        BY <2>1 DEF MergeDuplicate
      <3> QED
        BY <2>1, <3>1, <3>2 DEF MergeDuplicate, Admitted, Merged, Diverges
    <2>2. CASE InsertSymbol(s)
      BY <2>2 DEF InsertSymbol, Admitted
    <2> QED
      BY <1>1, <2>1, <2>2
      DEF AddSymbol, RejectHeader, RejectIndex, RejectRange, RejectMetadata,
          RejectMovedDuplicate, RejectOverlap, Rejected
  <1>2. IInv => \A s \in Inputs :
                   AddSymbol(s) /\ outcome' = "Ok" =>
                     /\ metadata' = MetadataOf(s)
                     /\ \A b \in BlockRange(s) :
                           EntryAt(s, b) # None => blocks'[b] = EntryAt(s, b)
    BY <1>1
  <1> QED
    BY <1>2, Invariance, PTL DEF AcceptedMeansStored

\* A failed call leaves the store as it was, but for the lost blocks a
\* diverging duplicate still brings.
THEOREM FailureLeaves == Spec => FailureLeavesStore
  <1> DEFINE Effect(s) ==
        /\ UNCHANGED <<metadata, symbols, DOMAIN blocks>>
        /\ \A b \in DOMAIN blocks :
              blocks'[b] # blocks[b] =>
                 /\ outcome' = "DuplicateSymbol"
                 /\ blocks[b] = None
                 /\ b \in BlockRange(s)
  <1>1. ASSUME IInv, NEW s \in Inputs, AddSymbol(s), outcome' # "Ok"
        PROVE  Effect(s)
    <2>1. CASE UNCHANGED store
      BY <2>1 DEF store
    <2>2. CASE RejectMovedDuplicate(s) \/ RejectOverlap(s)
      BY <2>1, <2>2, <1>1, RejectStoredInv
    <2>3. CASE MergeDuplicate(s)
      <3>1. UNCHANGED <<metadata, symbols, DOMAIN blocks>>
        BY <1>1, <2>3, MergeInv DEF MergeDuplicate
      <3>2. outcome' = "DuplicateSymbol"
        BY <1>1, <2>3 DEF MergeDuplicate
      <3>3. ASSUME NEW b \in DOMAIN blocks, blocks'[b] # blocks[b]
            PROVE  blocks[b] = None /\ b \in BlockRange(s)
        BY <2>3, <3>3 DEF MergeDuplicate, Merged, Stored
      <3> QED
        BY <3>1, <3>2, <3>3
    <2>4. ~InsertSymbol(s)
      BY <1>1 DEF InsertSymbol
    <2> QED
      BY <1>1, <2>1, <2>2, <2>3, <2>4
      DEF AddSymbol, RejectHeader, RejectIndex, RejectRange, RejectMetadata,
          Rejected
  <1>2. IInv => \A s \in Inputs :
                   AddSymbol(s) /\ outcome' # "Ok" => Effect(s)
    BY <1>1
  <1> QED
    BY <1>2, Invariance, PTL DEF FailureLeavesStore

-----------------------------------------------------------------------------
(* The report of the missing blocks.                                       *)

Runs == [current : (Nat \X Nat) \cup {None}, missing : Seq(Nat \X Nat)]
NoRuns == [current |-> None, missing |-> <<>>]

\* A turn of the loop keeps the types of the open run and of the closed ones.
LEMMA StepType ==
    ASSUME NEW acc \in Runs, NEW idx \in Nat, NEW gap
    PROVE  ScanStep(acc, idx, gap) \in Runs
  <1>1. acc.missing \in Seq(Nat \X Nat) /\ acc.current \in (Nat \X Nat) \cup {None}
    BY DEF Runs
  <1>2. acc.current # None =>
           /\ acc.current[1] \in Nat /\ acc.current \in Nat \X Nat
           /\ Append(acc.missing, acc.current) \in Seq(Nat \X Nat)
    BY <1>1
  <1>3. <<idx, idx>> \in Nat \X Nat
    OBVIOUS
  <1>4. CASE ~ gap
    <2>1. ScanStep(acc, idx, gap) =
             IF acc.current = None THEN acc
             ELSE [current |-> None, missing |-> Append(acc.missing, acc.current)]
      BY <1>4 DEF ScanStep
    <2> QED
      BY <1>1, <1>2, <2>1 DEF Runs
  <1>5. CASE gap /\ acc.current = None
    <2>1. ScanStep(acc, idx, gap) = [acc EXCEPT !.current = <<idx, idx>>]
      BY <1>5 DEF ScanStep
    <2> QED
      BY <1>1, <1>3, <2>1 DEF Runs
  <1>6. CASE gap /\ acc.current # None
    <2>1. \/ ScanStep(acc, idx, gap) = [acc EXCEPT !.current = <<acc.current[1], idx>>]
          \/ ScanStep(acc, idx, gap) =
                [current |-> <<idx, idx>>, missing |-> Append(acc.missing, acc.current)]
      BY <1>6 DEF ScanStep
    <2>2. <<acc.current[1], idx>> \in Nat \X Nat
      BY <1>2, <1>6
    <2>3. [acc EXCEPT !.current = <<acc.current[1], idx>>] \in Runs
      BY <1>1, <2>2 DEF Runs
    <2>4. [current |-> <<idx, idx>>, missing |-> Append(acc.missing, acc.current)] \in Runs
      BY <1>2, <1>3, <1>6 DEF Runs
    <2> QED
      BY <2>1, <2>3, <2>4
  <1> QED
    BY <1>4, <1>5, <1>6

\* The loop over the blocks is a function of the number of turns.
LEMMA ScanTurns ==
    /\ scanned[0] = NoRuns
    /\ \A n \in Nat :
          /\ scanned[n] \in Runs
          /\ scanned[n + 1] = ScanStep(scanned[n], n, Stored(n) = None)
  <1> DEFINE step == [n \in Nat |-> [acc \in Runs |->
                         IF n = 0 THEN acc
                         ELSE ScanStep(acc, n - 1, Stored(n - 1) = None)]]
  <1>1. NoRuns \in Runs
    BY DEF NoRuns, Runs
  <1>2. step \in [Nat -> [Runs -> Runs]]
    <2>1. ASSUME NEW n \in Nat, NEW acc \in Runs
          PROVE  (IF n = 0 THEN acc ELSE ScanStep(acc, n - 1, Stored(n - 1) = None)) \in Runs
      <3>1. n # 0 => n - 1 \in Nat
        OBVIOUS
      <3> QED
        BY <3>1, StepType
    <2> QED
      BY <2>1
  <1>3. PICK f \in [Nat -> Runs] :
           f = [n \in Nat |-> IF n = 0 THEN NoRuns ELSE step[n][f[n - 1]]]
    <2> HIDE DEF step
    <2> QED
      BY <1>1, <1>2, Recursion
  <1>4. f = [n \in Nat |-> IF n = 0 THEN NoRuns
                           ELSE ScanStep(f[n - 1], n - 1, Stored(n - 1) = None)]
    <2>1. ASSUME NEW n \in Nat, n # 0
          PROVE  step[n][f[n - 1]] = ScanStep(f[n - 1], n - 1, Stored(n - 1) = None)
      <3>1. f[n - 1] \in Runs
        <4>1. n - 1 \in Nat
          BY <2>1
        <4> QED
          BY <1>3, <4>1
      <3> QED
        BY <2>1, <3>1
    <2> HIDE DEF step
    <2> QED
      BY <1>3, <2>1, Zenon
  <1>5. scanned = [n \in Nat |-> IF n = 0 THEN NoRuns
                                 ELSE ScanStep(scanned[n - 1], n - 1, Stored(n - 1) = None)]
    <2>1. \E g : g = [n \in Nat |-> IF n = 0 THEN NoRuns
                                    ELSE ScanStep(g[n - 1], n - 1, Stored(n - 1) = None)]
      BY <1>4
    <2> QED
      BY <2>1, Zenon DEF scanned, NoRuns
  <1>6. scanned[0] = NoRuns
    BY <1>5
  <1>7. ASSUME NEW n \in Nat
        PROVE  scanned[n + 1] = ScanStep(scanned[n], n, Stored(n) = None)
    <2>1. n + 1 \in Nat /\ n + 1 # 0 /\ (n + 1) - 1 = n
      OBVIOUS
    <2>2. scanned[n + 1] = ScanStep(scanned[(n + 1) - 1], (n + 1) - 1, Stored((n + 1) - 1) = None)
      BY <1>5, <2>1, Zenon
    <2> QED
      BY <2>1, <2>2
  <1>8. \A n \in Nat : scanned[n] \in Runs
    <2> DEFINE S == {n \in Nat : scanned[n] \in Runs}
    <2>1. 0 \in S
      BY <1>1, <1>6
    <2>2. ASSUME NEW n \in Nat, n \in S PROVE n + 1 \in S
      BY <1>7, <2>2, StepType
    <2>3. \A n \in Nat : n \in S
      <3> HIDE DEF S
      <3> QED
        BY <2>1, <2>2, Induction
    <2> QED
      BY <2>3
  <1> QED
    BY <1>6, <1>7, <1>8

\* What the runs say after n turns: they are the missing blocks below n, apart
\* from each other, and the run in hand ends with the block before n.
RunsExact(acc, n) ==
    LET m == acc.missing
        c == acc.current
    IN  /\ \A b \in Nat : b < n /\ Stored(b) = None <=>
              \/ \E i \in 1 .. Len(m) : m[i][1] <= b /\ b <= m[i][2]
              \/ c # None /\ c[1] <= b /\ b <= c[2]
        /\ \A i \in 1 .. Len(m) : m[i][1] <= m[i][2]
        /\ \A i \in 1 .. (Len(m) - 1) : m[i][2] + 1 < m[i + 1][1]
        /\ c = None => \A i \in 1 .. Len(m) : m[i][2] + 1 < n
        /\ c # None => /\ c[1] <= c[2] /\ c[2] + 1 = n
                       /\ \A i \in 1 .. Len(m) : m[i][2] + 1 < c[1]

\* Both ends of a recorded run are numbers.
LEMMA PairIsPair ==
    ASSUME NEW p \in Nat \X Nat
    PROVE  p[1] \in Nat /\ p[2] \in Nat /\ p # None
  BY ConstantsAssumption

\* A turn of the loop accounts for one block more, and for no other.
LEMMA ScanExact ==
    ASSUME NEW acc \in Runs, NEW n \in Nat, RunsExact(acc, n)
    PROVE  RunsExact(ScanStep(acc, n, Stored(n) = None), n + 1)
  <1> DEFINE m == acc.missing
             c == acc.current
             gap == Stored(n) = None
             after == ScanStep(acc, n, gap)
  <1>1. m \in Seq(Nat \X Nat) /\ (c = None \/ c \in Nat \X Nat) /\ Len(m) \in Nat
    BY DEF Runs
  <1>2. /\ \A i \in 1 .. Len(m) : m[i][1] \in Nat /\ m[i][2] \in Nat
        /\ c # None => c[1] \in Nat /\ c[2] \in Nat
    BY <1>1, PairIsPair
  <1>3. <<n, n>> # None /\ \A a \in Nat : <<a, n>> # None
    BY PairIsPair
  <1> DEFINE grown == Append(m, c)
  <1>4. c # None =>
           /\ Len(grown) = Len(m) + 1
           /\ \A i \in 1 .. Len(m) : grown[i] = m[i]
           /\ grown[Len(m) + 1] = c
    BY <1>1
  <1> HIDE DEF m, c, gap, grown
  <1>5. /\ \A b \in Nat : b < n /\ Stored(b) = None <=>
              \/ \E i \in 1 .. Len(m) : m[i][1] <= b /\ b <= m[i][2]
              \/ c # None /\ c[1] <= b /\ b <= c[2]
        /\ \A i \in 1 .. Len(m) : m[i][1] <= m[i][2]
        /\ \A i \in 1 .. (Len(m) - 1) : m[i][2] + 1 < m[i + 1][1]
        /\ c = None => \A i \in 1 .. Len(m) : m[i][2] + 1 < n
        /\ c # None => /\ c[1] <= c[2] /\ c[2] + 1 = n
                       /\ \A i \in 1 .. Len(m) : m[i][2] + 1 < c[1]
    BY DEF RunsExact, m, c
  <1>6. \A b \in Nat : b < n + 1 <=> b < n \/ b = n
    OBVIOUS
  <1>7. CASE gap /\ c = None
    <2>1. after.current = <<n, n>> /\ after.missing = m
      BY <1>7 DEF ScanStep, Runs, m, c
    <2> HIDE DEF after
    <2>2. \A b \in Nat : b < n + 1 /\ Stored(b) = None <=>
             \/ \E i \in 1 .. Len(m) : m[i][1] <= b /\ b <= m[i][2]
             \/ n <= b /\ b <= n
      BY <1>5, <1>6, <1>7 DEF gap
    <2>3. RunsExact(after, n + 1)
      BY <1>2, <1>3, <1>5, <1>7, <2>1, <2>2 DEF RunsExact
    <2> QED
      BY <2>3 DEF after, gap
  <1>8. CASE gap /\ c # None
    <2>1. after.current = <<c[1], n>> /\ after.missing = m
      BY <1>5, <1>8 DEF ScanStep, Runs, m, c
    <2> HIDE DEF after
    <2>2. \A b \in Nat : b < n + 1 /\ Stored(b) = None <=>
             \/ \E i \in 1 .. Len(m) : m[i][1] <= b /\ b <= m[i][2]
             \/ c[1] <= b /\ b <= n
      <3>1. \A b \in Nat : b <= c[2] <=> b < n
        BY <1>2, <1>5, <1>8
      <3>2. c[1] <= n
        BY <1>2, <1>5, <1>8
      <3> QED
        BY <1>2, <1>5, <1>6, <1>8, <3>1, <3>2 DEF gap
    <2>3. RunsExact(after, n + 1)
      BY <1>2, <1>3, <1>5, <1>8, <2>1, <2>2 DEF RunsExact
    <2> QED
      BY <2>3 DEF after, gap
  <1>9. CASE ~ gap /\ c = None
    <2>1. after = acc
      BY <1>9 DEF ScanStep, c
    <2>2. \A b \in Nat : b < n + 1 /\ Stored(b) = None <=> b < n /\ Stored(b) = None
      BY <1>6, <1>9 DEF gap
    <2>3. RunsExact(acc, n + 1)
      BY <1>1, <1>2, <1>5, <1>9, <2>2 DEF RunsExact, m, c
    <2> QED
      BY <2>1, <2>3 DEF gap
  <1>10. CASE ~ gap /\ c # None
    <2>1. after.current = None /\ after.missing = grown
      BY <1>10 DEF ScanStep, c, m, grown
    <2> HIDE DEF after
    <2>2. \A b \in Nat : b < n + 1 /\ Stored(b) = None <=> b < n /\ Stored(b) = None
      BY <1>6, <1>10 DEF gap
    <2>3. \A i \in 1 .. Len(grown) : i \in 1 .. Len(m) \/ i = Len(m) + 1
      BY <1>1, <1>4, <1>10
    <2>4. \A b \in Nat : b < n + 1 /\ Stored(b) = None <=>
             \E i \in 1 .. Len(grown) : grown[i][1] <= b /\ b <= grown[i][2]
      <3> SUFFICES ASSUME NEW b \in Nat
                   PROVE  (\/ \E i \in 1 .. Len(m) : m[i][1] <= b /\ b <= m[i][2]
                           \/ c[1] <= b /\ b <= c[2])
                          <=> \E i \in 1 .. Len(grown) : grown[i][1] <= b /\ b <= grown[i][2]
        BY <1>5, <1>10, <2>2
      <3>1. ASSUME NEW i \in 1 .. Len(m), m[i][1] <= b, b <= m[i][2]
            PROVE  \E j \in 1 .. Len(grown) : grown[j][1] <= b /\ b <= grown[j][2]
        <4>1. i \in 1 .. Len(grown) /\ grown[i] = m[i]
          BY <1>1, <1>4, <1>10
        <4> QED
          BY <3>1, <4>1
      <3>2. ASSUME c[1] <= b, b <= c[2]
            PROVE  \E j \in 1 .. Len(grown) : grown[j][1] <= b /\ b <= grown[j][2]
        <4>1. Len(m) + 1 \in 1 .. Len(grown) /\ grown[Len(m) + 1] = c
          BY <1>1, <1>4, <1>10
        <4> QED
          BY <3>2, <4>1
      <3>3. ASSUME NEW i \in 1 .. Len(grown), grown[i][1] <= b, b <= grown[i][2]
            PROVE  \/ \E j \in 1 .. Len(m) : m[j][1] <= b /\ b <= m[j][2]
                   \/ c[1] <= b /\ b <= c[2]
        BY <1>4, <1>10, <2>3, <3>3
      <3> QED
        BY <3>1, <3>2, <3>3
    <2>5. \A i \in 1 .. Len(grown) : grown[i][1] <= grown[i][2] /\ grown[i][2] + 1 < n + 1
      <3> SUFFICES ASSUME NEW i \in 1 .. Len(grown)
                   PROVE  grown[i][1] <= grown[i][2] /\ grown[i][2] + 1 < n + 1
        OBVIOUS
      <3>1. CASE i \in 1 .. Len(m)
        BY <1>2, <1>4, <1>5, <1>10, <3>1
      <3>2. CASE i = Len(m) + 1
        BY <1>2, <1>4, <1>5, <1>10, <3>2
      <3> QED
        BY <2>3, <3>1, <3>2
    <2>6. \A i \in 1 .. (Len(grown) - 1) : grown[i][2] + 1 < grown[i + 1][1]
      <3> SUFFICES ASSUME NEW i \in 1 .. (Len(grown) - 1)
                   PROVE  grown[i][2] + 1 < grown[i + 1][1]
        OBVIOUS
      <3>1. i \in 1 .. Len(m) /\ grown[i] = m[i]
        BY <1>1, <1>4, <1>10
      <3>2. CASE i \in 1 .. (Len(m) - 1)
        <4>1. grown[i + 1] = m[i + 1]
          BY <1>1, <1>4, <1>10, <3>2
        <4> QED
          BY <1>5, <3>1, <3>2, <4>1
      <3>3. CASE i = Len(m)
        BY <1>4, <1>5, <1>10, <3>1, <3>3
      <3> QED
        BY <1>1, <3>1, <3>2, <3>3
    <2>7. RunsExact(after, n + 1)
      BY <2>1, <2>4, <2>5, <2>6 DEF RunsExact
    <2> QED
      BY <2>7 DEF after, gap
  <1> QED
    BY <1>7, <1>8, <1>9, <1>10

\* What finalize_report has when the loop ends (MissingRanges).
LEMMA RangesExact ==
    ASSUME NEW total \in Nat, metadata.total_blocks = total
    PROVE  LET r == MissingRanges
               gaps == {b \in 0 .. (total - 1) : Stored(b) = None}
           IN  /\ r \in Seq(Nat \X Nat)
               /\ gaps = UNION {r[i][1] .. r[i][2] : i \in DOMAIN r}
               /\ \A i \in DOMAIN r : r[i][1] <= r[i][2]
               /\ \A i \in 1 .. (Len(r) - 1) : r[i][2] + 1 < r[i + 1][1]
               /\ r = <<>> <=> gaps = {}
  <1> DEFINE S == {n \in Nat : RunsExact(scanned[n], n)}
             acc == scanned[total]
             m == acc.missing
             c == acc.current
             r == MissingRanges
             gaps == {b \in 0 .. (total - 1) : Stored(b) = None}
  <1>1. 0 \in S
    <2>1. Len(<<>>) = 0 /\ NoRuns.missing = <<>> /\ NoRuns.current = None
      BY DEF NoRuns
    <2>2. RunsExact(NoRuns, 0)
      BY <2>1 DEF RunsExact
    <2> QED
      BY <2>2, ScanTurns
  <1>2. ASSUME NEW n \in Nat, n \in S PROVE n + 1 \in S
    <2>1. RunsExact(scanned[n], n) /\ scanned[n] \in Runs
      BY <1>2, ScanTurns
    <2>2. RunsExact(ScanStep(scanned[n], n, Stored(n) = None), n + 1)
      BY <2>1, ScanExact
    <2>3. RunsExact(scanned[n + 1], n + 1)
      BY <2>2, ScanTurns
    <2> QED
      BY <2>3
  <1>3. RunsExact(acc, total) /\ acc \in Runs
    <2>1. \A n \in Nat : n \in S
      <3> HIDE DEF S
      <3> QED
        BY <1>1, <1>2, Induction
    <2> QED
      BY <2>1, ScanTurns
  <1>4. r = IF c = None THEN m ELSE Append(m, c)
    BY DEF MissingRanges
  <1>5. m \in Seq(Nat \X Nat) /\ (c = None \/ c \in Nat \X Nat) /\ Len(m) \in Nat
    BY <1>3 DEF Runs
  <1>6. /\ \A b \in Nat : b < total /\ Stored(b) = None <=>
              \/ \E i \in 1 .. Len(m) : m[i][1] <= b /\ b <= m[i][2]
              \/ c # None /\ c[1] <= b /\ b <= c[2]
        /\ \A i \in 1 .. Len(m) : m[i][1] <= m[i][2]
        /\ \A i \in 1 .. (Len(m) - 1) : m[i][2] + 1 < m[i + 1][1]
        /\ c # None => /\ c[1] <= c[2]
                       /\ \A i \in 1 .. Len(m) : m[i][2] + 1 < c[1]
    BY <1>3 DEF RunsExact
  <1> HIDE DEF r, m, c, acc
  <1>7. r \in Seq(Nat \X Nat) /\ Len(r) \in Nat /\ DOMAIN r = 1 .. Len(r)
    BY <1>4, <1>5
  <1>8. \A i \in 1 .. Len(r) : r[i][1] \in Nat /\ r[i][2] \in Nat
    BY <1>7, PairIsPair
  <1>9. c # None => /\ Len(r) = Len(m) + 1
                    /\ \A i \in 1 .. Len(m) : r[i] = m[i]
                    /\ r[Len(m) + 1] = c
    BY <1>4, <1>5
  <1>10. \A b \in Nat : b < total /\ Stored(b) = None <=>
            \E i \in 1 .. Len(r) : r[i][1] <= b /\ b <= r[i][2]
    <2>1. CASE c = None
      BY <1>4, <1>6, <2>1
    <2>2. CASE c # None
      <3> SUFFICES ASSUME NEW b \in Nat
                   PROVE  (\/ \E i \in 1 .. Len(m) : m[i][1] <= b /\ b <= m[i][2]
                           \/ c[1] <= b /\ b <= c[2])
                          <=> \E i \in 1 .. Len(r) : r[i][1] <= b /\ b <= r[i][2]
        BY <1>6, <2>2
      <3>1. ASSUME NEW i \in 1 .. Len(m), m[i][1] <= b, b <= m[i][2]
            PROVE  \E j \in 1 .. Len(r) : r[j][1] <= b /\ b <= r[j][2]
        <4>1. i \in 1 .. Len(r) /\ r[i] = m[i]
          BY <1>5, <1>9, <2>2
        <4> QED
          BY <3>1, <4>1
      <3>2. ASSUME c[1] <= b, b <= c[2]
            PROVE  \E j \in 1 .. Len(r) : r[j][1] <= b /\ b <= r[j][2]
        <4>1. Len(m) + 1 \in 1 .. Len(r) /\ r[Len(m) + 1] = c
          BY <1>5, <1>9, <2>2
        <4> QED
          BY <3>2, <4>1
      <3>3. ASSUME NEW i \in 1 .. Len(r), r[i][1] <= b, b <= r[i][2]
            PROVE  \/ \E j \in 1 .. Len(m) : m[j][1] <= b /\ b <= m[j][2]
                   \/ c[1] <= b /\ b <= c[2]
        <4>1. i \in 1 .. Len(m) \/ i = Len(m) + 1
          BY <1>5, <1>9, <2>2
        <4> QED
          BY <1>9, <2>2, <3>3, <4>1
      <3> QED
        BY <3>1, <3>2, <3>3
    <2> QED
      BY <2>1, <2>2
  <1>11. \A i \in 1 .. Len(r) : r[i][1] <= r[i][2]
    <2>1. CASE c = None
      BY <1>4, <1>6, <2>1
    <2>2. CASE c # None
      <3> SUFFICES ASSUME NEW i \in 1 .. Len(r) PROVE r[i][1] <= r[i][2]
        OBVIOUS
      <3>1. i \in 1 .. Len(m) \/ i = Len(m) + 1
        BY <1>5, <1>9, <2>2
      <3> QED
        BY <1>6, <1>9, <2>2, <3>1
    <2> QED
      BY <2>1, <2>2
  <1>12. \A i \in 1 .. (Len(r) - 1) : r[i][2] + 1 < r[i + 1][1]
    <2>1. CASE c = None
      BY <1>4, <1>6, <2>1
    <2>2. CASE c # None
      <3> SUFFICES ASSUME NEW i \in 1 .. (Len(r) - 1) PROVE r[i][2] + 1 < r[i + 1][1]
        OBVIOUS
      <3>1. i \in 1 .. Len(m) /\ r[i] = m[i]
        BY <1>5, <1>9, <2>2
      <3>2. CASE i \in 1 .. (Len(m) - 1)
        <4>1. i + 1 \in 1 .. Len(m)
          BY <1>5, <3>2
        <4>2. r[i + 1] = m[i + 1]
          BY <1>9, <2>2, <4>1
        <4> QED
          BY <1>6, <3>1, <3>2, <4>2
      <3>3. CASE i = Len(m)
        BY <1>6, <1>9, <2>2, <3>1, <3>3
      <3> QED
        BY <1>5, <3>1, <3>2, <3>3
    <2> QED
      BY <2>1, <2>2
  <1>13. \A b \in Nat : b \in gaps <=> \E i \in 1 .. Len(r) : b \in r[i][1] .. r[i][2]
    BY <1>8, <1>10
  <1>14. gaps = UNION {r[i][1] .. r[i][2] : i \in DOMAIN r}
    <2>1. gaps \subseteq Nat
      OBVIOUS
    <2>2. UNION {r[i][1] .. r[i][2] : i \in DOMAIN r} \subseteq Nat
      BY <1>7, <1>8
    <2> HIDE DEF gaps
    <2> QED
      BY <1>7, <1>13, <2>1, <2>2
  <1>15. r = <<>> <=> gaps = {}
    <2>1. ASSUME r # <<>> PROVE gaps # {}
      <3>1. 1 \in 1 .. Len(r)
        BY <1>7, <2>1
      <3>2. r[1][1] \in gaps
        BY <1>8, <1>11, <1>13, <3>1
      <3> QED
        BY <3>2
    <2>2. ASSUME r = <<>> PROVE gaps = {}
      BY <1>7, <1>14, <2>2
    <2> QED
      BY <2>1, <2>2
  <1> QED
    BY <1>7, <1>11, <1>12, <1>14, <1>15 DEF r

-----------------------------------------------------------------------------
(* The bytes that are returned.                                            *)

\* A pinned description is one that validate_header_invariants let through.
MetadataValid ==
    metadata # None =>
        /\ metadata.file_size # 0
        /\ metadata.total_blocks = expected_total_blocks(metadata.file_size)

\* Only a description that passed validate_header_invariants is pinned.
LEMMA MetadataValidStep == IInv /\ MetadataValid /\ [Next]_vars => MetadataValid'
  <1> SUFFICES ASSUME IInv, MetadataValid, [Next]_vars PROVE MetadataValid'
    OBVIOUS
  <1>1. CASE UNCHANGED metadata
    BY <1>1 DEF MetadataValid, expected_total_blocks
  <1>2. ASSUME NEW s \in Inputs, Admitted(s) PROVE MetadataValid'
    <2>1. metadata' = MetadataOf(s) /\ validate_header_invariants(s)
      BY <1>2 DEF Admitted, WellFormed
    <2>2. metadata'.file_size = s.file_size /\ metadata'.total_blocks = s.total_blocks
      BY <2>1 DEF MetadataOf
    <2> QED
      BY <2>1, <2>2 DEF MetadataValid, validate_header_invariants, expected_total_blocks
  <1>3. ASSUME NEW s \in Inputs, AddSymbol(s) PROVE MetadataValid'
    BY <1>1, <1>2, <1>3 DEF AddSymbol, RejectHeader, RejectIndex, RejectRange, RejectMetadata,
       Rejected, store, RejectMovedDuplicate, MergeDuplicate, RejectOverlap, InsertSymbol
  <1>4. CASE FinalizeReport
    BY <1>1, <1>4 DEF FinalizeReport, store
  <1>5. CASE UNCHANGED vars
    BY <1>1, <1>5 DEF vars
  <1> QED
    BY <1>3, <1>4, <1>5 DEF Next

\* The last block is neither empty nor longer than a block.
LEMMA LastBlock ==
    ASSUME NEW size \in Nat \ {0}
    PROVE  /\ expected_total_blocks(size) \in Nat \ {0}
           /\ size - (expected_total_blocks(size) - 1) * BlockSize \in 1 .. BlockSize
  <1> DEFINE a == size + BlockSize - 1
             t == a \div BlockSize
  <1>1. BlockSize \in Nat \ {0} /\ a \in Nat /\ a >= BlockSize
    BY ConstantsAssumption
  <1>2. t \in Nat /\ a % BlockSize \in 0 .. (BlockSize - 1) /\ a = BlockSize * t + (a % BlockSize)
    <2> HIDE DEF a
    <2> QED
      BY <1>1
  <1> HIDE DEF t
  <1>3. t # 0
    BY <1>1, <1>2
  <1>4. (t - 1) * BlockSize = BlockSize * t - BlockSize
    BY <1>1, <1>2
  <1>5. BlockSize * t \in Nat
    BY <1>1, <1>2
  <1>6. size - (t - 1) * BlockSize = 1 + (a % BlockSize)
    BY <1>1, <1>2, <1>4, <1>5
  <1> QED
    BY <1>1, <1>2, <1>3, <1>6 DEF expected_total_blocks, t

\* The byte of a block that the byte p of the file is, counted from 1.
ByteOf(p) == blocks[(p - 1) \div BlockSize].raw[((p - 1) % BlockSize) + 1]

\* A stored block holds as many bytes as its place in the file calls for.
LEMMA StoredBytes ==
    ASSUME IInv, MetadataValid, metadata # None,
           \A b \in 0 .. (metadata.total_blocks - 1) : Stored(b) # None,
           NEW b \in 0 .. (metadata.total_blocks - 1)
    PROVE  /\ b \in DOMAIN blocks /\ blocks[b] # None
           /\ Decodes(blocks[b], expected_block_size(metadata.file_size,
                                                     metadata.total_blocks, b))
           /\ blocks[b].raw \in Seq(Bytes)
           /\ Len(blocks[b].raw) =
                 expected_block_size(metadata.file_size, metadata.total_blocks, b)
  <1>1. b \in DOMAIN blocks /\ blocks[b] # None
    BY DEF Stored
  <1>2. blocks[b] \in BlockEntry
    BY <1>1 DEF IInv, TypeOK
  <1>3. Decodes(blocks[b], expected_block_size(metadata.file_size, metadata.total_blocks, b))
    BY <1>1 DEF IInv, StoredBlocksDecode
  <1>4. blocks[b].raw \in Seq(Bytes)
    BY <1>2 DEF BlockEntry
  <1>5. Len(blocks[b].raw) =
           expected_block_size(metadata.file_size, metadata.total_blocks, b)
    BY <1>3 DEF Decodes
  <1> QED
    BY <1>1, <1>3, <1>4, <1>5

\* The loop that rebuilds a complete file puts every byte at its place, and the
\* final truncation removes none.
LEMMA RebuiltSpells ==
    ASSUME IInv, MetadataValid, metadata # None,
           \A b \in 0 .. (metadata.total_blocks - 1) : Stored(b) # None
    PROVE  /\ Rebuilt \in Seq(Bytes)
           /\ Len(Rebuilt) = metadata.file_size
           /\ \A p \in 1 .. metadata.file_size :
                 /\ Rebuilt[p] = ByteOf(p)
                 /\ (p - 1) \div BlockSize \in 0 .. (metadata.total_blocks - 1)
  <1> DEFINE size == metadata.file_size
             total == metadata.total_blocks
             last == size - (total - 1) * BlockSize
             raw(b) == blocks[b].raw
             bytes == Seq(Bytes)
             step == [n \in Nat |-> [acc \in bytes |->
                         IF n \in 1 .. total THEN acc \o raw(n - 1) ELSE acc]]
  <1>1. size \in Nat \ {0} /\ total = expected_total_blocks(size)
    BY DEF IInv, TypeOK, MetadataValid, ReassemblyMetadata
  <1>2. /\ total \in Nat \ {0} /\ last \in 1 .. BlockSize /\ BlockSize \in Nat \ {0}
        /\ size = (total - 1) * BlockSize + last
    <2>1. total \in Nat \ {0} /\ last \in 1 .. BlockSize /\ BlockSize \in Nat \ {0}
      BY <1>1, LastBlock, ConstantsAssumption
    <2>2. (total - 1) * BlockSize \in Nat
      BY <2>1
    <2> QED
      BY <1>1, <2>1, <2>2
  <1> HIDE DEF size, total
  <1>3. ASSUME NEW b \in 0 .. (total - 1)
        PROVE  /\ raw(b) \in bytes
               /\ Len(raw(b)) = IF b + 1 < total THEN BlockSize ELSE last
    <2>1. raw(b) \in bytes /\ Len(raw(b)) = expected_block_size(size, total, b)
      BY StoredBytes DEF total, size
    <2> QED
      BY <2>1 DEF expected_block_size
  <1> HIDE DEF raw, bytes, last
  <1>4. <<>> \in bytes /\ \A x, y \in bytes : x \o y \in bytes /\ Len(x) \in Nat
    BY DEF bytes
  <1>5. step \in [Nat -> [bytes -> bytes]]
    <2>1. ASSUME NEW n \in Nat, NEW acc \in bytes
          PROVE  (IF n \in 1 .. total THEN acc \o raw(n - 1) ELSE acc) \in bytes
      <3>1. n \in 1 .. total => n - 1 \in 0 .. (total - 1)
        BY <1>2
      <3> QED
        BY <1>3, <1>4, <3>1
    <2> QED
      BY <2>1
  <1>6. PICK f : CountsOn(f, bytes, <<>>, step)
    <2> HIDE DEF step
    <2>1. <<>> \in bytes
      BY <1>4
    <2> QED
      BY <1>5, <2>1, RecursionAt
  <1>7. \E g : g = [n \in 0 .. total |-> IF n = 0 THEN <<>> ELSE g[n - 1] \o raw(n - 1)]
    <2> DEFINE g == [n \in 0 .. total |-> f[n]]
    <2>1. ASSUME NEW n \in 0 .. total
          PROVE  g[n] = IF n = 0 THEN <<>> ELSE g[n - 1] \o raw(n - 1)
      <3>1. n \in Nat /\ (n # 0 => n \in 1 .. total /\ n - 1 \in 0 .. total /\ n - 1 \in Nat)
        BY <1>2
      <3>2. g[n] = IF n = 0 THEN <<>> ELSE step[n][f[n - 1]]
        <4> HIDE DEF step
        <4> QED
          BY <1>6, <3>1 DEF CountsOn
      <3>3. n # 0 => f[n - 1] \in bytes /\ g[n - 1] = f[n - 1]
        BY <1>6, <3>1 DEF CountsOn
      <3>4. n # 0 => step[n][f[n - 1]] = f[n - 1] \o raw(n - 1)
        BY <3>1, <3>3
      <3> HIDE DEF step, g
      <3> QED
        BY <3>2, <3>3, <3>4
    <2>2. g = [n \in 0 .. total |-> IF n = 0 THEN <<>> ELSE g[n - 1] \o raw(n - 1)]
      <3>1. g = [n \in 0 .. total |-> g[n]]
        OBVIOUS
      <3> HIDE DEF g
      <3> QED
        BY <2>1, <3>1, Zenon
    <2> HIDE DEF g
    <2> QED
      BY <2>2
  <1>8. out = [n \in 0 .. total |-> IF n = 0 THEN <<>> ELSE out[n - 1] \o raw(n - 1)]
    BY <1>7, Zenon DEF out, total, raw
  <1> DEFINE Upto(n) == IF n < total THEN n * BlockSize ELSE size
             Spells(n) == /\ out[n] \in bytes
                          /\ Len(out[n]) = Upto(n)
                          /\ \A p \in 1 .. Upto(n) :
                                /\ out[n][p] = ByteOf(p)
                                /\ (p - 1) \div BlockSize \in 0 .. (total - 1)
             S == {n \in Nat : n <= total => Spells(n)}
  <1>9. 0 \in S
    <2>1. out[0] = <<>> /\ Upto(0) = 0 /\ Len(<<>>) = 0
      BY <1>2, <1>8
    <2> QED
      BY <1>4, <2>1
  <1>10. ASSUME NEW n \in Nat, n \in S PROVE n + 1 \in S
    <2> SUFFICES ASSUME n + 1 <= total PROVE Spells(n + 1)
      OBVIOUS
    <2> DEFINE a == out[n]
               c == raw(n)
               e == out[n + 1]
    <2>1. n < total /\ n \in 0 .. (total - 1) /\ Upto(n) = n * BlockSize /\ n * BlockSize \in Nat
      BY <1>2
    <2>2. a \in bytes /\ Len(a) = n * BlockSize
          /\ \A p \in 1 .. n * BlockSize : /\ a[p] = ByteOf(p)
                                          /\ (p - 1) \div BlockSize \in 0 .. (total - 1)
      <3>1. Spells(n)
        <4>1. n <= total
          BY <1>2, <2>1
        <4> HIDE DEF Spells
        <4> QED
          BY <1>10, <4>1
      <3> QED
        BY <2>1, <3>1
    <2>3. c \in bytes /\ Len(c) \in 1 .. BlockSize
          /\ Len(c) = IF n + 1 < total THEN BlockSize ELSE last
      BY <1>2, <1>3, <2>1
    <2>4. e = a \o c
      <3>1. n + 1 \in 0 .. total /\ n + 1 # 0 /\ (n + 1) - 1 = n
        BY <1>2
      <3>2. out[n + 1] = out[(n + 1) - 1] \o raw((n + 1) - 1)
        BY <1>8, <3>1, Zenon
      <3> QED
        BY <3>1, <3>2
    <2>5. Upto(n + 1) = n * BlockSize + Len(c)
      <3>1. CASE n + 1 < total
        <4>1. (n + 1) * BlockSize = n * BlockSize + BlockSize
          BY <1>2
        <4> QED
          BY <2>3, <3>1, <4>1
      <3>2. CASE n + 1 = total
        <4>1. total - 1 = n
          BY <3>2
        <4>2. size = n * BlockSize + last
          BY <1>2, <4>1
        <4> QED
          BY <1>2, <2>3, <3>2, <4>2
      <3> QED
        BY <1>2, <3>1, <3>2
    <2> HIDE DEF a, c, e, Upto
    <2>6. e \in bytes /\ Len(e) = Len(a) + Len(c)
          /\ \A p \in 1 .. Len(a) + Len(c) : e[p] = IF p <= Len(a) THEN a[p] ELSE c[p - Len(a)]
      BY <2>2, <2>3, <2>4, ConcatProperties DEF bytes
    <2>7. ASSUME NEW p \in 1 .. Upto(n + 1)
          PROVE  e[p] = ByteOf(p) /\ (p - 1) \div BlockSize \in 0 .. (total - 1)
      <3>1. CASE p <= n * BlockSize
        BY <2>1, <2>2, <2>3, <2>5, <2>6, <3>1
      <3>2. CASE p > n * BlockSize
        <4> DEFINE r == p - 1 - n * BlockSize
        <4>1. r \in 0 .. (BlockSize - 1) /\ p - 1 = n * BlockSize + r
          BY <1>2, <2>1, <2>3, <2>5, <3>2
        <4>2. (p - 1) \div BlockSize = n /\ (p - 1) % BlockSize = r
          <5> HIDE DEF r
          <5> QED
            BY <1>2, <4>1, DivisionIsUnique
        <4>3. e[p] = c[p - n * BlockSize] /\ p - n * BlockSize = r + 1
          BY <2>1, <2>2, <2>3, <2>5, <2>6, <3>2
        <4> HIDE DEF r
        <4> QED
          BY <2>1, <4>2, <4>3 DEF ByteOf, c, raw
      <3> QED
        BY <2>1, <2>3, <2>5, <3>1, <3>2
    <2>8. Len(e) = Upto(n + 1)
      BY <2>2, <2>5, <2>6
    <2> QED
      BY <2>6, <2>7, <2>8 DEF e
  <1>11. Spells(total)
    <2>1. \A n \in Nat : n \in S
      <3> HIDE DEF S
      <3> QED
        BY <1>9, <1>10, Induction
    <2>2. total \in S
      BY <1>2, <2>1
    <2> HIDE DEF Spells
    <2> QED
      BY <1>2, <2>2
  <1>12. Rebuilt = out[total]
    <2> DEFINE all == out[total]
    <2>1. all \in bytes /\ Len(all) = size
      BY <1>2, <1>11
    <2>2. Rebuilt = SubSeq(all, 1, IF Len(all) < size THEN Len(all) ELSE size)
      BY DEF Rebuilt, total, size
    <2> HIDE DEF all
    <2>3. Rebuilt = SubSeq(all, 1, Len(all))
      BY <1>1, <2>1, <2>2
    <2>4. Rebuilt = all
      BY <2>1, <2>3, SubSeqFull DEF bytes
    <2> QED
      BY <2>4 DEF all
  <1> QED
    <2>1. Upto(total) = size
      BY <1>2
    <2> QED
      BY <1>11, <1>12, <2>1 DEF size, total, bytes
-----------------------------------------------------------------------------
(* What finalize_report returns.                                           *)

\* No call of add_symbol touches the report, and none comes after it.
LEMMA ReportUntouched ==
    ASSUME NEW s \in Inputs, AddSymbol(s)
    PROVE  report = None /\ report' = None
  BY DEF AddSymbol, RejectHeader, RejectIndex, RejectRange, RejectMetadata, Rejected,
     RejectMovedDuplicate, MergeDuplicate, RejectOverlap, InsertSymbol, Admitted

\* Once something is pinned, each answer of finalize_report has its condition;
\* that a stored block does not decode is not among them.
LEMMA ReportCases ==
    ASSUME IInv, MetadataValid, metadata # None
    PROVE  LET gaps == {b \in 0 .. (metadata.total_blocks - 1) : Stored(b) = None}
           IN  /\ gaps # {} => finalize_report =
                     [status |-> "MissingBlocks", ranges |-> MissingRanges]
               /\ gaps = {} => finalize_report =
                     [status |-> IF Rebuilt = metadata.global_hash THEN "Verified"
                                 ELSE "Mismatch",
                      bytes |-> Rebuilt]
  <1> DEFINE gaps == {b \in 0 .. (metadata.total_blocks - 1) : Stored(b) = None}
  <1>1. metadata \in ReassemblyMetadata
    BY DEF IInv, TypeOK
  <1>2. metadata.total_blocks \in Nat
    BY <1>1 DEF ReassemblyMetadata
  <1>3. MissingRanges = <<>> <=> gaps = {}
    BY <1>2, RangesExact
  <1>4. gaps = {} => Undecodable = {}
    <2> SUFFICES ASSUME gaps = {}, NEW b \in 0 .. (metadata.total_blocks - 1)
                 PROVE  Decodes(blocks[b], expected_block_size(metadata.file_size,
                                                               metadata.total_blocks, b))
      BY DEF Undecodable
    <2>1. \A c \in 0 .. (metadata.total_blocks - 1) : Stored(c) # None
      OBVIOUS
    <2> QED
      BY <2>1, StoredBytes
  <1> HIDE DEF gaps
  <1>5. gaps # {} => finalize_report = [status |-> "MissingBlocks", ranges |-> MissingRanges]
    BY <1>3 DEF finalize_report
  <1>6. gaps = {} => finalize_report =
           [status |-> IF Rebuilt = metadata.global_hash THEN "Verified" ELSE "Mismatch",
            bytes |-> Rebuilt]
    BY <1>3, <1>4 DEF finalize_report
  <1> QED
    BY <1>5, <1>6 DEF gaps

\* The report is exact when it is given, and nothing is stored after it.
LEMMA ReportStep ==
    IInv /\ MetadataValid /\ MissingReportExact /\ [Next]_vars => MissingReportExact'
  <1> SUFFICES ASSUME IInv, MetadataValid, MissingReportExact, [Next]_vars
               PROVE  MissingReportExact'
    OBVIOUS
  <1>1. ASSUME NEW s \in Inputs, AddSymbol(s) PROVE MissingReportExact'
    BY <1>1, ReportUntouched DEF MissingReportExact
  <1>2. CASE UNCHANGED vars
    BY <1>2 DEF vars, MissingReportExact, Stored
  <1>3. CASE FinalizeReport
    <2>1. report' = finalize_report /\ UNCHANGED metadata /\ UNCHANGED blocks
      BY <1>3 DEF FinalizeReport, store
    <2> DEFINE Exact(rep) ==
                 LET gaps == {b \in 0 .. (metadata.total_blocks - 1) : Stored(b) = None}
                 IN  IF gaps = {} THEN rep.status # "MissingBlocks"
                     ELSE LET r == rep.ranges IN
                          /\ gaps = UNION {r[i][1] .. r[i][2] : i \in DOMAIN r}
                          /\ \A i \in DOMAIN r : r[i][1] <= r[i][2]
                          /\ \A i \in 1 .. (Len(r) - 1) : r[i][2] + 1 < r[i + 1][1]
    <2>2. ASSUME metadata # None PROVE Exact(finalize_report)
      <3> DEFINE gaps == {b \in 0 .. (metadata.total_blocks - 1) : Stored(b) = None}
                 r == MissingRanges
      <3>1. metadata.total_blocks \in Nat
        BY <2>2 DEF IInv, TypeOK, ReassemblyMetadata
      <3>2. /\ gaps = UNION {r[i][1] .. r[i][2] : i \in DOMAIN r}
            /\ \A i \in DOMAIN r : r[i][1] <= r[i][2]
            /\ \A i \in 1 .. (Len(r) - 1) : r[i][2] + 1 < r[i + 1][1]
        BY <3>1, RangesExact
      <3>3. CASE gaps = {}
        <4>1. finalize_report.status # "MissingBlocks"
          BY <2>2, <3>3, ReportCases
        <4> QED
          BY <3>3, <4>1
      <3>4. CASE gaps # {}
        <4>1. finalize_report.ranges = r
          BY <2>2, <3>4, ReportCases
        <4> HIDE DEF r
        <4> QED
          BY <3>2, <3>4, <4>1
      <3> QED
        BY <3>3, <3>4
    <2> QED
      BY <2>1, <2>2 DEF MissingReportExact, Stored
  <1> QED
    BY <1>1, <1>2, <1>3 DEF Next

\* Both halves of the invariant hold in every reachable state.
LEMMA ValidInvariance == Spec => [](IInv /\ MetadataValid)
  <1>1. Init => MetadataValid
    BY DEF Init, MetadataValid
  <1> QED
    BY <1>1, MetadataValidStep, Invariance, PTL DEF Spec

\* The ranges finalize_report names are the missing blocks, all of them and no
\* other, in order and as few ranges as there can be.
THEOREM MissingExact == Spec => []MissingReportExact
  <1>1. Init => MissingReportExact
    BY DEF Init, MissingReportExact
  <1> QED
    BY <1>1, ReportStep, ValidInvariance, PTL DEF Spec
-----------------------------------------------------------------------------
(* The promise of FileAssembly.                                            *)

Seen == <<metadata, [b \in KnownBlocks |-> blocks[b].raw],
          IF report = None THEN None ELSE report.status>>

\* What a report says is never None, so it counts as the one answer.
LEMMA ReportGiven ==
    ASSUME IInv, MetadataValid
    PROVE  finalize_report # None
  <1>1. CASE metadata = None
    <2>1. finalize_report = [status |-> "MissingBlocks", ranges |-> << <<0, 0>> >>]
      BY <1>1 DEF finalize_report
    <2>2. << <<0, 0>> >> \in Seq(Nat \X Nat)
      OBVIOUS
    <2>3. finalize_report \in Reports
      BY <2>1, <2>2 DEF Reports
    <2> QED
      BY <2>3, ConstantsAssumption
  <1>2. CASE metadata # None
    <2> DEFINE gaps == {b \in 0 .. (metadata.total_blocks - 1) : Stored(b) = None}
    <2>1. CASE gaps # {}
      <3>1. metadata.total_blocks \in Nat
        BY <1>2 DEF IInv, TypeOK, ReassemblyMetadata
      <3>2. MissingRanges \in Seq(Nat \X Nat)
        BY <3>1, RangesExact
      <3>3. finalize_report = [status |-> "MissingBlocks", ranges |-> MissingRanges]
        BY <1>2, <2>1, ReportCases
      <3>4. finalize_report \in Reports
        BY <3>2, <3>3 DEF Reports
      <3> QED
        BY <3>4, ConstantsAssumption
    <2>2. CASE gaps = {}
      <3>1. \A b \in 0 .. (metadata.total_blocks - 1) : Stored(b) # None
        BY <2>2
      <3>2. Rebuilt \in Seq(Bytes)
        BY <1>2, <3>1, RebuiltSpells
      <3>3. finalize_report = [status |-> IF Rebuilt = metadata.global_hash THEN "Verified"
                                          ELSE "Mismatch",
                               bytes |-> Rebuilt]
        BY <1>2, <2>2, ReportCases
      <3>4. finalize_report \in Reports
        BY <3>2, <3>3 DEF Reports
      <3> QED
        BY <3>4, ConstantsAssumption
    <2> QED
      BY <2>1, <2>2
  <1> QED
    BY <1>1, <1>2

\* The blocks with an entry are those of the file that was pinned.
LEMMA BlocksOfFile ==
    ASSUME IInv
    PROVE  DOMAIN blocks \subseteq 0 .. (metadata.total_blocks - 1)
  BY DEF IInv, RangesPartitionBlocks

\* An accepted or refused symbol teaches something of the one file, or nothing.
LEMMA LearnStep ==
    ASSUME IInv, NEW s \in Inputs, AddSymbol(s)
    PROVE  Assembly!Learn \/ UNCHANGED Seen
  <1>1. report = None /\ report' = None
    BY ReportUntouched
  <1>2. CASE UNCHANGED store
    BY <1>1, <1>2 DEF store, Seen, KnownBlocks
  <1>3. CASE MergeDuplicate(s) \/ InsertSymbol(s)
    <2>1. metadata' = MetadataOf(s) /\ metadata \in {None, metadata'} /\ metadata' # None
      BY <1>3, MetadataType DEF MergeDuplicate, InsertSymbol, Admitted, AdmitsMetadata
    <2>2. \A b \in KnownBlocks : b \in KnownBlocks' /\ blocks'[b] = blocks[b]
      BY KeptByCall DEF KnownBlocks
    <2>3. IInv'
      BY AddSymbolInv
    <2>4. KnownBlocks' \subseteq 0 .. (metadata'.total_blocks - 1)
      BY <2>3 DEF KnownBlocks, IInv, RangesPartitionBlocks
    <2> QED
      BY <1>1, <2>1, <2>2, <2>4 DEF Assembly!Learn
  <1>4. CASE RejectMovedDuplicate(s) \/ RejectOverlap(s)
    BY <1>2, <1>4, RejectStoredInv
  <1> QED
    BY <1>2, <1>3, <1>4
    DEF AddSymbol, RejectHeader, RejectIndex, RejectRange, RejectMetadata, Rejected

\* The bytes rebuilt from the whole store are those its blocks spell.
LEMMA RebuiltIsContents ==
    ASSUME IInv, MetadataValid, metadata # None,
           KnownBlocks = 0 .. (metadata.total_blocks - 1)
    PROVE  Rebuilt = Assembly!Contents
  <1> DEFINE size == metadata.file_size
             known == [b \in KnownBlocks |-> blocks[b].raw]
  <1>1. \A b \in 0 .. (metadata.total_blocks - 1) : Stored(b) # None
    BY DEF KnownBlocks, Stored
  <1>2. size \in Nat
    BY DEF IInv, TypeOK, ReassemblyMetadata
  <1>3. /\ Rebuilt \in Seq(Bytes) /\ Len(Rebuilt) = size
        /\ \A p \in 1 .. size : /\ Rebuilt[p] = ByteOf(p)
                                /\ (p - 1) \div BlockSize \in 0 .. (metadata.total_blocks - 1)
    BY <1>1, RebuiltSpells
  <1>4. Assembly!Contents =
           [p \in 1 .. size |-> known[(p - 1) \div BlockSize][((p - 1) % BlockSize) + 1]]
    BY DEF Assembly!Contents, Assembly!ByteAt
  <1>5. \A p \in 1 .. size :
           known[(p - 1) \div BlockSize][((p - 1) % BlockSize) + 1] = Rebuilt[p]
    BY <1>3 DEF ByteOf
  <1>6. Rebuilt = [p \in 1 .. size |-> Rebuilt[p]]
    BY <1>2, <1>3
  <1> HIDE DEF known, size
  <1> QED
    BY <1>4, <1>5, <1>6

\* finalize_report is the one answer.
LEMMA AnswerStep ==
    ASSUME IInv, MetadataValid, FinalizeReport
    PROVE  Assembly!Answer
  <1>1. report = None /\ report' = finalize_report /\ UNCHANGED store /\ report' # None
    BY ReportGiven DEF FinalizeReport
  <1>2. UNCHANGED <<metadata, [b \in KnownBlocks |-> blocks[b].raw]>>
    BY <1>1 DEF store, KnownBlocks
  <1> DEFINE known == [b \in KnownBlocks |-> blocks[b].raw]
             status == IF metadata = None \/ DOMAIN known # Assembly!Indices
                       THEN "MissingBlocks"
                       ELSE IF Assembly!Contents = metadata.global_hash THEN "Verified"
                       ELSE "Mismatch"
  <1>3. finalize_report.status = status
    <2>1. CASE metadata = None
      BY <2>1 DEF finalize_report
    <2>2. CASE metadata # None
      <3> DEFINE gaps == {b \in 0 .. (metadata.total_blocks - 1) : Stored(b) = None}
      <3>1. DOMAIN known = KnownBlocks /\ Assembly!Indices = 0 .. (metadata.total_blocks - 1)
        BY DEF Assembly!Indices
      <3>2. gaps = {} <=> KnownBlocks = 0 .. (metadata.total_blocks - 1)
        BY BlocksOfFile DEF KnownBlocks, Stored
      <3>3. CASE gaps # {}
        <4>1. finalize_report.status = "MissingBlocks"
          BY <2>2, <3>3, ReportCases
        <4> QED
          BY <3>1, <3>2, <3>3, <4>1
      <3>4. CASE gaps = {}
        <4>1. Rebuilt = Assembly!Contents
          BY <2>2, <3>2, <3>4, RebuiltIsContents
        <4>2. finalize_report.status =
                 IF Rebuilt = metadata.global_hash THEN "Verified" ELSE "Mismatch"
          BY <2>2, <3>4, ReportCases
        <4> HIDE DEF gaps
        <4> QED
          BY <2>2, <3>1, <3>2, <3>4, <4>1, <4>2
      <3> QED
        BY <3>3, <3>4
    <2> QED
      BY <2>1, <2>2
  <1> QED
    BY <1>1, <1>2, <1>3 DEF Assembly!Answer

\* FileReassembler keeps the promise of FileAssembly: whatever symbols come, it
\* settles on one file, forgets no block, and answers once with what the known
\* blocks spell or with the fact that some are missing.
THEOREM Promise == Spec => KeepsPromise
  <1>1. Init => Assembly!Init
    BY DEF Init, Assembly!Init, KnownBlocks
  <1>2. IInv /\ MetadataValid /\ [Next]_vars => [Assembly!Next]_Seen
    <2> SUFFICES ASSUME IInv, MetadataValid, [Next]_vars
                 PROVE  Assembly!Next \/ UNCHANGED Seen
      OBVIOUS
    <2>1. ASSUME NEW s \in Inputs, AddSymbol(s) PROVE Assembly!Next \/ UNCHANGED Seen
      BY <2>1, LearnStep DEF Assembly!Next
    <2>2. CASE FinalizeReport
      BY <2>2, AnswerStep DEF Assembly!Next
    <2>3. CASE UNCHANGED vars
      BY <2>3 DEF vars, Seen, KnownBlocks
    <2> QED
      BY <2>1, <2>2, <2>3 DEF Next
  <1> QED
    BY <1>1, <1>2, ValidInvariance, PTL DEF Spec, KeepsPromise, Assembly!Spec, Seen
=============================================================================

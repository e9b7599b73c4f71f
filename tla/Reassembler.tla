----------------------------- MODULE Reassembler -----------------------------
(***************************************************************************)
(* FileReassembler (zion-codec/src/reassemble.rs): decoded symbols arrive  *)
(* one call at a time, in any order, repeated, damaged, or belonging to    *)
(* another file.  Each action is one whole call of add_symbol, split by    *)
(* the branch it returns from, or the one call of finalize_report.         *)
(*                                                                         *)
(* A byte is an element of Bytes.  BLAKE3 is taken to be collision-free:   *)
(* the digest of a byte string is represented by the string itself.        *)
(***************************************************************************)
EXTENDS Integers, Sequences

CONSTANTS
    Bytes,             \* the values of a byte
    FileIds,           \* the values of file_id
    Inputs,            \* the decoded symbols a caller may hand over
    BlockSize,         \* BLOCK_SIZE_RAW
    MaxBlockCount,     \* MAX_BLOCK_COUNT
    MaxTotalBlocks,    \* MAX_TOTAL_BLOCKS
    MaxTotalSymbols,   \* MAX_TOTAL_SYMBOLS
    None               \* Option::None, and a block result that is Err(_)

\* A block of a symbol: its flag, the length of its stored payload and the
\* bytes that payload expands to (<<>> when zstd refuses it).
BlockEntry == [compressed : BOOLEAN, len : Nat, raw : Seq(Bytes)]

DecodedSymbol ==
    [file_id : FileIds, file_size : Nat, total_blocks : Nat,
     total_symbols : Nat, global_hash : Seq(Bytes), symbol_index : Nat,
     block_start : Nat, block_count : Nat, blocks : Seq(BlockEntry \cup {None})]

ReassemblyMetadata ==
    [file_id : FileIds, file_size : Nat, total_blocks : Nat,
     total_symbols : Nat, global_hash : Seq(Bytes)]

StoredSymbol == [block_start : Nat, block_count : Nat]

\* What finalize_report returns: the missing ranges, or the bytes and whether
\* they have the hash; or that a stored block does not decode.
Reports ==
    [status : {"MissingBlocks"}, ranges : Seq(Nat \X Nat)]
    \cup [status : {"Verified", "Mismatch"}, bytes : Seq(Bytes)]
    \cup {[status |-> "Undecodable"]}

ASSUME ConstantsAssumption ==
    /\ BlockSize \in Nat \ {0}
    /\ {MaxBlockCount, MaxTotalBlocks, MaxTotalSymbols} \subseteq Nat
    /\ Inputs \subseteq DecodedSymbol
    /\ None \notin BlockEntry
    /\ None \notin ReassemblyMetadata
    /\ None \notin Nat \X Nat
    /\ None \notin Reports

VARIABLES
    metadata,   \* what the first admitted symbol said of the file, or None
    blocks,     \* block index -> BlockEntry, or None if the block was damaged
    symbols,    \* symbol index -> the range of blocks it brought
    outcome,    \* what the last call returned
    report      \* the result of finalize_report, which consumes the object

store == <<metadata, blocks, symbols>>
vars == <<metadata, blocks, symbols, outcome, report>>

-----------------------------------------------------------------------------
(* The sizes a header implies.                                             *)

expected_total_blocks(size) == (size + BlockSize - 1) \div BlockSize

expected_block_size(size, total, b) ==
    IF b + 1 < total THEN BlockSize ELSE size - (total - 1) * BlockSize

\* decode_block succeeds on the entry and yields n bytes.
Decodes(entry, n) ==
    /\ Len(entry.raw) = n
    /\ entry.compressed => entry.len < n

-----------------------------------------------------------------------------
(* Mutants: what a plausible slip in the code would make of a definition.  *)

EntryAtUnchecked(s, b) ==
    LET i == b - s.block_start + 1
    IN  IF i \in DOMAIN s.blocks THEN s.blocks[i] ELSE None

MergedPreferringIncoming(s, b, incoming) == incoming

NoOverlapFirstBlockOnly(s) == s.block_start \notin DOMAIN blocks

AdmitsByFileIdOnly(s) == metadata = None \/ metadata.file_id = s.file_id

DivergesNever(s) == FALSE

ScanStepKeepingRun(acc, idx, gap) ==
    [current |-> IF gap THEN IF acc.current = None THEN <<idx, idx>>
                             ELSE <<acc.current[1], idx>>
                 ELSE acc.current,
     missing |-> acc.missing]

PinningRejected(s, error) ==
    /\ outcome' = error
    /\ metadata' = [k \in DOMAIN s \ {"symbol_index", "block_start",
                                      "block_count", "blocks"} |-> s[k]]
    /\ UNCHANGED <<blocks, symbols, report>>

-----------------------------------------------------------------------------
(* add_symbol: checks on the symbol alone, then against what is stored.    *)

validate_header_invariants(s) ==
    /\ s.file_size # 0
    /\ s.total_blocks = expected_total_blocks(s.file_size)
    /\ s.total_blocks \in 1 .. MaxTotalBlocks
    /\ s.total_symbols \in 1 .. MaxTotalSymbols
    /\ s.block_count \in 1 .. MaxBlockCount

IndexFits(s) == s.symbol_index < s.total_symbols
RangeFits(s) == s.block_start + s.block_count <= s.total_blocks

WellFormed(s) == validate_header_invariants(s) /\ IndexFits(s) /\ RangeFits(s)

MetadataOf(s) ==
    [file_id |-> s.file_id, file_size |-> s.file_size,
     total_blocks |-> s.total_blocks, total_symbols |-> s.total_symbols,
     global_hash |-> s.global_hash]

AdmitsMetadata(s) == metadata \in {None, MetadataOf(s)}

BlockRange(sym) == sym.block_start .. (sym.block_start + sym.block_count - 1)
StoredAs(s) == [block_start |-> s.block_start, block_count |-> s.block_count]

\* normalize_symbol_blocks: the entry the symbol brings for block b, or None
\* when it is absent, damaged, or does not expand to the block's size.
EntryAt(s, b) ==
    LET i == b - s.block_start + 1
    IN  IF /\ i \in DOMAIN s.blocks
           /\ s.blocks[i] # None
           /\ Decodes(s.blocks[i],
                      expected_block_size(s.file_size, s.total_blocks, b))
        THEN s.blocks[i] ELSE None

IsStored(s) == s.symbol_index \in DOMAIN symbols
Stored(b) == IF b \in DOMAIN blocks THEN blocks[b] ELSE None

ensure_no_overlapping_blocks(s) == BlockRange(s) \cap DOMAIN blocks = {}

Diverges(s) ==
    \E b \in BlockRange(s) : /\ Stored(b) # None
                             /\ EntryAt(s, b) \notin {None, Stored(b)}

\* merge_duplicate_symbol keeps what it has and fills what it lacks.
Merged(s, b, incoming) == IF Stored(b) = None THEN incoming ELSE Stored(b)

-----------------------------------------------------------------------------
Init ==
    /\ metadata = None
    /\ blocks = [b \in {} |-> None]
    /\ symbols = [i \in {} |-> None]
    /\ outcome = "Ok"
    /\ report = None

Rejected(s, error) == outcome' = error /\ UNCHANGED <<store, report>>

RejectHeader(s) ==
    /\ ~validate_header_invariants(s)
    /\ Rejected(s, "InconsistentFileMetadata")

RejectIndex(s) ==
    /\ validate_header_invariants(s)
    /\ ~IndexFits(s)
    /\ Rejected(s, "SymbolIndexOutOfRange")

RejectRange(s) ==
    /\ validate_header_invariants(s)
    /\ IndexFits(s)
    /\ ~RangeFits(s)
    /\ Rejected(s, "BlockRangeExceedsTotal")

RejectMetadata(s) ==
    /\ WellFormed(s)
    /\ ~AdmitsMetadata(s)
    /\ Rejected(s, IF metadata.file_id # s.file_id THEN "SymbolFileIdMismatch"
                   ELSE "InconsistentFileMetadata")

\* ensure_file_metadata has passed: it pinned the metadata if there was none.
Admitted(s) ==
    /\ WellFormed(s)
    /\ AdmitsMetadata(s)
    /\ metadata' = MetadataOf(s)
    /\ UNCHANGED report

RejectMovedDuplicate(s) ==
    /\ Admitted(s)
    /\ IsStored(s)
    /\ symbols[s.symbol_index] # StoredAs(s)
    /\ outcome' = "DuplicateSymbol"
    /\ UNCHANGED <<blocks, symbols>>

\* The lacking blocks are filled even when another block diverges.
MergeDuplicate(s) ==
    /\ Admitted(s)
    /\ IsStored(s)
    /\ symbols[s.symbol_index] = StoredAs(s)
    /\ blocks' = [b \in DOMAIN blocks \cup BlockRange(s) |->
                    IF b \in BlockRange(s) THEN Merged(s, b, EntryAt(s, b))
                    ELSE blocks[b]]
    /\ outcome' = IF Diverges(s) THEN "DuplicateSymbol" ELSE "Ok"
    /\ UNCHANGED symbols

RejectOverlap(s) ==
    /\ Admitted(s)
    /\ ~IsStored(s)
    /\ ~ensure_no_overlapping_blocks(s)
    /\ outcome' = "OverlappingBlockRange"
    /\ UNCHANGED <<blocks, symbols>>

InsertSymbol(s) ==
    /\ Admitted(s)
    /\ ~IsStored(s)
    /\ ensure_no_overlapping_blocks(s)
    /\ symbols' = [i \in DOMAIN symbols \cup {s.symbol_index} |->
                     IF i = s.symbol_index THEN StoredAs(s) ELSE symbols[i]]
    /\ blocks' = [b \in DOMAIN blocks \cup BlockRange(s) |->
                    IF b \in BlockRange(s) THEN EntryAt(s, b) ELSE blocks[b]]
    /\ outcome' = "Ok"

AddSymbol(s) ==
    /\ report = None
    /\ \/ RejectHeader(s)
       \/ RejectIndex(s)
       \/ RejectRange(s)
       \/ RejectMetadata(s)
       \/ RejectMovedDuplicate(s)
       \/ MergeDuplicate(s)
       \/ RejectOverlap(s)
       \/ InsertSymbol(s)

-----------------------------------------------------------------------------
(* finalize_report.                                                        *)

\* One turn of its loop over block indices: extend, close or open a run of
\* missing blocks.
ScanStep(acc, idx, gap) ==
    IF gap
    THEN IF acc.current = None
         THEN [acc EXCEPT !.current = <<idx, idx>>]
         ELSE IF acc.current[2] + 1 = idx
              THEN [acc EXCEPT !.current = <<acc.current[1], idx>>]
              ELSE [current |-> <<idx, idx>>,
                    missing |-> Append(acc.missing, acc.current)]
    ELSE IF acc.current = None
         THEN acc
         ELSE [current |-> None, missing |-> Append(acc.missing, acc.current)]

scanned[n \in Nat] ==
    IF n = 0 THEN [current |-> None, missing |-> <<>>]
    ELSE ScanStep(scanned[n - 1], n - 1, Stored(n - 1) = None)

MissingRanges ==
    LET end == scanned[metadata.total_blocks]
    IN  IF end.current = None THEN end.missing
        ELSE Append(end.missing, end.current)

\* Every block decoded again, in order, and the result cut to file_size.
out[n \in 0 .. metadata.total_blocks] ==
    IF n = 0 THEN <<>> ELSE out[n - 1] \o blocks[n - 1].raw

Rebuilt ==
    LET all == out[metadata.total_blocks]
    IN  SubSeq(all, 1, IF Len(all) < metadata.file_size THEN Len(all)
                       ELSE metadata.file_size)

Undecodable ==
    {b \in 0 .. (metadata.total_blocks - 1) :
        ~Decodes(blocks[b], expected_block_size(metadata.file_size,
                                                metadata.total_blocks, b))}

finalize_report ==
    IF metadata = None
    THEN [status |-> "MissingBlocks", ranges |-> << <<0, 0>> >>]
    ELSE IF MissingRanges # <<>>
    THEN [status |-> "MissingBlocks", ranges |-> MissingRanges]
    ELSE IF Undecodable # {}
    THEN [status |-> "Undecodable"]
    ELSE IF Rebuilt = metadata.global_hash
    THEN [status |-> "Verified", bytes |-> Rebuilt]
    ELSE [status |-> "Mismatch", bytes |-> Rebuilt]

FinalizeReport ==
    /\ report = None
    /\ report' = finalize_report
    /\ UNCHANGED <<store, outcome>>

Next == (\E s \in Inputs : AddSymbol(s)) \/ FinalizeReport

Spec == Init /\ [][Next]_vars

-----------------------------------------------------------------------------
Errors == {"InconsistentFileMetadata", "SymbolIndexOutOfRange",
           "BlockRangeExceedsTotal", "SymbolFileIdMismatch",
           "DuplicateSymbol", "OverlappingBlockRange"}

\* Every variable has its type: indices within the limits the code states,
\* maps whose values are entries, stored ranges, or None.
TypeOK ==
    /\ metadata \in ReassemblyMetadata \cup {None}
    /\ DOMAIN blocks \subseteq 0 .. (MaxTotalBlocks - 1)
    /\ blocks \in [DOMAIN blocks -> BlockEntry \cup {None}]
    /\ DOMAIN symbols \subseteq 0 .. (MaxTotalSymbols - 1)
    /\ symbols \in [DOMAIN symbols -> StoredSymbol]
    /\ outcome \in Errors \cup {"Ok"}
    /\ report = None \/ report.status \in {"MissingBlocks", "Undecodable",
                                           "Verified", "Mismatch"}

\* The metadata is pinned by the first symbol that is stored, and by nothing
\* else: ensure_file_metadata writes it before the overlap check can fail,
\* yet no rejected symbol ever leaves its metadata behind.
PinnedByStoredSymbol == metadata = None <=> DOMAIN symbols = {}

\* The two maps describe the same thing: the blocks with an entry are those
\* of the stored symbols' ranges, no block belongs to two symbols, and all
\* lie within the pinned total_blocks.
RangesPartitionBlocks ==
    /\ DOMAIN blocks = UNION {BlockRange(symbols[i]) : i \in DOMAIN symbols}
    /\ \A i, j \in DOMAIN symbols :
          i # j => BlockRange(symbols[i]) \cap BlockRange(symbols[j]) = {}
    /\ \A i \in DOMAIN symbols :
          BlockRange(symbols[i]) \subseteq 0 .. (metadata.total_blocks - 1)

\* What is stored will decode when the file is rebuilt, for the sizes of the
\* pinned metadata: the error finalize_report returns for a block that fails
\* its second decode cannot happen.
StoredBlocksDecode ==
    \A b \in DOMAIN blocks :
        blocks[b] # None =>
            Decodes(blocks[b], expected_block_size(metadata.file_size,
                                                   metadata.total_blocks, b))

\* A block once recovered is kept: no later symbol (a duplicate with another
\* payload, an overlapping range, another file) replaces or removes it.
RecoveredBlockKept ==
    [][\A b \in DOMAIN blocks : blocks[b] # None =>
          b \in DOMAIN blocks' /\ blocks'[b] = blocks[b]]_vars

\* Ok means stored: when add_symbol accepts a symbol, each block the symbol
\* could bring is in the store exactly as the symbol brought it, whether the
\* symbol was new or a duplicate; and the file is the one it names.
AcceptedMeansStored ==
    [][\A s \in Inputs :
          AddSymbol(s) /\ outcome' = "Ok" =>
             /\ metadata' = MetadataOf(s)
             /\ \A b \in BlockRange(s) :
                   EntryAt(s, b) # None => blocks'[b] = EntryAt(s, b)]_vars

\* A call that fails changes nothing, with one exception: a duplicate that
\* diverges on one block still fills others of its own range that were lost.
FailureLeavesStore ==
    [][\A s \in Inputs :
          AddSymbol(s) /\ outcome' # "Ok" =>
             /\ UNCHANGED <<metadata, symbols, DOMAIN blocks>>
             /\ \A b \in DOMAIN blocks :
                   blocks'[b] # blocks[b] =>
                      /\ outcome' = "DuplicateSymbol"
                      /\ blocks[b] = None
                      /\ b \in BlockRange(s)]_vars

\* The ranges finalize_report names are exactly the missing blocks, in order,
\* with a present block between any two: nothing is left to ask for again
\* that the report does not name.
MissingReportExact ==
    report # None /\ metadata # None =>
        LET gaps == {b \in 0 .. (metadata.total_blocks - 1) : Stored(b) = None}
        IN  IF gaps = {} THEN report.status # "MissingBlocks"
            ELSE LET r == report.ranges IN
                 /\ gaps = UNION {r[i][1] .. r[i][2] : i \in DOMAIN r}
                 /\ \A i \in DOMAIN r : r[i][1] <= r[i][2]
                 /\ \A i \in 1 .. (Len(r) - 1) : r[i][2] + 1 < r[i + 1][1]

\* The refinement: a block is known once it is stored undamaged, as the bytes
\* it decodes to.
KnownBlocks == {b \in DOMAIN blocks : blocks[b] # None}

Assembly == INSTANCE FileAssembly WITH
    file <- metadata,
    known <- [b \in KnownBlocks |-> blocks[b].raw],
    answer <- IF report = None THEN None ELSE report.status

\* The reassembler keeps the promise of FileAssembly: one file, knowledge
\* that only grows, and an answer that spells the known blocks or says that
\* some are missing.
KeepsPromise == Assembly!Spec
=============================================================================

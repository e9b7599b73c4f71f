----------------------------- MODULE Publication -----------------------------
(***************************************************************************)
(* How zion writes a directory of files that must appear whole or not at   *)
(* all: CorpusPackage::write_to_directory (zion-corpus/src/package.rs) and *)
(* `zion arc blivre seal-batch` (zion-cli/src/cmd/arc.rs).                 *)
(*                                                                         *)
(* Each process fills a staging directory of its own beside the            *)
(* destination and renames it there.  Several of them race for the same    *)
(* destination, any file operation may fail, a process may be killed       *)
(* between two of them, other programs create the destination or change    *)
(* the covers a batch reads, and the removal of a staging directory may    *)
(* itself fail half way.                                                   *)
(***************************************************************************)
EXTENDS Integers, Sequences

CONSTANTS
    Importers,     \* processes that run write_to_directory
    Batches,       \* processes that run run_blivre_seal_batch
    Outsider,      \* any other program
    Dest,          \* the destination all of them are given
    Names,         \* the staging names that may be drawn
    ImportFiles,   \* the number of files of a corpus package
    Books,         \* the number of books, and so of covers and capsules
    Covers,        \* what a cover file may hold
    FitCovers,     \* the covers preflight_batch accepts
    Absent,        \* a cover file that is not there
    Payload,       \* a whole file of a corpus package
    Torn,          \* a file a write left incomplete
    Attempts       \* STAGING_ATTEMPTS; 16 in both programs

ASSUME ConstantsAssumption ==
    /\ Dest \notin Names
    /\ Importers \cap Batches = {}
    /\ Outsider \notin Importers \cup Batches
    /\ ImportFiles \in Nat \ {0}
    /\ Books \in Nat \ {0}
    /\ Attempts \in Nat \ {0}
    /\ FitCovers \subseteq Covers
    /\ Absent \notin Covers
    /\ Payload # Torn
    /\ {Payload, Torn} \cap (Covers \cup {Absent}) = {}

VARIABLES
    fs,          \* directory name -> who made it and the files in it
    cover,       \* the covers directory: book -> content, or Absent
    atomic,      \* does the platform have a rename that never replaces
    pc,          \* where each process is
    path,        \* its staging directory
    snapshot,    \* a batch: the covers preflight_batch measured
    attempts,    \* how many staging names it has drawn
    result,      \* what the call returned
    warned       \* the batches that warned of a directory left behind

vars == <<fs, cover, atomic, pc, path, snapshot, attempts, result, warned>>
locals == <<path, snapshot, attempts, result, warned>>

Publishers == Importers \cup Batches
Contents == Covers \cup {Payload, Torn}
Directory == [by : Publishers \cup {Outsider}, files : Seq(Contents)]

Stages == {"begin", "list", "preflight", "create", "write", "published",
           "abort", "drop", "ended", "crashed"}
Results == {"none", "Ok", "OutputExists", "Unsupported", "InvalidPackage",
            "Failed", "CleanupFailed"}

-----------------------------------------------------------------------------
Exists(name) == name \in DOMAIN fs
Put(name, dir) == [n \in DOMAIN fs \cup {name} |-> IF n = name THEN dir ELSE fs[n]]
Without(name) == [n \in DOMAIN fs \ {name} |-> fs[n]]
Staged(p) == fs[path[p]].files
Size(p) == IF p \in Importers THEN ImportFiles ELSE Books

Goto(p, stage) == pc' = [pc EXCEPT ![p] = stage]
Return(p, r) == Goto(p, "ended") /\ result' = [result EXCEPT ![p] = r]

\* A failure once the staging directory is there: write_to_directory aborts
\* explicitly, the batch leaves it to the destructor.
Cleanup(p) == IF p \in Importers THEN "abort" ELSE "drop"
Unwind(p, r) == Goto(p, Cleanup(p)) /\ result' = [result EXCEPT ![p] = r]

-----------------------------------------------------------------------------
(* Mutants: what a plausible slip in the code would make of a definition.  *)

FreeToTake(name) == TRUE
CoverUnchecked(p) == TRUE
FilledButOne(p) == Len(Staged(p)) >= Size(p) - 1
DropForgets(p) == UNCHANGED <<fs, warned>>
AttemptsWrapping(p) == attempts' = [attempts EXCEPT ![p] = (@ + 1) % Attempts]

-----------------------------------------------------------------------------
(* Before the staging directory exists.                                    *)

\* write_transaction validates the package and the platform, then looks at
\* the destination; the batch looks at the destination at once.
Refuse(p) ==
    /\ pc[p] = "begin"
    /\ p \in Importers
    /\ \/ Return(p, "InvalidPackage")
       \/ ~atomic /\ Return(p, "Unsupported")
    /\ UNCHANGED <<fs, cover, atomic, path, snapshot, attempts, warned>>

CheckDestination(p) ==
    /\ pc[p] = "begin"
    /\ p \in Importers => atomic
    /\ IF Exists(Dest) THEN Return(p, "OutputExists")
       ELSE /\ Goto(p, IF p \in Importers THEN "create" ELSE "list")
            /\ UNCHANGED result
    /\ UNCHANGED <<fs, cover, atomic, path, snapshot, attempts, warned>>

\* validate_batch_cover_set: every canonical cover is there.
ListCovers(p) ==
    /\ pc[p] = "list"
    /\ IF \A b \in DOMAIN cover : cover[b] # Absent
       THEN Goto(p, "preflight") /\ UNCHANGED result
       ELSE Return(p, "Failed")
    /\ UNCHANGED <<fs, cover, atomic, path, snapshot, attempts, warned>>

\* The cover decodes and its book fits it.
Fits(content) == content \in FitCovers

\* One turn of preflight_batch: read the next cover, measure it, and keep its
\* hash.
MeasureCover(p) ==
    LET b == Len(snapshot[p]) + 1
    IN  /\ pc[p] = "preflight"
        /\ IF Fits(cover[b])
           THEN /\ snapshot' = [snapshot EXCEPT ![p] = Append(@, cover[b])]
                /\ Goto(p, IF b = Books THEN "create" ELSE "preflight")
                /\ UNCHANGED result
           ELSE Return(p, "Failed") /\ UNCHANGED snapshot
        /\ UNCHANGED <<fs, cover, atomic, path, attempts, warned>>

\* Any other error before the staging directory exists: an unreadable path,
\* a passphrase file, the key derivation, the random generator.
FailEarly(p) ==
    /\ pc[p] \in {"begin", "list", "preflight", "create"}
    /\ Return(p, "Failed")
    /\ UNCHANGED <<fs, cover, atomic, path, snapshot, attempts, warned>>

CountAttempt(p) == attempts' = [attempts EXCEPT ![p] = @ + 1]

\* One turn of StagingDirectory::create_for: draw a name and make it, or draw
\* again if something has it.
CreateStaging(p) ==
    /\ pc[p] = "create"
    /\ IF attempts[p] = Attempts
       THEN /\ Return(p, "Failed")
            /\ UNCHANGED <<fs, path, attempts>>
       ELSE /\ CountAttempt(p)
            /\ UNCHANGED result
            /\ \E name \in Names :
                  IF Exists(name) THEN UNCHANGED <<fs, path, pc>>
                  ELSE /\ fs' = Put(name, [by |-> p, files |-> <<>>])
                       /\ path' = [path EXCEPT ![p] = name]
                       /\ Goto(p, "write")
    /\ UNCHANGED <<cover, atomic, snapshot, warned>>

-----------------------------------------------------------------------------
(* Filling and publishing it.                                              *)

NextFile(p) == Len(Staged(p)) + 1

\* read_verified_batch_cover: the cover is still the one preflight measured.
CoverVerified(p) == cover[NextFile(p)] = snapshot[p][NextFile(p)]

Filled(p) == Len(Staged(p)) = Size(p)

Add(p, content) ==
    fs' = Put(path[p], [by |-> p, files |-> Append(Staged(p), content)])

WriteFile(p) ==
    /\ pc[p] = "write"
    /\ ~Filled(p)
    /\ p \in Batches => CoverVerified(p)
    /\ Add(p, IF p \in Importers THEN Payload ELSE cover[NextFile(p)])
    /\ UNCHANGED <<cover, atomic, pc, locals>>

\* The file cannot be created, is written in part, or (a batch) its cover has
\* changed or cannot be sealed.
WriteFails(p) ==
    /\ pc[p] = "write"
    /\ ~Filled(p)
    /\ Add(p, Torn) \/ UNCHANGED fs
    /\ Unwind(p, "Failed")
    /\ UNCHANGED <<cover, atomic, path, snapshot, attempts, warned>>

\* What RENAME_NOREPLACE looks at.
Free(name) == ~Exists(name)

\* rename_directory_noreplace.
Rename(p) ==
    /\ pc[p] = "write"
    /\ Filled(p)
    /\ atomic
    /\ Free(Dest)
    /\ fs' = [n \in (DOMAIN fs \ {path[p]}) \cup {Dest} |->
                IF n = Dest THEN fs[path[p]] ELSE fs[n]]
    /\ Goto(p, "published")
    /\ UNCHANGED <<cover, atomic, locals>>

RenameFails(p) ==
    /\ pc[p] = "write"
    /\ Filled(p)
    /\ \/ ~atomic /\ Unwind(p, "Unsupported")
       \/ atomic /\ ~Free(Dest) /\ Unwind(p, "OutputExists")
       \/ atomic /\ Unwind(p, "Failed")
    /\ UNCHANGED <<fs, cover, atomic, path, snapshot, attempts, warned>>

ReturnOk(p) ==
    /\ pc[p] = "published"
    /\ Return(p, "Ok")
    /\ UNCHANGED <<fs, cover, atomic, path, snapshot, attempts, warned>>

-----------------------------------------------------------------------------
(* Cleaning up.                                                            *)

Removed(p) == fs' = Without(path[p])

\* remove_dir_all gave up with some of the files gone.
Half(p) ==
    \E n \in 0 .. Len(Staged(p)) :
        fs' = Put(path[p], [by |-> p, files |-> SubSeq(Staged(p), 1, n)])

\* StagingDirectory::abort.  When the removal fails, the error that is
\* returned says so, and the destructor tries again.
Abort(p) ==
    /\ pc[p] = "abort"
    /\ \/ Removed(p) /\ Goto(p, "ended") /\ UNCHANGED result
       \/ /\ Half(p)
          /\ Goto(p, "drop")
          /\ result' = [result EXCEPT ![p] = "CleanupFailed"]
    /\ UNCHANGED <<cover, atomic, path, snapshot, attempts, warned>>

\* The body of Drop::drop: remove the directory, and a batch warns if it
\* cannot.
RemoveStaging(p) ==
    \/ Removed(p) /\ UNCHANGED warned
    \/ Half(p) /\ warned' = IF p \in Batches THEN warned \cup {p} ELSE warned

Drop(p) ==
    /\ pc[p] = "drop"
    /\ RemoveStaging(p)
    /\ Goto(p, "ended")
    /\ UNCHANGED <<cover, atomic, path, snapshot, attempts, result>>

-----------------------------------------------------------------------------
(* Everybody else.                                                         *)

\* The process is killed: nothing is cleaned up.
Crash(p) ==
    /\ pc[p] \notin {"ended", "crashed"}
    /\ Goto(p, "crashed")
    /\ UNCHANGED <<fs, cover, atomic, locals>>

OutsiderCreates ==
    /\ ~Exists(Dest)
    /\ fs' = Put(Dest, [by |-> Outsider, files |-> <<>>])
    /\ UNCHANGED <<cover, atomic, pc, locals>>

\* Somebody removes what a process that is gone has left behind.
Sweep(name) ==
    /\ Exists(name)
    /\ pc[fs[name].by] \in {"ended", "crashed"}
    /\ fs' = Without(name)
    /\ UNCHANGED <<cover, atomic, pc, locals>>

ChangeCover(b, content) ==
    /\ cover' = [cover EXCEPT ![b] = content]
    /\ UNCHANGED <<fs, atomic, pc, locals>>

-----------------------------------------------------------------------------
Init ==
    /\ fs = [n \in {} |-> Absent]
    /\ cover \in [1 .. Books -> Covers \cup {Absent}]
    /\ atomic \in BOOLEAN
    /\ pc = [p \in Publishers |-> "begin"]
    /\ path = [p \in Publishers |-> Dest]
    /\ snapshot = [p \in Publishers |-> <<>>]
    /\ attempts = [p \in Publishers |-> 0]
    /\ result = [p \in Publishers |-> "none"]
    /\ warned = {}

Step(p) ==
    \/ Refuse(p)
    \/ CheckDestination(p)
    \/ ListCovers(p)
    \/ MeasureCover(p)
    \/ FailEarly(p)
    \/ CreateStaging(p)
    \/ WriteFile(p)
    \/ WriteFails(p)
    \/ Rename(p)
    \/ RenameFails(p)
    \/ ReturnOk(p)
    \/ Abort(p)
    \/ Drop(p)

Environment ==
    \/ OutsiderCreates
    \/ \E name \in Names : Sweep(name)
    \/ \E b \in 1 .. Books, content \in Covers \cup {Absent} : ChangeCover(b, content)

Next ==
    \/ \E p \in Publishers : Step(p) \/ Crash(p)
    \/ Environment

\* A process that is not killed is scheduled again and again.
Spec == Init /\ [][Next]_vars /\ \A p \in Publishers : WF_vars(Step(p))

-----------------------------------------------------------------------------
TypeOK ==
    /\ DOMAIN fs \subseteq Names \cup {Dest}
    /\ \A n \in DOMAIN fs : fs[n] \in Directory
    /\ cover \in [1 .. Books -> Covers \cup {Absent}]
    /\ atomic \in BOOLEAN
    /\ pc \in [Publishers -> Stages]
    /\ path \in [Publishers -> Names \cup {Dest}]
    /\ snapshot \in [Publishers -> Seq(FitCovers)]
    /\ attempts \in [Publishers -> 0 .. Attempts]
    /\ result \in [Publishers -> Results]
    /\ warned \subseteq Batches

\* The outputs nothing is missing from: every file of a package, a capsule
\* per book made over a cover that fits it, or whatever an outsider made.
Finished ==
    {[by |-> p, files |-> [i \in 1 .. ImportFiles |-> Payload]] : p \in Importers}
    \cup [by : Batches, files : [1 .. Books -> FitCovers]]
    \cup {[by |-> Outsider, files |-> <<>>]}

Output == IF Exists(Dest) THEN fs[Dest] ELSE Absent
O == INSTANCE OneOutput WITH output <- Output, None <- Absent

\* The destination goes from absent to one finished output in a single step
\* and never changes again, whatever races, fails or is killed: readers see
\* no directory or all of its files, and nobody's output is replaced.
AppearsWhole == O!Spec

\* The call says what happened: Ok exactly when the destination is its own
\* output, OutputExists only when somebody else's output is in the way.
ResultTruthful ==
    \A p \in Publishers :
        /\ pc[p] = "ended" =>
              (result[p] = "Ok" <=> Exists(Dest) /\ fs[Dest].by = p)
        /\ result[p] = "OutputExists" => Exists(Dest) /\ fs[Dest].by # p

\* The capsules of a published batch were made over the very covers that were
\* measured before the first of them was sealed, however the covers directory
\* changed in between.
SealedAsMeasured ==
    Exists(Dest) /\ fs[Dest].by \in Batches =>
        fs[Dest].files = snapshot[fs[Dest].by]

\* A staging directory outlives its process only if the process was killed or
\* told its user: in the error it returned, or by a warning.
ResidueReported ==
    \A n \in DOMAIN fs \ {Dest} :
        LET p == fs[n].by
        IN  pc[p] = "ended" => result[p] = "CleanupFailed" \/ p \in warned

\* Every process that is not killed returns.
Ends == \A p \in Publishers : <>(pc[p] \in {"ended", "crashed"})
=============================================================================

--------------------------- MODULE BoundaryProofs ---------------------------
(***************************************************************************)
(* Proofs about the four places where the program meets what it does not   *)
(* control: the processes that publish a directory (Publication), the      *)
(* threads that draw the capsule ids of shared keys (CollectionKeys), the  *)
(* user, the dialogs and the coroutines of the reader app (AndroidApp),    *)
(* and the paper and the camera between a symbol and its reading           *)
(* (SymbolWire). For any number of processes, threads, names, files,       *)
(* objects, identifiers, documents, codewords and profiles.                *)
(***************************************************************************)
EXTENDS Publication, CollectionKeys, AndroidApp, SymbolWire, Induction, SequenceTheorems

-----------------------------------------------------------------------------
(* Publication. The heart of IInv is ownership: a staging directory belongs *)
(* to the process whose path it is, so nothing another process does can    *)
(* tear what a rename publishes.                                           *)

\* A process that fills or removes a directory made it.
Ownership ==
    \A p \in Publishers : pc[p] \in {"write", "abort", "drop"} =>
        path[p] \in Names /\ Exists(path[p]) /\ fs[path[p]].by = p

\* How far the preflight has come.
Measured ==
    \A p \in Publishers :
        /\ pc[p] \in {"list", "preflight"} => p \in Batches
        /\ pc[p] \in {"begin", "list"} => snapshot[p] = <<>>
        /\ pc[p] = "preflight" => Len(snapshot[p]) < Books
        /\ p \in Batches /\ pc[p] \in {"create", "write"} => Len(snapshot[p]) = Books

\* What a process that is still writing has written.
Filling ==
    \A p \in Publishers : pc[p] = "write" =>
        /\ Len(Staged(p)) <= Size(p)
        /\ \A i \in 1 .. Len(Staged(p)) :
              Staged(p)[i] = IF p \in Importers THEN Payload ELSE snapshot[p][i]

\* What is at the destination, and what has become of the process it is from.
Destination ==
    Exists(Dest) =>
        /\ fs[Dest] \in Finished
        /\ fs[Dest].by \in Publishers =>
              pc[fs[Dest].by] \in {"published", "ended", "crashed"}

Outcomes ==
    \A p \in Publishers :
        /\ pc[p] = "published" => Exists(Dest) /\ fs[Dest].by = p
        /\ pc[p] # "ended" => result[p] # "Ok"
        /\ pc[p] = "drop" /\ p \in Importers => result[p] = "CleanupFailed"

\* Whose the staging directories are.
Residue ==
    \A n \in DOMAIN fs \ {Dest} :
        /\ fs[n].by \in Publishers
        /\ path[fs[n].by] = n
        /\ pc[fs[n].by] \in {"write", "abort", "drop", "ended", "crashed"}

IInv ==
    /\ TypeOK
    /\ Ownership
    /\ Measured
    /\ Filling
    /\ Destination
    /\ Outcomes
    /\ Residue
    /\ ResultTruthful
    /\ SealedAsMeasured
    /\ ResidueReported

LEMMA InitInv == Init => IInv
  <1> SUFFICES ASSUME Init PROVE IInv
    OBVIOUS
  <1>1. TypeOK
    BY ConstantsAssumption DEF Init, TypeOK, Stages, Results
  <1>2. DOMAIN fs = {} /\ ~Exists(Dest)
    BY DEF Init, Exists
  <1>3. \A p \in Publishers : pc[p] = "begin" /\ result[p] = "none" /\ snapshot[p] = <<>>
    BY DEF Init
  <1>4. Ownership /\ Measured /\ Filling /\ Destination /\ Outcomes /\ Residue
    BY <1>2, <1>3 DEF Ownership, Measured, Filling, Destination, Outcomes, Residue
  <1>5. ResultTruthful /\ SealedAsMeasured /\ ResidueReported
    BY <1>2, <1>3 DEF ResultTruthful, SealedAsMeasured, ResidueReported
  <1> QED
    BY <1>1, <1>4, <1>5 DEF IInv

\* A step that touches no directory, of a process that has none: it was at one
\* of the stages before its staging directory exists, and goes to another or
\* returns.
LEMMA LocalInv ==
    ASSUME IInv, NEW p \in Publishers,
           UNCHANGED <<fs, path, warned, atomic, cover>>,
           attempts' \in [Publishers -> 0 .. Attempts],
           NEW snap \in Seq(FitCovers), snapshot' = [snapshot EXCEPT ![p] = snap],
           pc[p] \in {"begin", "list", "preflight", "create"},
           NEW stage \in {"list", "preflight", "create", "ended"}, Goto(p, stage),
           stage \in {"list", "preflight"} => p \in Batches,
           stage = "list" => snap = <<>>,
           stage = "preflight" => Len(snap) < Books,
           stage = "create" /\ p \in Batches => Len(snap) = Books,
           NEW r \in Results \ {"Ok"}, result' = [result EXCEPT ![p] = r],
           r = "OutputExists" => Exists(Dest)
    PROVE  IInv'
  <1>1. TypeOK'
    BY DEF IInv, TypeOK, Goto, Stages, Results
  <1>2. \A q \in Publishers : q # p => /\ pc'[q] = pc[q]
                                       /\ result'[q] = result[q]
                                       /\ snapshot'[q] = snapshot[q]
    BY DEF IInv, TypeOK, Goto
  <1>3. pc'[p] = stage /\ result'[p] = r /\ snapshot'[p] = snap
    BY DEF IInv, TypeOK, Goto
  <1>4. Exists(Dest) => fs[Dest].by # p
    BY DEF IInv, Destination
  <1>5. \A n \in DOMAIN fs \ {Dest} : fs[n].by # p
    BY DEF IInv, Residue
  <1>6. Ownership' /\ Measured' /\ Filling'
    <2>1. Ownership'
      BY <1>2, <1>3 DEF IInv, Ownership, Exists
    <2>2. Measured'
      BY <1>2, <1>3 DEF IInv, Measured
    <2>3. Filling'
      BY <1>2, <1>3 DEF IInv, Filling, Staged
    <2> QED
      BY <2>1, <2>2, <2>3
  <1>7. Destination' /\ Outcomes' /\ Residue'
    BY <1>2, <1>3, <1>4, <1>5 DEF IInv, Destination, Outcomes, Residue, Exists
  <1>8. ResultTruthful'
    BY <1>2, <1>3, <1>4 DEF IInv, ResultTruthful, Exists
  <1>9. SealedAsMeasured'
    BY <1>2, <1>4 DEF IInv, SealedAsMeasured, Exists, Publishers
  <1>10. ResidueReported'
    BY <1>2, <1>3, <1>5 DEF IInv, Residue, ResidueReported
  <1> QED
    BY <1>1, <1>6, <1>7, <1>8, <1>9, <1>10 DEF IInv

\* The steps before the staging directory exists.
LEMMA EarlyInv ==
    ASSUME IInv, NEW p \in Publishers,
           \/ Refuse(p) \/ CheckDestination(p) \/ ListCovers(p)
           \/ MeasureCover(p) \/ FailEarly(p)
    PROVE  IInv' /\ UNCHANGED fs
  <1>1. /\ result[p] \in Results \ {"Ok"} \/ pc[p] = "ended"
        /\ result[p] = "OutputExists" => Exists(Dest)
    BY DEF IInv, TypeOK, Outcomes, ResultTruthful
  <1>2. /\ result = [result EXCEPT ![p] = result[p]]
        /\ snapshot = [snapshot EXCEPT ![p] = snapshot[p]]
        /\ snapshot[p] \in Seq(FitCovers)
        /\ attempts \in [Publishers -> 0 .. Attempts]
    BY DEF IInv, TypeOK
  <1>3. /\ pc[p] \in {"begin", "list"} => snapshot[p] = <<>>
        /\ pc[p] = "preflight" => Len(snapshot[p]) < Books
        /\ pc[p] \in {"list", "preflight"} => p \in Batches
    BY DEF IInv, Measured
  <1>4. {"Failed", "InvalidPackage", "Unsupported", "OutputExists"}
            \subseteq Results \ {"Ok"}
    BY DEF Results
  <1>5. Books \in Nat \ {0} /\ Len(<<>>) = 0
    BY ConstantsAssumption
  <1>6. CASE Refuse(p)
    BY <1>6, <1>2, <1>4, LocalInv DEF Refuse, Return
  <1>7. CASE CheckDestination(p)
    <2>1. CASE Exists(Dest)
      BY <1>7, <2>1, <1>2, <1>4, LocalInv DEF CheckDestination, Return
    <2>2. CASE ~Exists(Dest) /\ p \in Importers
      BY <1>7, <2>2, <1>1, <1>2, <1>3, ConstantsAssumption, LocalInv
      DEF CheckDestination
    <2>3. CASE ~Exists(Dest) /\ p \notin Importers
      BY <1>7, <2>3, <1>1, <1>2, <1>3, LocalInv
      DEF CheckDestination, Publishers
    <2> QED
      BY <2>1, <2>2, <2>3
  <1>8. CASE ListCovers(p)
    BY <1>8, <1>1, <1>2, <1>3, <1>4, <1>5, LocalInv DEF ListCovers, Return
  <1>9. CASE MeasureCover(p)
    <2> DEFINE b == Len(snapshot[p]) + 1
    <2>1. CASE Fits(cover[b])
      <3>1. Append(snapshot[p], cover[b]) \in Seq(FitCovers)
            /\ Len(Append(snapshot[p], cover[b])) = b
        BY <1>2, <2>1 DEF Fits
      <3>2. b = Books \/ b < Books
        BY <1>9, <1>2, <1>3, <1>5 DEF MeasureCover
      <3>3. snapshot' = [snapshot EXCEPT ![p] = Append(snapshot[p], cover[b])]
        BY <1>9, <2>1 DEF MeasureCover
      <3>4. CASE b = Books
        BY <1>9, <2>1, <3>1, <3>3, <3>4, <1>1, <1>2, <1>3, LocalInv
        DEF MeasureCover
      <3>5. CASE b < Books
        BY <1>9, <2>1, <3>1, <3>3, <3>5, <1>1, <1>2, <1>3, LocalInv
        DEF MeasureCover
      <3> QED
        BY <3>2, <3>4, <3>5
    <2>2. CASE ~Fits(cover[b])
      BY <1>9, <2>2, <1>2, <1>4, LocalInv DEF MeasureCover, Return
    <2> QED
      BY <2>1, <2>2
  <1>10. CASE FailEarly(p)
    BY <1>10, <1>2, <1>4, LocalInv DEF FailEarly, Return
  <1> QED
    BY <1>6, <1>7, <1>8, <1>9, <1>10
    DEF Refuse, CheckDestination, ListCovers, MeasureCover, FailEarly

\* The staging directory of a process, and what it shares with the rest.
LEMMA OwnDirectory ==
    ASSUME IInv, NEW p \in Publishers, pc[p] \in {"write", "abort", "drop"}
    PROVE  /\ path[p] \in Names /\ path[p] \in DOMAIN fs /\ path[p] # Dest
           /\ fs[path[p]] = [by |-> p, files |-> Staged(p)]
           /\ Staged(p) \in Seq(Contents)
           /\ Exists(Dest) => fs[Dest].by # p
           /\ \A n \in DOMAIN fs \ {Dest, path[p]} : fs[n].by # p
           /\ \A q \in Publishers \ {p} :
                 pc[q] \in {"write", "abort", "drop"} => path[q] # path[p]
           /\ result[p] \in Results \ {"Ok"}
           /\ result[p] = "OutputExists" => Exists(Dest)
  <1>1. path[p] \in Names /\ path[p] \in DOMAIN fs /\ fs[path[p]].by = p
    BY DEF IInv, Ownership, Exists
  <1>2. path[p] # Dest
    BY <1>1, ConstantsAssumption
  <1>3. fs[path[p]] \in Directory
    BY <1>1 DEF IInv, TypeOK
  <1>4. fs[path[p]] = [by |-> p, files |-> Staged(p)] /\ Staged(p) \in Seq(Contents)
    BY <1>1, <1>3 DEF Directory, Staged
  <1>5. Exists(Dest) => fs[Dest].by # p
    BY DEF IInv, Destination
  <1>6. \A n \in DOMAIN fs \ {Dest, path[p]} : fs[n].by # p
    BY DEF IInv, Residue
  <1>7. \A q \in Publishers \ {p} :
           pc[q] \in {"write", "abort", "drop"} => path[q] # path[p]
    BY <1>1 DEF IInv, Ownership
  <1>8. /\ result[p] \in Results \ {"Ok"}
        /\ result[p] = "OutputExists" => Exists(Dest)
    BY DEF IInv, TypeOK, Outcomes, ResultTruthful
  <1> QED
    BY <1>1, <1>2, <1>4, <1>5, <1>6, <1>7, <1>8

\* A step of a process that leaves its staging directory in place, with other
\* files in it perhaps.
LEMMA StagingInv ==
    ASSUME IInv, NEW p \in Publishers, pc[p] \in {"write", "abort", "drop"},
           NEW files \in Seq(Contents),
           DOMAIN fs' = DOMAIN fs,
           fs'[path[p]] = [by |-> p, files |-> files],
           \A n \in DOMAIN fs \ {path[p]} : fs'[n] = fs[n],
           UNCHANGED <<path, snapshot, atomic, cover, attempts>>,
           NEW stage \in {"write", "abort", "drop", "ended"}, Goto(p, stage),
           NEW r \in Results \ {"Ok"}, result' = [result EXCEPT ![p] = r],
           r = "OutputExists" => Exists(Dest),
           warned \subseteq warned', warned' \subseteq Batches,
           stage = "write" =>
              /\ pc[p] = "write"
              /\ Len(files) <= Size(p)
              /\ \A i \in 1 .. Len(files) :
                    files[i] = IF p \in Importers THEN Payload ELSE snapshot[p][i],
           stage = "drop" /\ p \in Importers => r = "CleanupFailed",
           stage = "ended" => r = "CleanupFailed" \/ p \in warned'
    PROVE  /\ IInv'
           /\ Exists(Dest)' = Exists(Dest)
           /\ Exists(Dest) => fs'[Dest] = fs[Dest]
  <1>1. /\ path[p] \in Names /\ path[p] \in DOMAIN fs /\ path[p] # Dest
        /\ Exists(Dest) => fs[Dest].by # p
        /\ \A n \in DOMAIN fs \ {Dest, path[p]} : fs[n].by # p
        /\ \A q \in Publishers \ {p} :
              pc[q] \in {"write", "abort", "drop"} => path[q] # path[p]
    BY OwnDirectory
  <1>2. /\ DOMAIN fs' = DOMAIN fs
        /\ fs'[path[p]] = [by |-> p, files |-> files]
        /\ \A n \in DOMAIN fs \ {path[p]} : fs'[n] = fs[n]
    OBVIOUS
  <1>3. \A q \in Publishers : q # p => pc'[q] = pc[q] /\ result'[q] = result[q]
    BY DEF IInv, TypeOK, Goto
  <1>4. pc'[p] = stage /\ result'[p] = r
    BY DEF IInv, TypeOK, Goto
  <1>5. TypeOK'
    <2>1. [by |-> p, files |-> files] \in Directory
      BY DEF Directory
    <2>2. \A n \in DOMAIN fs' : fs'[n] \in Directory
      BY <1>2, <2>1 DEF IInv, TypeOK
    <2>3. DOMAIN fs' \subseteq Names \cup {Dest}
      BY <1>2 DEF IInv, TypeOK
    <2>4. pc' \in [Publishers -> Stages] /\ result' \in [Publishers -> Results]
      BY DEF IInv, TypeOK, Goto, Stages
    <2> QED
      BY <2>2, <2>3, <2>4 DEF IInv, TypeOK
  <1>6. Ownership'
    BY <1>1, <1>2, <1>3, <1>4 DEF IInv, Ownership, Exists
  <1>7. Measured'
    <2>1. pc'[p] \notin {"begin", "list", "preflight", "create"}
      BY <1>4
    <2>2. stage = "write" /\ p \in Batches => Len(snapshot[p]) = Books
      BY DEF IInv, Measured
    <2> QED
      BY <1>3, <1>4, <2>1, <2>2 DEF IInv, Measured
  <1>8. Filling'
    <2>1. \A q \in Publishers \ {p} : pc'[q] = "write" => Staged(q)' = Staged(q)
      BY <1>1, <1>2, <1>3 DEF Staged, IInv, Ownership, Exists
    <2>2. Staged(p)' = files
      BY <1>2 DEF Staged
    <2>3. \A q \in Publishers : Size(q)' = Size(q)
      BY DEF Size
    <2>4. ASSUME NEW q \in Publishers, pc'[q] = "write"
          PROVE  /\ Len(Staged(q)') <= Size(q)
                 /\ \A i \in 1 .. Len(Staged(q)') :
                       Staged(q)'[i] = IF q \in Importers THEN Payload
                                       ELSE snapshot[q][i]
      <3>1. CASE q = p
        BY <2>2, <3>1, <2>4, <1>4
      <3>2. CASE q # p
        BY <2>1, <3>2, <2>4, <1>3 DEF IInv, Filling
      <3> QED
        BY <3>1, <3>2
    <2> QED
      BY <2>3, <2>4 DEF Filling
  <1>9. Exists(Dest)' = Exists(Dest) /\ (Exists(Dest) => fs'[Dest] = fs[Dest])
    BY <1>1, <1>2 DEF Exists
  <1>10. Destination'
    BY <1>1, <1>3, <1>9 DEF IInv, Destination, Finished
  <1>11. Outcomes'
    BY <1>3, <1>4, <1>9 DEF IInv, Outcomes
  <1>12. Residue'
    BY <1>1, <1>2, <1>3, <1>4 DEF IInv, Residue
  <1>13. ResultTruthful'
    BY <1>1, <1>3, <1>4, <1>9 DEF IInv, ResultTruthful
  <1>14. SealedAsMeasured'
    BY <1>9 DEF IInv, SealedAsMeasured
  <1>15. ResidueReported'
    BY <1>1, <1>2, <1>3, <1>4 DEF IInv, Residue, ResidueReported
  <1> QED
    BY <1>5, <1>6, <1>7, <1>8, <1>9, <1>10, <1>11, <1>12, <1>13, <1>14, <1>15
    DEF IInv

\* A directory nobody fills any more goes: the one of a process that removes
\* its own and returns, or one that somebody sweeps up.
LEMMA RemovalInv ==
    ASSUME IInv, NEW name \in Names, fs' = Without(name),
           UNCHANGED <<path, snapshot, atomic, cover, attempts, warned, result>>,
           \A q \in Publishers :
              /\ path[q] = name => pc'[q] \notin {"write", "abort", "drop"}
              /\ pc'[q] # pc[q] => /\ pc[q] \in {"abort", "drop"}
                                   /\ pc' = [pc EXCEPT ![q] = "ended"]
                                   /\ path[q] = name
                                   /\ fs[name].by = q
                                   /\ \A n \in DOMAIN fs \ {Dest, name} : fs[n].by # q
                                   /\ Exists(Dest) => fs[Dest].by # q,
           pc' \in [Publishers -> Stages]
    PROVE  /\ IInv'
           /\ Exists(Dest)' = Exists(Dest)
           /\ Exists(Dest) => fs'[Dest] = fs[Dest]
  <1>1. /\ DOMAIN fs' = DOMAIN fs \ {name}
        /\ \A n \in DOMAIN fs' : fs'[n] = fs[n]
        /\ name # Dest
    BY ConstantsAssumption DEF Without
  <1>2. Exists(Dest)' = Exists(Dest) /\ (Exists(Dest) => fs'[Dest] = fs[Dest])
    BY <1>1 DEF Exists
  <1>3. \A q \in Publishers : pc'[q] # pc[q] => pc'[q] = "ended"
    BY DEF IInv, TypeOK
  <1>4. TypeOK'
    BY <1>1 DEF IInv, TypeOK
  <1>5. Ownership'
    BY <1>1, <1>3 DEF IInv, Ownership, Exists
  <1>6. Measured'
    BY <1>3 DEF IInv, Measured
  <1>7. Filling'
    <2>1. \A q \in Publishers : pc'[q] = "write" =>
             /\ pc[q] = "write"
             /\ Staged(q)' = Staged(q)
             /\ Size(q)' = Size(q)
      BY <1>1, <1>3, <1>5 DEF Ownership, Exists, Staged, Size
    <2> QED
      BY <2>1 DEF IInv, Filling
  <1>8. Destination'
    BY <1>2, <1>3 DEF IInv, Destination, Finished
  <1>9. Outcomes'
    BY <1>2, <1>3 DEF IInv, Outcomes
  <1>10. Residue'
    BY <1>1, <1>3 DEF IInv, Residue
  <1>11. ResultTruthful'
    BY <1>2, <1>3 DEF IInv, ResultTruthful, Outcomes
  <1>12. SealedAsMeasured'
    BY <1>2 DEF IInv, SealedAsMeasured
  <1>13. ResidueReported'
    BY <1>1, <1>3 DEF IInv, Residue, ResidueReported
  <1> QED
    BY <1>2, <1>4, <1>5, <1>6, <1>7, <1>8, <1>9, <1>10, <1>11, <1>12, <1>13
    DEF IInv

\* What a reader of the destination sees of a step: nothing, or one finished
\* output where there was none.
Seen ==
    \/ /\ Exists(Dest)' = Exists(Dest)
       /\ Exists(Dest) => fs'[Dest] = fs[Dest]
    \/ ~Exists(Dest) /\ Exists(Dest)' /\ fs'[Dest] \in Finished

LEMMA CreateInv ==
    ASSUME IInv, NEW p \in Publishers, CreateStaging(p)
    PROVE  IInv' /\ Seen
  <1>1. /\ result[p] \in Results \ {"Ok"}
        /\ result[p] = "OutputExists" => Exists(Dest)
    BY DEF IInv, TypeOK, Outcomes, ResultTruthful, CreateStaging
  <1>2. /\ result = [result EXCEPT ![p] = result[p]]
        /\ snapshot = [snapshot EXCEPT ![p] = snapshot[p]]
        /\ snapshot[p] \in Seq(FitCovers)
        /\ attempts \in [Publishers -> 0 .. Attempts]
        /\ pc = [pc EXCEPT ![p] = "create"]
        /\ p \in Batches => Len(snapshot[p]) = Books
        /\ Attempts \in Nat
    BY ConstantsAssumption DEF IInv, TypeOK, CreateStaging, Measured
  <1>3. CASE attempts[p] = Attempts
    <2>1. "Failed" \in Results \ {"Ok"}
      BY DEF Results
    <2>2. IInv' /\ UNCHANGED fs
      BY <1>3, <1>2, <2>1, LocalInv DEF CreateStaging, Return
    <2> QED
      BY <2>2 DEF Seen, Exists
  <1>4. CASE attempts[p] # Attempts
    <2>1. attempts' \in [Publishers -> 0 .. Attempts]
      BY <1>4, <1>2 DEF CreateStaging, CountAttempt
    <2>2. PICK name \in Names :
             IF Exists(name) THEN UNCHANGED <<fs, path, pc>>
             ELSE /\ fs' = Put(name, [by |-> p, files |-> <<>>])
                  /\ path' = [path EXCEPT ![p] = name]
                  /\ Goto(p, "write")
      BY <1>4 DEF CreateStaging
    <2>3. CASE Exists(name)
      <3>1. IInv' /\ UNCHANGED fs
        BY <1>4, <1>1, <1>2, <2>1, <2>2, <2>3, LocalInv DEF CreateStaging, Goto
      <3> QED
        BY <3>1 DEF Seen, Exists
    <2>4. CASE ~Exists(name)
      <3>1. name # Dest
        BY ConstantsAssumption
      <3>2. /\ DOMAIN fs' = DOMAIN fs \cup {name}
            /\ fs'[name] = [by |-> p, files |-> <<>>]
            /\ \A n \in DOMAIN fs : n # name /\ fs'[n] = fs[n]
        BY <2>2, <2>4 DEF Put, Exists
      <3>3. \A q \in Publishers : q # p => pc'[q] = pc[q] /\ path'[q] = path[q]
        BY <2>2, <2>4 DEF IInv, TypeOK, Goto
      <3>4. pc'[p] = "write" /\ path'[p] = name /\ pc[p] = "create"
        BY <2>2, <2>4 DEF IInv, TypeOK, Goto, CreateStaging
      <3>5. UNCHANGED <<result, cover, atomic, snapshot, warned>>
        BY <1>4 DEF CreateStaging
      <3>6. \A n \in DOMAIN fs \ {Dest} : fs[n].by # p
        BY <3>4 DEF IInv, Residue
      <3>7. Exists(Dest) => fs[Dest].by # p
        BY <3>4 DEF IInv, Destination
      <3>8. Exists(Dest)' = Exists(Dest) /\ (Exists(Dest) => fs'[Dest] = fs[Dest])
        BY <3>1, <3>2 DEF Exists
      <3>9. TypeOK'
        <4>1. [by |-> p, files |-> <<>>] \in Directory
          BY DEF Directory
        <4>2. \A n \in DOMAIN fs' : fs'[n] \in Directory
          BY <3>2, <4>1 DEF IInv, TypeOK
        <4>3. pc' \in [Publishers -> Stages] /\ path' \in [Publishers -> Names \cup {Dest}]
          BY <2>2, <2>4 DEF IInv, TypeOK, Goto, Stages
        <4> QED
          BY <4>2, <4>3, <3>2, <3>5, <2>1 DEF IInv, TypeOK
      <3>10. Ownership'
        BY <3>2, <3>3, <3>4 DEF IInv, Ownership, Exists
      <3>11. Measured'
        BY <3>3, <3>4, <3>5, <1>2 DEF IInv, Measured
      <3>12. Filling'
        <4>1. \A q \in Publishers \ {p} :
                 pc'[q] = "write" => Staged(q)' = Staged(q) /\ Size(q)' = Size(q)
          BY <3>2, <3>3 DEF IInv, Ownership, Exists, Staged, Size
        <4>2. Staged(p)' = <<>> /\ Size(p)' \in Nat
          BY <3>2, <3>4, ConstantsAssumption DEF Staged, Size
        <4>3. \A q \in Publishers \ {p} : pc'[q] = pc[q] /\ snapshot'[q] = snapshot[q]
          BY <3>3, <3>5
        <4> QED
          BY <4>1, <4>2, <4>3 DEF IInv, Filling
      <3>13. Destination' /\ Outcomes'
        BY <3>3, <3>4, <3>5, <3>7, <3>8 DEF IInv, Destination, Outcomes, Finished
      <3>14. Residue' /\ ResidueReported'
        BY <3>2, <3>3, <3>4, <3>5, <3>6 DEF IInv, Residue, ResidueReported
      <3>15. ResultTruthful' /\ SealedAsMeasured'
        BY <3>3, <3>4, <3>5, <3>8 DEF IInv, ResultTruthful, SealedAsMeasured
      <3> QED
        BY <3>8, <3>9, <3>10, <3>11, <3>12, <3>13, <3>14, <3>15 DEF IInv, Seen
    <2> QED
      BY <2>3, <2>4
  <1> QED
    BY <1>3, <1>4

\* What Put leaves of a directory that is there.
LEMMA PutExisting ==
    ASSUME NEW name \in DOMAIN fs, NEW dir, fs' = Put(name, dir)
    PROVE  /\ DOMAIN fs' = DOMAIN fs
           /\ fs'[name] = dir
           /\ \A n \in DOMAIN fs \ {name} : fs'[n] = fs[n]
  BY DEF Put

LEMMA WriteInv ==
    ASSUME IInv, NEW p \in Publishers, WriteFile(p) \/ WriteFails(p) \/ RenameFails(p)
    PROVE  IInv' /\ Seen
  <1> DEFINE held == Staged(p)
  <1>1. pc[p] = "write"
    BY DEF WriteFile, WriteFails, RenameFails
  <1>2. /\ held \in Seq(Contents)
        /\ fs[path[p]] = [by |-> p, files |-> held]
        /\ path[p] \in DOMAIN fs
        /\ result[p] \in Results \ {"Ok"}
        /\ result[p] = "OutputExists" => Exists(Dest)
    BY <1>1, OwnDirectory
  <1>3. /\ result = [result EXCEPT ![p] = result[p]]
        /\ pc = [pc EXCEPT ![p] = "write"]
        /\ warned \subseteq Batches
    BY <1>1 DEF IInv, TypeOK
  <1>4. /\ {"Failed", "Unsupported", "OutputExists"} \subseteq Results \ {"Ok"}
        /\ Cleanup(p) \in {"abort", "drop"}
        /\ Cleanup(p) = "drop" => p \notin Importers
    BY DEF Results, Cleanup
  <1>5. CASE WriteFile(p)
    <2> DEFINE content == IF p \in Importers THEN Payload ELSE cover[NextFile(p)]
               files == Append(held, content)
    <2>1. /\ Len(held) <= Size(p)
          /\ \A i \in 1 .. Len(held) :
                held[i] = IF p \in Importers THEN Payload ELSE snapshot[p][i]
      BY <1>1 DEF IInv, Filling
    <2>2. Size(p) \in Nat /\ Len(held) # Size(p) /\ NextFile(p) = Len(held) + 1
      BY <1>5, ConstantsAssumption DEF WriteFile, Filled, Size, NextFile
    <2>3. p \notin Importers => /\ content = snapshot[p][Len(held) + 1]
                                /\ content \in Contents
      <3>1. SUFFICES ASSUME p \notin Importers
                     PROVE  /\ content = snapshot[p][Len(held) + 1]
                            /\ content \in Contents
        OBVIOUS
      <3>2. p \in Batches /\ Len(snapshot[p]) = Books /\ Size(p) = Books
        BY <1>1, <3>1 DEF IInv, Measured, Publishers, Size
      <3>3. snapshot[p] \in Seq(FitCovers)
        BY DEF IInv, TypeOK
      <3>4. Len(held) + 1 \in 1 .. Len(snapshot[p])
        BY <1>2, <2>1, <2>2, <3>2
      <3>5. snapshot[p][Len(held) + 1] \in FitCovers
        BY <3>3, <3>4
      <3>6. content = snapshot[p][Len(held) + 1]
        BY <1>5, <3>1, <3>2, <2>2 DEF WriteFile, CoverVerified
      <3> QED
        BY <3>5, <3>6, ConstantsAssumption DEF Contents
    <2>4. content \in Contents
      BY <2>3 DEF Contents
    <2>5. /\ files \in Seq(Contents)
          /\ Len(files) = Len(held) + 1
          /\ \A i \in 1 .. Len(held) : files[i] = held[i]
          /\ files[Len(held) + 1] = content
      BY <1>2, <2>4
    <2>6. /\ Len(files) <= Size(p)
          /\ \A i \in 1 .. Len(files) :
                files[i] = IF p \in Importers THEN Payload ELSE snapshot[p][i]
      <3>1. Len(held) \in Nat
        BY <1>2
      <3>2. Len(files) <= Size(p)
        BY <2>1, <2>2, <2>5, <3>1
      <3>3. ASSUME NEW i \in 1 .. Len(files)
            PROVE  files[i] = IF p \in Importers THEN Payload ELSE snapshot[p][i]
        <4>1. i \in 1 .. Len(held) \/ i = Len(held) + 1
          BY <2>5, <3>1
        <4> QED
          BY <4>1, <2>1, <2>3, <2>5
      <3> QED
        BY <3>2, <3>3
    <2>7. fs' = Put(path[p], [by |-> p, files |-> files])
      BY <1>5 DEF WriteFile, Add
    <2>8. /\ DOMAIN fs' = DOMAIN fs
          /\ fs'[path[p]] = [by |-> p, files |-> files]
          /\ \A n \in DOMAIN fs \ {path[p]} : fs'[n] = fs[n]
      BY <2>7, <1>2, PutExisting
    <2>9. /\ UNCHANGED <<cover, atomic, path, snapshot, attempts, warned, result>>
          /\ Goto(p, "write")
      BY <1>3, <1>5 DEF WriteFile, locals, Goto
    <2>10. /\ IInv'
           /\ Exists(Dest)' = Exists(Dest)
           /\ Exists(Dest) => fs'[Dest] = fs[Dest]
      <3> HIDE DEF files, content
      <3> QED
        BY <1>1, <1>2, <1>3, <2>5, <2>6, <2>8, <2>9, StagingInv
    <2> QED
      BY <2>10 DEF Seen
  <1>6. CASE WriteFails(p)
    <2>1. PICK files \in Seq(Contents) :
             /\ DOMAIN fs' = DOMAIN fs
             /\ fs'[path[p]] = [by |-> p, files |-> files]
             /\ \A n \in DOMAIN fs \ {path[p]} : fs'[n] = fs[n]
      <3>1. CASE UNCHANGED fs
        BY <3>1, <1>2
      <3>2. CASE Add(p, Torn)
        <4>1. Append(held, Torn) \in Seq(Contents)
          BY <1>2 DEF Contents
        <4> QED
          BY <4>1, <3>2, <1>2, PutExisting DEF Add
      <3> QED
        BY <3>1, <3>2, <1>6 DEF WriteFails
    <2>2. /\ UNCHANGED <<cover, atomic, path, snapshot, attempts, warned>>
          /\ Goto(p, Cleanup(p)) /\ result' = [result EXCEPT ![p] = "Failed"]
      BY <1>6 DEF WriteFails, Unwind
    <2>3. /\ IInv'
          /\ Exists(Dest)' = Exists(Dest)
          /\ Exists(Dest) => fs'[Dest] = fs[Dest]
      BY <1>1, <1>3, <1>4, <2>1, <2>2, StagingInv
    <2> QED
      BY <2>3 DEF Seen
  <1>7. CASE RenameFails(p)
    <2>1. /\ UNCHANGED <<fs, cover, atomic, path, snapshot, attempts, warned>>
          /\ Goto(p, Cleanup(p))
      BY <1>7 DEF RenameFails, Unwind
    <2>2. PICK r \in {"Failed", "Unsupported", "OutputExists"} :
             /\ result' = [result EXCEPT ![p] = r]
             /\ r = "OutputExists" => Exists(Dest)
      BY <1>7 DEF RenameFails, Unwind, Free
    <2>3. /\ IInv'
          /\ Exists(Dest)' = Exists(Dest)
          /\ Exists(Dest) => fs'[Dest] = fs[Dest]
      BY <1>1, <1>2, <1>3, <1>4, <2>1, <2>2, StagingInv
    <2> QED
      BY <2>3 DEF Seen
  <1> QED
    BY <1>5, <1>6, <1>7

\* What is renamed into place is finished: a full staging directory holds the
\* files of a package, or a capsule over each cover that was measured.
LEMMA FilledFinished ==
    ASSUME IInv, NEW p \in Publishers, pc[p] = "write", Filled(p)
    PROVE  /\ fs[path[p]] \in Finished
           /\ p \in Batches => Staged(p) = snapshot[p]
  <1>1. /\ fs[path[p]] = [by |-> p, files |-> Staged(p)]
        /\ Staged(p) \in Seq(Contents)
    BY OwnDirectory
  <1>2. /\ Len(Staged(p)) = Size(p)
        /\ \A i \in 1 .. Size(p) :
              Staged(p)[i] = IF p \in Importers THEN Payload ELSE snapshot[p][i]
    BY DEF IInv, Filling, Filled
  <1>3. Staged(p) = [i \in 1 .. Size(p) |-> Staged(p)[i]]
    BY <1>1, <1>2
  <1>4. CASE p \in Importers
    <2>1. Staged(p) = [i \in 1 .. ImportFiles |-> Payload]
      BY <1>2, <1>3, <1>4 DEF Size
    <2> QED
      BY <1>1, <1>4, <2>1, ConstantsAssumption DEF Finished
  <1>5. CASE p \notin Importers
    <2>1. p \in Batches /\ Size(p) = Books /\ Len(snapshot[p]) = Books
      BY <1>5 DEF Publishers, Size, IInv, Measured
    <2>2. snapshot[p] \in Seq(FitCovers)
      BY DEF IInv, TypeOK
    <2>3. snapshot[p] = [i \in 1 .. Books |-> snapshot[p][i]]
      BY <2>1, <2>2
    <2>4. Staged(p) = snapshot[p]
      BY <1>2, <1>3, <1>5, <2>1, <2>3
    <2>5. snapshot[p] \in [1 .. Books -> FitCovers]
      BY <2>1, <2>2
    <2> QED
      BY <1>1, <2>1, <2>4, <2>5 DEF Finished
  <1> QED
    BY <1>4, <1>5

LEMMA RenameInv ==
    ASSUME IInv, NEW p \in Publishers, Rename(p)
    PROVE  IInv' /\ Seen
  <1>1. pc[p] = "write" /\ Filled(p) /\ ~Exists(Dest)
    BY DEF Rename, Free
  <1>2. /\ path[p] \in Names /\ path[p] \in DOMAIN fs /\ path[p] # Dest
        /\ fs[path[p]] = [by |-> p, files |-> Staged(p)]
        /\ \A n \in DOMAIN fs \ {Dest, path[p]} : fs[n].by # p
        /\ \A q \in Publishers \ {p} :
              pc[q] \in {"write", "abort", "drop"} => path[q] # path[p]
        /\ result[p] # "Ok" /\ result[p] # "OutputExists"
    BY <1>1, OwnDirectory
  <1>3. /\ DOMAIN fs' = (DOMAIN fs \ {path[p]}) \cup {Dest}
        /\ fs'[Dest] = fs[path[p]]
        /\ \A n \in DOMAIN fs' \ {Dest} : n \in DOMAIN fs /\ fs'[n] = fs[n]
    BY DEF Rename
  <1>4. /\ pc'[p] = "published"
        /\ \A q \in Publishers : q # p => pc'[q] = pc[q]
        /\ UNCHANGED <<cover, atomic, path, snapshot, attempts, result, warned>>
    BY DEF Rename, Goto, locals, IInv, TypeOK
  <1>5. Exists(Dest)' /\ fs'[Dest].by = p /\ fs'[Dest].files = Staged(p)
    BY <1>2, <1>3 DEF Exists
  <1>6. fs'[Dest] \in Finished /\ (p \in Batches => Staged(p) = snapshot[p])
    BY <1>1, <1>3, FilledFinished
  <1>7. TypeOK'
    <2>1. \A n \in DOMAIN fs' : fs'[n] \in Directory
      BY <1>2, <1>3 DEF IInv, TypeOK
    <2>2. DOMAIN fs' \subseteq Names \cup {Dest}
      BY <1>3 DEF IInv, TypeOK
    <2>3. pc' \in [Publishers -> Stages]
      BY DEF Rename, Goto, IInv, TypeOK, Stages
    <2> QED
      BY <1>4, <2>1, <2>2, <2>3 DEF IInv, TypeOK
  <1>8. Ownership'
    BY <1>2, <1>3, <1>4, ConstantsAssumption DEF IInv, Ownership, Exists
  <1>9. Measured'
    BY <1>4 DEF IInv, Measured
  <1>10. Filling'
    <2>1. \A q \in Publishers : pc'[q] = "write" =>
             /\ q # p /\ pc[q] = "write"
             /\ Staged(q)' = Staged(q) /\ Size(q)' = Size(q)
      BY <1>3, <1>4, <1>8, ConstantsAssumption DEF Ownership, Exists, Staged, Size
    <2> QED
      BY <1>4, <2>1 DEF IInv, Filling
  <1>11. Destination'
    BY <1>4, <1>5, <1>6 DEF Destination, Finished
  <1>12. Outcomes'
    BY <1>1, <1>2, <1>4, <1>5 DEF IInv, Outcomes
  <1>13. Residue' /\ ResidueReported'
    <2>1. \A n \in DOMAIN fs' \ {Dest} :
             n \in DOMAIN fs \ {Dest, path[p]} /\ fs'[n] = fs[n] /\ fs[n].by # p
      BY <1>2, <1>3
    <2> QED
      BY <1>4, <2>1 DEF IInv, Residue, ResidueReported
  <1>14. ResultTruthful'
    BY <1>1, <1>2, <1>4, <1>5 DEF IInv, ResultTruthful, Outcomes
  <1>15. SealedAsMeasured'
    BY <1>4, <1>5, <1>6 DEF SealedAsMeasured
  <1> QED
    BY <1>1, <1>5, <1>6, <1>7, <1>8, <1>9, <1>10, <1>11, <1>12, <1>13, <1>14, <1>15
    DEF IInv, Seen

LEMMA CleanupInv ==
    ASSUME IInv, NEW p \in Publishers, Abort(p) \/ Drop(p)
    PROVE  IInv' /\ Seen
  <1>1. pc[p] \in {"abort", "drop"}
    BY DEF Abort, Drop
  <1>2. /\ path[p] \in Names /\ path[p] \in DOMAIN fs
        /\ fs[path[p]] = [by |-> p, files |-> Staged(p)]
        /\ Staged(p) \in Seq(Contents)
        /\ Exists(Dest) => fs[Dest].by # p
        /\ \A n \in DOMAIN fs \ {Dest, path[p]} : fs[n].by # p
        /\ \A q \in Publishers \ {p} :
              pc[q] \in {"write", "abort", "drop"} => path[q] # path[p]
        /\ result[p] \in Results \ {"Ok"}
        /\ result[p] = "OutputExists" => Exists(Dest)
    BY <1>1, OwnDirectory
  <1>3. /\ UNCHANGED <<path, snapshot, atomic, cover, attempts>>
        /\ result = [result EXCEPT ![p] = result[p]]
        /\ warned \subseteq Batches
    BY DEF Abort, Drop, IInv, TypeOK
  <1>4. CASE Removed(p) /\ Goto(p, "ended") /\ UNCHANGED <<warned, result>>
    <2>1. /\ fs' = Without(path[p])
          /\ pc' = [pc EXCEPT ![p] = "ended"]
          /\ pc' \in [Publishers -> Stages]
          /\ pc'[p] = "ended"
          /\ \A q \in Publishers : q # p => pc'[q] = pc[q]
      BY <1>4 DEF Removed, Goto, IInv, TypeOK, Stages
    <2>2. \A q \in Publishers :
             /\ path[q] = path[p] => pc'[q] \notin {"write", "abort", "drop"}
             /\ pc'[q] # pc[q] => q = p
      BY <1>2, <2>1
    <2>3. \A q \in Publishers :
             /\ path[q] = path[p] => pc'[q] \notin {"write", "abort", "drop"}
             /\ pc'[q] # pc[q] => /\ pc[q] \in {"abort", "drop"}
                                  /\ pc' = [pc EXCEPT ![q] = "ended"]
                                  /\ path[q] = path[p]
                                  /\ fs[path[p]].by = q
                                  /\ \A n \in DOMAIN fs \ {Dest, path[p]} : fs[n].by # q
                                  /\ Exists(Dest) => fs[Dest].by # q
      <3>1. ASSUME NEW q \in Publishers, pc'[q] # pc[q]
            PROVE  /\ pc[q] \in {"abort", "drop"}
                   /\ pc' = [pc EXCEPT ![q] = "ended"]
                   /\ path[q] = path[p]
                   /\ fs[path[p]].by = q
                   /\ \A n \in DOMAIN fs \ {Dest, path[p]} : fs[n].by # q
                   /\ Exists(Dest) => fs[Dest].by # q
        <4>1. q = p
          BY <2>2, <3>1
        <4>2. fs[path[p]].by = p
          BY <1>2
        <4> QED
          BY <1>1, <1>2, <2>1, <4>1, <4>2
      <3> QED
        BY <2>2, <3>1
    <2>4. UNCHANGED <<path, snapshot, atomic, cover, attempts, warned, result>>
      BY <1>3, <1>4
    <2>5. /\ IInv'
          /\ Exists(Dest)' = Exists(Dest)
          /\ Exists(Dest) => fs'[Dest] = fs[Dest]
      BY <1>2, <2>1, <2>3, <2>4, RemovalInv
    <2> QED
      BY <2>5 DEF Seen
  <1>5. CASE Half(p)
    <2>1. PICK n \in 0 .. Len(Staged(p)) :
             fs' = Put(path[p], [by |-> p, files |-> SubSeq(Staged(p), 1, n)])
      BY <1>5 DEF Half
    <2>2. SubSeq(Staged(p), 1, n) \in Seq(Contents)
      <3>1. Len(Staged(p)) \in Nat /\ n \in Nat
        BY <1>2
      <3>2. \A i \in 1 .. n : Staged(p)[i] \in Contents
        BY <1>2, <3>1
      <3> QED
        BY <1>2, <3>1, <3>2, SubSeqProperties
    <2>3. /\ DOMAIN fs' = DOMAIN fs
          /\ fs'[path[p]] = [by |-> p, files |-> SubSeq(Staged(p), 1, n)]
          /\ \A m \in DOMAIN fs \ {path[p]} : fs'[m] = fs[m]
      BY <1>2, <2>1, PutExisting
    <2> DEFINE kept == SubSeq(Staged(p), 1, n)
    <2> HIDE DEF kept
    <2>4. /\ kept \in Seq(Contents)
          /\ DOMAIN fs' = DOMAIN fs
          /\ fs'[path[p]] = [by |-> p, files |-> kept]
          /\ \A m \in DOMAIN fs \ {path[p]} : fs'[m] = fs[m]
      BY <2>2, <2>3 DEF kept
    <2>5. CASE Abort(p) /\ ~Removed(p)
      <3>1. /\ Goto(p, "drop") /\ result' = [result EXCEPT ![p] = "CleanupFailed"]
            /\ UNCHANGED warned
        BY <2>5 DEF Abort
      <3>2. "CleanupFailed" \in Results \ {"Ok"}
        BY DEF Results
      <3>3. /\ IInv'
            /\ Exists(Dest)' = Exists(Dest)
            /\ Exists(Dest) => fs'[Dest] = fs[Dest]
        BY <1>1, <1>3, <2>4, <3>1, <3>2, StagingInv
      <3> QED
        BY <3>3 DEF Seen
    <2>6. CASE Drop(p) /\ ~Removed(p)
      <3>1. /\ Goto(p, "ended") /\ UNCHANGED result
            /\ warned' = IF p \in Batches THEN warned \cup {p} ELSE warned
        BY <2>6 DEF Drop, RemoveStaging
      <3>2. /\ warned \subseteq warned' /\ warned' \subseteq Batches
            /\ result[p] = "CleanupFailed" \/ p \in warned'
        BY <2>6, <1>3, <3>1 DEF Drop, IInv, Outcomes, Publishers
      <3>3. /\ IInv'
            /\ Exists(Dest)' = Exists(Dest)
            /\ Exists(Dest) => fs'[Dest] = fs[Dest]
        BY <1>1, <1>2, <1>3, <2>4, <3>1, <3>2, StagingInv
      <3> QED
        BY <3>3 DEF Seen
    <2>7. ~Removed(p)
      BY <1>2, <2>4 DEF Removed, Without
    <2> QED
      BY <2>5, <2>6, <2>7
  <1>6. \/ Removed(p) /\ Goto(p, "ended") /\ UNCHANGED <<warned, result>>
        \/ Half(p)
    BY DEF Abort, Drop, RemoveStaging
  <1> QED
    BY <1>4, <1>5, <1>6

LEMMA ReturnInv ==
    ASSUME IInv, NEW p \in Publishers, ReturnOk(p)
    PROVE  IInv' /\ Seen
  <1>1. /\ pc[p] = "published"
        /\ UNCHANGED <<fs, cover, atomic, path, snapshot, attempts, warned>>
    BY DEF ReturnOk
  <1>2. /\ pc'[p] = "ended" /\ result'[p] = "Ok"
        /\ \A q \in Publishers : q # p => pc'[q] = pc[q] /\ result'[q] = result[q]
    BY DEF ReturnOk, Return, Goto, IInv, TypeOK
  <1>3. Exists(Dest) /\ fs[Dest].by = p
    BY <1>1 DEF IInv, Outcomes
  <1>4. \A n \in DOMAIN fs \ {Dest} : fs[n].by # p
    BY <1>1 DEF IInv, Residue
  <1>5. TypeOK'
    BY <1>1 DEF ReturnOk, Return, Goto, IInv, TypeOK, Stages, Results
  <1>6. Ownership' /\ Measured' /\ Filling'
    <2>1. Ownership' /\ Measured'
      BY <1>1, <1>2 DEF IInv, Ownership, Measured, Exists
    <2>2. Filling'
      BY <1>1, <1>2 DEF IInv, Filling, Staged
    <2> QED
      BY <2>1, <2>2
  <1>7. Destination' /\ Outcomes' /\ Residue'
    BY <1>1, <1>2, <1>3 DEF IInv, Destination, Outcomes, Residue, Exists
  <1>8. ResultTruthful' /\ SealedAsMeasured' /\ ResidueReported'
    <2>1. ResultTruthful'
      BY <1>1, <1>2, <1>3 DEF IInv, ResultTruthful, Exists
    <2>2. SealedAsMeasured'
      BY <1>1 DEF IInv, SealedAsMeasured, Exists
    <2>3. ResidueReported'
      BY <1>1, <1>2, <1>4 DEF IInv, ResidueReported, Residue
    <2> QED
      BY <2>1, <2>2, <2>3
  <1> QED
    BY <1>1, <1>5, <1>6, <1>7, <1>8 DEF IInv, Seen, Exists

LEMMA CrashInv ==
    ASSUME IInv, NEW p \in Publishers, Crash(p)
    PROVE  IInv' /\ Seen
  <1>1. /\ pc[p] # "ended"
        /\ UNCHANGED <<fs, cover, atomic, path, snapshot, attempts, result, warned>>
    BY DEF Crash, locals
  <1>2. /\ pc'[p] = "crashed"
        /\ \A q \in Publishers : q # p => pc'[q] = pc[q]
    BY DEF Crash, Goto, IInv, TypeOK
  <1>3. TypeOK'
    BY <1>1 DEF Crash, Goto, IInv, TypeOK, Stages
  <1>4. Ownership' /\ Measured'
    BY <1>1, <1>2 DEF IInv, Ownership, Measured, Exists
  <1>5. Filling'
    BY <1>1, <1>2 DEF IInv, Filling, Staged
  <1>6. Destination' /\ Outcomes'
    BY <1>1, <1>2 DEF IInv, Destination, Outcomes, Exists
  <1>7. Residue' /\ ResidueReported'
    BY <1>1, <1>2 DEF IInv, Residue, ResidueReported
  <1>8. ResultTruthful'
    BY <1>1, <1>2 DEF IInv, ResultTruthful, Exists
  <1>9. SealedAsMeasured'
    BY <1>1 DEF IInv, SealedAsMeasured, Exists
  <1> QED
    BY <1>1, <1>3, <1>4, <1>5, <1>6, <1>7, <1>8, <1>9 DEF IInv, Seen, Exists

\* A process's own steps, and its being killed.
LEMMA ProcessInv ==
    ASSUME IInv, NEW p \in Publishers, Step(p) \/ Crash(p)
    PROVE  IInv' /\ Seen
  <1>1. CASE \/ Refuse(p) \/ CheckDestination(p) \/ ListCovers(p)
             \/ MeasureCover(p) \/ FailEarly(p)
    <2>1. IInv' /\ UNCHANGED fs
      BY <1>1, EarlyInv
    <2> QED
      BY <2>1 DEF Seen, Exists
  <1>2. CASE CreateStaging(p)
    BY <1>2, CreateInv
  <1>3. CASE WriteFile(p) \/ WriteFails(p) \/ RenameFails(p)
    BY <1>3, WriteInv
  <1>4. CASE Rename(p)
    BY <1>4, RenameInv
  <1>5. CASE ReturnOk(p)
    BY <1>5, ReturnInv
  <1>6. CASE Abort(p) \/ Drop(p)
    BY <1>6, CleanupInv
  <1>7. CASE Crash(p)
    BY <1>7, CrashInv
  <1> QED
    BY <1>1, <1>2, <1>3, <1>4, <1>5, <1>6, <1>7 DEF Step

LEMMA EnvironmentInv ==
    ASSUME IInv, Environment
    PROVE  IInv' /\ Seen
  <1>1. CASE OutsiderCreates
    <2>1. /\ ~Exists(Dest)
          /\ DOMAIN fs' = DOMAIN fs \cup {Dest}
          /\ fs'[Dest] = [by |-> Outsider, files |-> <<>>]
          /\ \A n \in DOMAIN fs : n # Dest /\ fs'[n] = fs[n]
          /\ UNCHANGED <<cover, atomic, pc, path, snapshot, attempts, result, warned>>
      BY <1>1 DEF OutsiderCreates, Put, Exists, locals
    <2>2. Outsider \notin Publishers /\ Outsider \notin Batches
      BY ConstantsAssumption DEF Publishers
    <2>3. Exists(Dest)' /\ fs'[Dest] \in Finished /\ fs'[Dest] \in Directory
      BY <2>1 DEF Exists, Finished, Directory
    <2>4. TypeOK'
      BY <2>1, <2>3 DEF IInv, TypeOK
    <2>5. Ownership' /\ Measured'
      BY <2>1 DEF IInv, Ownership, Measured, Exists
    <2>6. Filling'
      BY <2>1 DEF IInv, Filling, Ownership, Exists, Staged, Size
    <2>7. Destination' /\ Outcomes'
      BY <2>1, <2>2, <2>3 DEF IInv, Destination, Outcomes, Finished
    <2>8. Residue' /\ ResidueReported'
      BY <2>1 DEF IInv, Residue, ResidueReported
    <2>9. ResultTruthful' /\ SealedAsMeasured'
      BY <2>1, <2>2, <2>3 DEF IInv, ResultTruthful, SealedAsMeasured, Outcomes
    <2> QED
      BY <2>1, <2>3, <2>4, <2>5, <2>6, <2>7, <2>8, <2>9 DEF IInv, Seen
  <1>2. ASSUME NEW name \in Names, Sweep(name)
        PROVE  IInv' /\ Seen
    <2>1. /\ name \in DOMAIN fs /\ name # Dest
          /\ pc[fs[name].by] \in {"ended", "crashed"}
          /\ fs' = Without(name)
          /\ UNCHANGED <<cover, atomic, pc, path, snapshot, attempts, result, warned>>
      BY <1>2, ConstantsAssumption DEF Sweep, Exists, locals
    <2>2. \A q \in Publishers :
             path[q] = name => pc'[q] \notin {"write", "abort", "drop"}
      BY <2>1 DEF IInv, Ownership
    <2>3. pc' \in [Publishers -> Stages]
      BY <2>1 DEF IInv, TypeOK
    <2>4. /\ IInv'
          /\ Exists(Dest)' = Exists(Dest)
          /\ Exists(Dest) => fs'[Dest] = fs[Dest]
      BY <2>1, <2>2, <2>3, RemovalInv
    <2> QED
      BY <2>4 DEF Seen
  <1>3. ASSUME NEW b \in 1 .. Books, NEW content \in Covers \cup {Absent},
               ChangeCover(b, content)
        PROVE  IInv' /\ Seen
    <2>1. /\ cover' \in [1 .. Books -> Covers \cup {Absent}]
          /\ UNCHANGED <<fs, atomic, pc, path, snapshot, attempts, result, warned>>
      BY <1>3 DEF ChangeCover, locals, IInv, TypeOK
    <2>2. TypeOK'
      BY <2>1 DEF IInv, TypeOK
    <2>3. Ownership' /\ Measured' /\ Filling'
      BY <2>1 DEF IInv, Ownership, Measured, Filling, Exists, Staged
    <2>4. Destination' /\ Outcomes' /\ Residue'
      BY <2>1 DEF IInv, Destination, Outcomes, Residue, Exists
    <2>5. ResultTruthful' /\ SealedAsMeasured' /\ ResidueReported'
      BY <2>1 DEF IInv, ResultTruthful, SealedAsMeasured, ResidueReported, Exists
    <2> QED
      BY <2>1, <2>2, <2>3, <2>4, <2>5 DEF IInv, Seen, Exists
  <1> QED
    BY <1>1, <1>2, <1>3 DEF Environment

LEMMA StepInv ==
    ASSUME IInv, [Next]_vars
    PROVE  IInv' /\ Seen
  <1>1. CASE UNCHANGED vars
    <2>1. UNCHANGED <<fs, cover, atomic, pc, path, snapshot, attempts, result, warned>>
      BY <1>1 DEF vars
    <2>2. TypeOK' /\ Ownership' /\ Measured'
      BY <2>1 DEF IInv, TypeOK, Ownership, Measured, Exists
    <2>3. Filling' /\ Destination' /\ Outcomes'
      BY <2>1 DEF IInv, Filling, Destination, Outcomes, Exists, Staged
    <2>4. Residue' /\ ResultTruthful' /\ SealedAsMeasured' /\ ResidueReported'
      BY <2>1 DEF IInv, Residue, ResultTruthful, SealedAsMeasured, ResidueReported, Exists
    <2> QED
      BY <2>1, <2>2, <2>3, <2>4 DEF IInv, Seen, Exists
  <1>2. CASE Next
    BY <1>2, ProcessInv, EnvironmentInv DEF Next
  <1> QED
    BY <1>1, <1>2

\* IInv is an invariant of every race for the destination.
THEOREM Invariance == Spec => []IInv
  <1>1. Init => IInv
    BY InitInv
  <1>2. IInv /\ [Next]_vars => IInv'
    BY StepInv
  <1> QED
    BY <1>1, <1>2, PTL DEF Spec

\* The types hold; in particular no batch ever holds a snapshot of a cover its
\* book does not fit.
THEOREM TypeCorrect == Spec => []TypeOK
  <1>1. IInv => TypeOK
    BY DEF IInv
  <1> QED
    BY <1>1, Invariance, PTL

\* What write_to_directory and seal-batch return is true of the destination.
THEOREM Truthful == Spec => []ResultTruthful
  <1>1. IInv => ResultTruthful
    BY DEF IInv
  <1> QED
    BY <1>1, Invariance, PTL

\* A published batch holds one capsule over each of the covers preflight_batch
\* measured, whatever happens to the covers directory meanwhile.
THEOREM Sealed == Spec => []SealedAsMeasured
  <1>1. IInv => SealedAsMeasured
    BY DEF IInv
  <1> QED
    BY <1>1, Invariance, PTL

\* No process that returns leaves a staging directory without saying so.
THEOREM Reported == Spec => []ResidueReported
  <1>1. IInv => ResidueReported
    BY DEF IInv
  <1> QED
    BY <1>1, Invariance, PTL

\* The destination behaves as OneOutput: it is free, then holds one finished
\* output for good.
THEOREM Atomicity == Spec => AppearsWhole
  <1>1. Init => O!Init
    BY DEF Init, O!Init, Output, Exists
  <1>2. Seen => [O!Next]_Output
    BY DEF Seen, O!Next, Output
  <1>3. IInv /\ [Next]_vars => [O!Next]_Output
    BY <1>2, StepInv
  <1> QED
    BY <1>1, <1>3, Invariance, PTL DEF Spec, AppearsWhole, O!Spec

-----------------------------------------------------------------------------
(* CollectionKeys. An id is its thread's own from the critical section that *)
(* records it to the seal that uses it.                                    *)

\* An id that a thread has taken but not yet sealed with is in the set of its
\* key, was sealed with by nobody, and is no other thread's.
TakenIsExclusive ==
    \A t \in Threads :
        seal_pc[t] = "seal" =>
            /\ drawn[t] \in used[object[t]]
            /\ \A i \in DOMAIN sealed :
                  sealed[i].object = object[t] => sealed[i].id # drawn[t]
            /\ \A u \in Threads \ {t} :
                  seal_pc[u] = "seal" /\ object[u] = object[t] => drawn[u] # drawn[t]

\* A thread that is drawing or sealing was given a key that has been made.
KeyIsMade == \A t \in Threads : seal_pc[t] # "idle" => collection[object[t]] # Zero

\* So was the key of every capsule, and its id is in the set of that key.
SealedIsUsed ==
    \A i \in DOMAIN sealed :
        /\ collection[sealed[i].object] # Zero
        /\ sealed[i].id \in used[sealed[i].object]

\* A thread that has drawn holds a nonzero id.
DrawnNonzero == \A t \in Threads : seal_pc[t] \in {"insert", "seal"} => drawn[t] # Zero

KeysInv == /\ KeysTypeOK
        /\ TakenIsExclusive
        /\ KeyIsMade
        /\ SealedIsUsed
        /\ DrawnNonzero
        /\ UniquePerKey

LEMMA KeysInit == ASSUME KeysStart PROVE KeysInv
  <1>1. KeysTypeOK
    BY KeysAssumption DEF KeysStart, KeysTypeOK
  <1> QED
    BY <1>1 DEF KeysStart, KeysInv, TakenIsExclusive, KeyIsMade, SealedIsUsed,
                DrawnNonzero, UniquePerKey

LEMMA SealedObject ==
    ASSUME KeysTypeOK, NEW i \in DOMAIN sealed
    PROVE  sealed[i].object \in Objects
  <1>1. sealed[i] \in Capsule
    BY DEF KeysTypeOK
  <1> QED
    BY <1>1 DEF Capsule

LEMMA MakeKeyInv ==
    ASSUME KeysInv, NEW o \in Objects, MakeKey(o)
    PROVE  KeysInv'
  <1>1. KeysTypeOK'
    BY DEF MakeKey, KeysInv, KeysTypeOK, NonzeroIds
  <1>2. \A t \in Threads : seal_pc[t] # "idle" => object[t] # o
    BY DEF MakeKey, KeysInv, KeyIsMade
  <1>3. \A i \in DOMAIN sealed : sealed[i].object # o
    BY DEF MakeKey, KeysInv, SealedIsUsed
  <1>4. \A x \in Objects \ {o} : collection'[x] = collection[x] /\ used'[x] = used[x]
    BY DEF MakeKey, KeysInv, KeysTypeOK
  <1>5. UNCHANGED <<seal_pc, object, drawn, sealed>>
    BY DEF MakeKey
  <1>6. \A t \in Threads : object[t] \in Objects
    BY DEF KeysInv, KeysTypeOK
  <1>7. \A i \in DOMAIN sealed : sealed[i].object \in Objects
    BY SealedObject DEF KeysInv
  <1>8. TakenIsExclusive'
    BY <1>2, <1>4, <1>5, <1>6 DEF KeysInv, TakenIsExclusive
  <1>9. KeyIsMade'
    BY <1>2, <1>4, <1>5, <1>6 DEF KeysInv, KeyIsMade
  <1>10. SealedIsUsed'
    BY <1>3, <1>4, <1>5, <1>7 DEF KeysInv, SealedIsUsed
  <1> QED
    BY <1>1, <1>5, <1>8, <1>9, <1>10 DEF KeysInv, DrawnNonzero, UniquePerKey

LEMMA BeginSealInv ==
    ASSUME KeysInv, NEW t \in Threads, NEW o \in Objects, BeginSeal(t, o)
    PROVE  KeysInv'
  <1>1. KeysTypeOK'
    BY DEF BeginSeal, KeysInv, KeysTypeOK
  <1>2. /\ seal_pc' = [seal_pc EXCEPT ![t] = "draw"]
        /\ object' = [object EXCEPT ![t] = o]
        /\ collection[o] # Zero
        /\ UNCHANGED <<collection, used, drawn, sealed>>
    BY DEF BeginSeal
  <1>3. \A u \in Threads : seal_pc'[u] = "seal" => u # t /\ seal_pc[u] = "seal"
    BY <1>2 DEF KeysInv, KeysTypeOK
  <1>4. \A u \in Threads \ {t} : object'[u] = object[u] /\ seal_pc'[u] = seal_pc[u]
    BY <1>2 DEF KeysInv, KeysTypeOK
  <1>5. TakenIsExclusive'
    BY <1>2, <1>3, <1>4 DEF KeysInv, TakenIsExclusive
  <1>6. KeyIsMade'
    BY <1>2, <1>4 DEF KeysInv, KeyIsMade, KeysTypeOK
  <1>7. DrawnNonzero'
    BY <1>2, <1>4 DEF KeysInv, DrawnNonzero, KeysTypeOK
  <1> QED
    BY <1>1, <1>2, <1>5, <1>6, <1>7 DEF KeysInv, SealedIsUsed, UniquePerKey

LEMMA DrawInv ==
    ASSUME KeysInv, NEW t \in Threads, Draw(t)
    PROVE  KeysInv'
  <1>1. KeysTypeOK'
    BY DEF Draw, KeysInv, KeysTypeOK, NonzeroIds
  <1>2. PICK id \in NonzeroIds : drawn' = [drawn EXCEPT ![t] = id]
    BY DEF Draw
  <1>3. /\ seal_pc[t] = "draw"
        /\ seal_pc' = [seal_pc EXCEPT ![t] = "insert"]
        /\ UNCHANGED <<collection, used, object, sealed>>
    BY DEF Draw
  <1>4. \A u \in Threads : seal_pc'[u] = "seal" => u # t /\ seal_pc[u] = "seal"
    BY <1>3 DEF KeysInv, KeysTypeOK
  <1>5. \A u \in Threads \ {t} : drawn'[u] = drawn[u] /\ seal_pc'[u] = seal_pc[u]
    BY <1>2, <1>3 DEF KeysInv, KeysTypeOK
  <1>6. TakenIsExclusive'
    BY <1>3, <1>4, <1>5 DEF KeysInv, TakenIsExclusive
  <1>7. KeyIsMade'
    BY <1>3, <1>5 DEF KeysInv, KeyIsMade, KeysTypeOK
  <1>8. DrawnNonzero'
    BY <1>2, <1>5 DEF KeysInv, DrawnNonzero, KeysTypeOK, NonzeroIds
  <1> QED
    BY <1>1, <1>3, <1>6, <1>7, <1>8 DEF KeysInv, SealedIsUsed, UniquePerKey

LEMMA InsertInv ==
    ASSUME KeysInv, NEW t \in Threads, Insert(t)
    PROVE  KeysInv'
  <1>1. /\ seal_pc[t] = "insert"
        /\ drawn[t] \in Ids \ {Zero}
        /\ object[t] \in Objects
        /\ UNCHANGED <<collection, object, drawn, sealed>>
    BY DEF Insert, KeysInv, KeysTypeOK, DrawnNonzero
  <1>2. CASE /\ IsFresh(t)
             /\ Recorded(t)
             /\ seal_pc' = [seal_pc EXCEPT ![t] = "seal"]
    <2>1. KeysTypeOK'
      BY <1>1, <1>2 DEF Recorded, KeysInv, KeysTypeOK
    <2>2. /\ drawn[t] \in used'[object[t]]
          /\ \A o \in Objects : used[o] \subseteq used'[o]
      BY <1>1, <1>2 DEF Recorded, KeysInv, KeysTypeOK
    <2>3. seal_pc'[t] = "seal" /\ \A u \in Threads \ {t} : seal_pc'[u] = seal_pc[u]
      BY <1>2 DEF KeysInv, KeysTypeOK
    <2>4. \A i \in DOMAIN sealed :
             sealed[i].object = object[t] => sealed[i].id # drawn[t]
      BY <1>2 DEF IsFresh, KeysInv, SealedIsUsed
    <2>5. \A u \in Threads \ {t} :
             seal_pc[u] = "seal" /\ object[u] = object[t] => drawn[u] # drawn[t]
      BY <1>2 DEF IsFresh, KeysInv, TakenIsExclusive
    <2>6. \A u \in Threads : object[u] \in Objects
      BY DEF KeysInv, KeysTypeOK
    <2>7. TakenIsExclusive'
      <3>1. ASSUME NEW u \in Threads, seal_pc'[u] = "seal"
            PROVE  /\ drawn[u] \in used'[object[u]]
                   /\ \A i \in DOMAIN sealed :
                         sealed[i].object = object[u] => sealed[i].id # drawn[u]
                   /\ \A v \in Threads \ {u} :
                         seal_pc'[v] = "seal" /\ object[v] = object[u] => drawn[v] # drawn[u]
        <4>1. CASE u = t
          BY <2>2, <2>3, <2>4, <2>5, <4>1
        <4>2. CASE u # t
          <5>1. seal_pc[u] = "seal"
            BY <2>3, <3>1, <4>2
          <5>2. /\ drawn[u] \in used[object[u]]
                /\ \A i \in DOMAIN sealed :
                      sealed[i].object = object[u] => sealed[i].id # drawn[u]
                /\ \A v \in Threads \ {u} :
                      seal_pc[v] = "seal" /\ object[v] = object[u] => drawn[v] # drawn[u]
            BY <5>1 DEF KeysInv, TakenIsExclusive
          <5> QED
            BY <2>2, <2>3, <2>5, <2>6, <4>2, <5>1, <5>2
        <4> QED
          BY <4>1, <4>2
      <3> QED
        BY <1>1, <3>1 DEF TakenIsExclusive
    <2>8. KeyIsMade'
      BY <1>1, <2>3 DEF KeysInv, KeyIsMade
    <2>9. SealedIsUsed'
      BY <1>1, <2>2, SealedObject DEF KeysInv, SealedIsUsed
    <2>10. DrawnNonzero'
      BY <1>1, <2>3 DEF KeysInv, DrawnNonzero
    <2> QED
      BY <1>1, <2>1, <2>7, <2>8, <2>9, <2>10 DEF KeysInv, UniquePerKey
  <1>3. CASE UNCHANGED used /\ seal_pc' = [seal_pc EXCEPT ![t] = "draw"]
    <2>1. KeysTypeOK'
      BY <1>1, <1>3 DEF KeysInv, KeysTypeOK
    <2>2. seal_pc'[t] = "draw" /\ \A u \in Threads \ {t} : seal_pc'[u] = seal_pc[u]
      BY <1>3 DEF KeysInv, KeysTypeOK
    <2>3. TakenIsExclusive'
      BY <1>1, <1>3, <2>2 DEF KeysInv, TakenIsExclusive
    <2>4. KeyIsMade' /\ DrawnNonzero'
      BY <1>1, <2>2 DEF KeysInv, KeyIsMade, DrawnNonzero
    <2> QED
      BY <1>1, <1>3, <2>1, <2>3, <2>4 DEF KeysInv, SealedIsUsed, UniquePerKey
  <1> QED
    BY <1>2, <1>3 DEF Insert

LEMMA SealInv ==
    ASSUME KeysInv, NEW t \in Threads, Seal(t)
    PROVE  KeysInv'
  <1> DEFINE new == [object |-> object[t], collection |-> collection[object[t]],
                     id |-> drawn[t]]
  <1>1. /\ seal_pc[t] = "seal"
        /\ seal_pc' = [seal_pc EXCEPT ![t] = "idle"]
        /\ sealed' = Append(sealed, new)
        /\ UNCHANGED <<collection, used, object, drawn>>
    BY DEF Seal
  <1>2. /\ object[t] \in Objects
        /\ drawn[t] \in Ids \ {Zero}
        /\ collection[object[t]] \in Ids \ {Zero}
    BY <1>1 DEF KeysInv, KeysTypeOK, DrawnNonzero, KeyIsMade
  <1>3. new \in Capsule
    BY <1>2 DEF Capsule
  <1>4. KeysTypeOK'
    BY <1>1, <1>3 DEF KeysInv, KeysTypeOK
  <1>5. /\ DOMAIN sealed' = 1 .. (Len(sealed) + 1)
        /\ DOMAIN sealed = 1 .. Len(sealed)
        /\ Len(sealed) \in Nat
        /\ sealed'[Len(sealed) + 1] = new
        /\ \A i \in DOMAIN sealed : sealed'[i] = sealed[i]
    BY <1>1, <1>3 DEF KeysInv, KeysTypeOK
  <1>6. \A i \in DOMAIN sealed' : i \in DOMAIN sealed \/ i = Len(sealed) + 1
    BY <1>5
  <1>7. /\ new.object = object[t]
        /\ new.id = drawn[t]
    OBVIOUS
  <1> HIDE DEF new
  <1>8. /\ drawn[t] \in used[object[t]]
        /\ \A i \in DOMAIN sealed :
              sealed[i].object = object[t] => sealed[i].id # drawn[t]
        /\ \A u \in Threads \ {t} :
              seal_pc[u] = "seal" /\ object[u] = object[t] => drawn[u] # drawn[t]
    BY <1>1 DEF KeysInv, TakenIsExclusive
  <1>9. \A u \in Threads : seal_pc'[u] # "idle" => u # t /\ seal_pc'[u] = seal_pc[u]
    BY <1>1 DEF KeysInv, KeysTypeOK
  <1>10. TakenIsExclusive'
    <2>1. ASSUME NEW u \in Threads, seal_pc'[u] = "seal"
          PROVE  /\ drawn[u] \in used[object[u]]
                 /\ \A i \in DOMAIN sealed' :
                       sealed'[i].object = object[u] => sealed'[i].id # drawn[u]
                 /\ \A v \in Threads \ {u} :
                       seal_pc'[v] = "seal" /\ object[v] = object[u] => drawn[v] # drawn[u]
      <3>1. u # t /\ seal_pc[u] = "seal"
        BY <1>9, <2>1
      <3>2. /\ drawn[u] \in used[object[u]]
            /\ \A i \in DOMAIN sealed :
                  sealed[i].object = object[u] => sealed[i].id # drawn[u]
            /\ \A v \in Threads \ {u} :
                  seal_pc[v] = "seal" /\ object[v] = object[u] => drawn[v] # drawn[u]
        BY <3>1 DEF KeysInv, TakenIsExclusive
      <3>3. object[u] = object[t] => drawn[u] # drawn[t]
        BY <1>8, <3>1
      <3> QED
        BY <1>5, <1>6, <1>7, <1>9, <3>2, <3>3
    <2> QED
      BY <1>1, <2>1 DEF TakenIsExclusive
  <1>11. KeyIsMade'
    BY <1>1, <1>9 DEF KeysInv, KeyIsMade
  <1>12. SealedIsUsed'
    BY <1>1, <1>2, <1>5, <1>6, <1>7, <1>8 DEF KeysInv, SealedIsUsed
  <1>13. DrawnNonzero'
    BY <1>1, <1>9 DEF KeysInv, DrawnNonzero
  <1>14. UniquePerKey'
    BY <1>5, <1>6, <1>7, <1>8 DEF KeysInv, UniquePerKey
  <1> QED
    BY <1>4, <1>10, <1>11, <1>12, <1>13, <1>14 DEF KeysInv

LEMMA FailInv ==
    ASSUME KeysInv, NEW t \in Threads, Fail(t)
    PROVE  KeysInv'
  <1>1. /\ seal_pc' = [seal_pc EXCEPT ![t] = "idle"]
        /\ UNCHANGED <<collection, used, object, drawn, sealed>>
    BY DEF Fail
  <1>2. KeysTypeOK'
    BY <1>1 DEF KeysInv, KeysTypeOK
  <1>3. \A u \in Threads : seal_pc'[u] # "idle" => u # t /\ seal_pc'[u] = seal_pc[u]
    BY <1>1 DEF KeysInv, KeysTypeOK
  <1>4. TakenIsExclusive'
    BY <1>1, <1>3 DEF KeysInv, TakenIsExclusive
  <1>5. KeyIsMade' /\ DrawnNonzero'
    BY <1>1, <1>3 DEF KeysInv, KeyIsMade, DrawnNonzero
  <1> QED
    BY <1>1, <1>2, <1>4, <1>5 DEF KeysInv, SealedIsUsed, UniquePerKey

LEMMA KeysStep == KeysInv /\ [KeysNext]_key_vars => KeysInv'
  <1>1. CASE KeysNext
    BY <1>1, MakeKeyInv, BeginSealInv, DrawInv, InsertInv, SealInv, FailInv DEF KeysNext
  <1>2. CASE UNCHANGED key_vars
    BY <1>2 DEF key_vars, KeysInv, KeysTypeOK, TakenIsExclusive, KeyIsMade, SealedIsUsed,
                DrawnNonzero, UniquePerKey
  <1> QED
    BY <1>1, <1>2

\* The inductive invariant of the keys holds in every state.
THEOREM KeysInvariance == KeysSpec => []KeysInv
  BY KeysInit, KeysStep, PTL DEF KeysSpec

\* Every variable of the keys keeps its type, and no id that is used is zero.
THEOREM KeysTypeCorrect == KeysSpec => []KeysTypeOK
  BY KeysInvariance, PTL DEF KeysInv

\* fresh_capsule_id never hands out an id twice, though ids are drawn outside
\* the mutex.
THEOREM Unique == KeysSpec => []UniquePerKey
  BY KeysInvariance, PTL DEF KeysInv

-----------------------------------------------------------------------------
(* AndroidApp. Taps, dialogs and coroutines meet on one screen: AppInv, for *)
(* any documents, any number of pickers and any number of input events     *)
(* that slip in between two frames.                                        *)

\* While the frame still offers the button of a recovery that has begun, or that
\* has ended, the field is empty, unless a hasty key filled it.
NoSecondOpen ==
    /\ ~hasty
    /\ frame.screen = "Import" /\ ~frame.loading
    /\ loading \/ book # None
    => ~password

\* The permission was asked for exactly when the saved flag says so, and each
\* prompt becomes at most one picker.
Asked ==
    /\ prompts = IF initialAccessFlowRequested THEN 1 ELSE 0
    /\ autoPickers + permissionDialogs + (IF openPickerAfterPermission THEN 1 ELSE 0)
          <= prompts

AppInv == /\ AppTypeOK
        /\ InfoOfSelection
        /\ ScreenShowsBook
        /\ OneDecode
        /\ NoSecondOpen
        /\ Asked

\* TypeOK in two parts, as the provers take them: the flags and the rest.
FlagsOK ==
    /\ password \in BOOLEAN /\ loading \in BOOLEAN /\ errorMessage \in BOOLEAN
    /\ openPickerAfterPermission \in BOOLEAN /\ entered \in BOOLEAN
    /\ initialAccessFlowRequested \in BOOLEAN /\ hasty \in BOOLEAN

DataOK ==
    /\ screen \in Screens
    /\ selectedUri \in Documents \cup {None}
    /\ selectedDocumentInfo \in Documents \cup {None}
    /\ book \in Documents \cup {None}
    /\ frame \in [screen : Screens, connected : BOOLEAN, typed : BOOLEAN,
                  loading : BOOLEAN, opened : BOOLEAN]
    /\ stale \in 0 .. MaxStale
    /\ describes \subseteq Documents
    /\ decodes \in Seq(Documents)
    /\ permissionDialogs \in Nat /\ pickers \in Nat
    /\ autoPickers \in Nat /\ prompts \in Nat

LEMMA TypeParts == AppTypeOK <=> FlagsOK /\ DataOK
  BY Zenon DEF AppTypeOK, FlagsOK, DataOK

LEMMA AppStartInv == ASSUME AppStart PROVE AppInv
  <1>1. AppTypeOK
    <2>1. FlagsOK
      BY Zenon DEF AppStart, FlagsOK
    <2>2. DataOK
      BY AppAssumption DEF AppStart, DataOK, FirstFrame, Screens
    <2> QED
      BY <2>1, <2>2, TypeParts
  <1>2. InfoOfSelection /\ ScreenShowsBook /\ OneDecode
    BY DEF AppStart, InfoOfSelection, ScreenShowsBook, OneDecode
  <1>3. NoSecondOpen
    BY DEF AppStart, NoSecondOpen, FirstFrame
  <1>4. Asked
    BY DEF AppStart, Asked
  <1> QED
    BY <1>1, <1>2, <1>3, <1>4 DEF AppInv

LEMMA FrameIsDrawn ==
    /\ Composed.screen = screen
    /\ Composed.loading = loading
    /\ Composed.opened = (book # None)
  BY DEF Composed

LEMMA ComposedType ==
    ASSUME FlagsOK, screen \in Screens
    PROVE  Composed \in [screen : Screens, connected : BOOLEAN, typed : BOOLEAN,
                         loading : BOOLEAN, opened : BOOLEAN]
  <1>1. /\ (selectedUri # None) \in BOOLEAN
        /\ (book # None) \in BOOLEAN
    OBVIOUS
  <1> QED
    BY <1>1 DEF Composed, FlagsOK

LEMMA RecomposeInv == ASSUME AppInv, Recompose PROVE AppInv'
  <1>1. FlagsOK /\ DataOK
    BY TypeParts DEF AppInv
  <1>2. UNCHANGED <<remembered, coroutines, lasting, hasty>>
    BY DEF Recompose
  <1>3. frame' = Composed /\ stale' = 0
    BY DEF Recompose
  <1>4. AppTypeOK'
    <2>1. FlagsOK'
      BY Zenon, <1>1, <1>2 DEF FlagsOK, remembered, lasting
    <2>2. frame' \in [screen : Screens, connected : BOOLEAN, typed : BOOLEAN,
                     loading : BOOLEAN, opened : BOOLEAN]
      BY <1>1, <1>3, ComposedType DEF DataOK
    <2>3. DataOK'
      BY <1>1, <1>2, <1>3, <2>2, AppAssumption
      DEF DataOK, remembered, coroutines, lasting
    <2> QED
      BY Zenon, <2>1, <2>3 DEF AppTypeOK, FlagsOK, DataOK
  <1>5. InfoOfSelection' /\ ScreenShowsBook' /\ OneDecode'
    BY <1>2
    DEF AppInv, InfoOfSelection, ScreenShowsBook, OneDecode, remembered, coroutines
  <1>6. NoSecondOpen'
    <2>1. SUFFICES ASSUME frame'.screen = "Import", ~frame'.loading,
                          loading' \/ book' # None
                   PROVE  FALSE
      BY Zenon DEF NoSecondOpen
    <2>2. screen = "Import" /\ ~loading
      BY <1>3, <2>1, FrameIsDrawn
    <2>3. loading' = loading /\ book' = book
      BY <1>2 DEF remembered
    <2> QED
      BY Zenon, <2>1, <2>2, <2>3 DEF AppInv, ScreenShowsBook
  <1>7. Asked'
    BY <1>2 DEF AppInv, Asked, lasting, remembered
  <1> QED
    BY <1>4, <1>5, <1>6, <1>7 DEF AppInv

LEMMA InitialAccessInv == ASSUME AppInv, InitialAccess PROVE AppInv'
  <1> USE DEF InitialAccess, coroutines, display
  <1>1. AppTypeOK'
    <2>1. FlagsOK /\ DataOK
      BY TypeParts DEF AppInv
    <2>2. FlagsOK'
      BY Zenon, <2>1 DEF FlagsOK
    <2>3. DataOK'
      BY <2>1 DEF DataOK
    <2> QED
      BY Zenon, <2>2, <2>3 DEF AppTypeOK, FlagsOK, DataOK
  <1>2. InfoOfSelection' /\ ScreenShowsBook' /\ OneDecode'
    BY DEF AppInv, InfoOfSelection, ScreenShowsBook, OneDecode
  <1>3. NoSecondOpen'
    BY DEF AppInv, NoSecondOpen
  <1>4. Asked'
    BY DEF AppInv, AppTypeOK, Asked
  <1> QED
    BY <1>1, <1>2, <1>3, <1>4 DEF AppInv

LEMMA PermissionResultInv == ASSUME AppInv, PermissionResult PROVE AppInv'
  <1> USE DEF PermissionResult, coroutines, display
  <1>1. AppTypeOK'
    <2>1. FlagsOK /\ DataOK
      BY TypeParts DEF AppInv
    <2>2. FlagsOK'
      BY Zenon, <2>1 DEF FlagsOK
    <2>3. DataOK'
      BY <2>1 DEF DataOK
    <2> QED
      BY Zenon, <2>2, <2>3 DEF AppTypeOK, FlagsOK, DataOK
  <1>2. InfoOfSelection' /\ ScreenShowsBook' /\ OneDecode'
    BY DEF AppInv, InfoOfSelection, ScreenShowsBook, OneDecode
  <1>3. NoSecondOpen'
    BY DEF AppInv, NoSecondOpen
  <1>4. Asked'
    BY DEF AppInv, AppTypeOK, Asked
  <1> QED
    BY <1>1, <1>2, <1>3, <1>4 DEF AppInv

LEMMA PickAfterPermissionInv == ASSUME AppInv, PickAfterPermission PROVE AppInv'
  <1> USE DEF PickAfterPermission, coroutines, display
  <1>1. AppTypeOK'
    <2>1. FlagsOK /\ DataOK
      BY TypeParts DEF AppInv
    <2>2. FlagsOK'
      BY Zenon, <2>1 DEF FlagsOK
    <2>3. DataOK'
      BY <2>1 DEF DataOK
    <2> QED
      BY Zenon, <2>2, <2>3 DEF AppTypeOK, FlagsOK, DataOK
  <1>2. InfoOfSelection' /\ ScreenShowsBook' /\ OneDecode'
    BY DEF AppInv, InfoOfSelection, ScreenShowsBook, OneDecode
  <1>3. NoSecondOpen'
    BY DEF AppInv, NoSecondOpen
  <1>4. Asked'
    BY DEF AppInv, AppTypeOK, Asked
  <1> QED
    BY <1>1, <1>2, <1>3, <1>4 DEF AppInv

LEMMA OpenDocumentResultInv ==
    ASSUME AppInv, NEW uri \in Documents \cup {None}, OpenDocumentResult(uri)
    PROVE  AppInv'
  <1> USE DEF OpenDocumentResult, display
  <1>1. AppTypeOK'
    <2>1. FlagsOK /\ DataOK
      BY TypeParts DEF AppInv
    <2>2. FlagsOK'
      BY Zenon, <2>1 DEF FlagsOK, ToDescribe
    <2>3. DataOK'
      BY <2>1 DEF DataOK, ToDescribe
    <2> QED
      BY Zenon, <2>2, <2>3 DEF AppTypeOK, FlagsOK, DataOK
  <1>2. InfoOfSelection' /\ ScreenShowsBook' /\ OneDecode'
    BY DEF AppInv, InfoOfSelection, ScreenShowsBook, OneDecode
  <1>3. NoSecondOpen'
    BY DEF AppInv, NoSecondOpen
  <1>4. Asked'
    BY DEF AppInv, Asked
  <1> QED
    BY <1>1, <1>2, <1>3, <1>4 DEF AppInv

LEMMA DescribedInv ==
    ASSUME AppInv, NEW uri \in Documents, Described(uri)
    PROVE  AppInv'
  <1> USE DEF Described, display, lasting
  <1>1. AppTypeOK'
    <2>1. FlagsOK /\ DataOK
      BY TypeParts DEF AppInv
    <2>2. FlagsOK'
      BY Zenon, <2>1 DEF FlagsOK
    <2>3. DataOK'
      BY <2>1 DEF DataOK
    <2> QED
      BY Zenon, <2>2, <2>3 DEF AppTypeOK, FlagsOK, DataOK
  <1>2. InfoOfSelection'
    BY DEF AppInv, InfoOfSelection, StillSelected
  <1>3. ScreenShowsBook' /\ OneDecode'
    BY DEF AppInv, ScreenShowsBook, OneDecode
  <1>4. NoSecondOpen'
    BY DEF AppInv, NoSecondOpen
  <1>5. Asked'
    BY DEF AppInv, Asked
  <1> QED
    BY <1>1, <1>2, <1>3, <1>4, <1>5 DEF AppInv

-----------------------------------------------------------------------------
\* An event leaves the frame as it was drawn.
LEMMA EventCounts ==
    ASSUME AppTypeOK, Event
    PROVE  stale' \in 0 .. MaxStale /\ frame' = frame
  BY AppAssumption DEF AppTypeOK, Event

LEMMA SelectInv == ASSUME AppInv, Select PROVE AppInv'
  <1> USE DEF Select, remembered, coroutines
  <1>1. stale' \in 0 .. MaxStale /\ frame' = frame
    BY EventCounts DEF AppInv
  <1>2. AppTypeOK'
    <2>1. FlagsOK /\ DataOK
      BY TypeParts DEF AppInv
    <2>2. FlagsOK'
      BY Zenon, <1>1, <2>1 DEF FlagsOK
    <2>3. DataOK'
      BY <1>1, <2>1 DEF DataOK
    <2> QED
      BY Zenon, <2>2, <2>3 DEF AppTypeOK, FlagsOK, DataOK
  <1>3. InfoOfSelection' /\ ScreenShowsBook' /\ OneDecode'
    BY DEF AppInv, InfoOfSelection, ScreenShowsBook, OneDecode
  <1>4. NoSecondOpen'
    BY <1>1 DEF AppInv, NoSecondOpen
  <1>5. Asked'
    BY DEF AppInv, Asked
  <1> QED
    BY <1>2, <1>3, <1>4, <1>5 DEF AppInv

LEMMA PasswordChangedInv ==
    ASSUME AppInv, NEW typed \in BOOLEAN, PasswordChanged(typed)
    PROVE  AppInv'
  <1>1. stale' \in 0 .. MaxStale /\ frame' = frame
    BY EventCounts DEF AppInv, PasswordChanged
  <1>2. UNCHANGED <<screen, selectedUri, selectedDocumentInfo, loading, errorMessage,
                    book, openPickerAfterPermission, entered, coroutines, lasting>>
    BY DEF PasswordChanged
  <1>3. /\ password' = typed
        /\ hasty' = (hasty \/ (typed /\ frame # Composed /\ (loading \/ book # None)))
    BY DEF PasswordChanged
  <1>4. AppTypeOK'
    <2>1. FlagsOK /\ DataOK
      BY TypeParts DEF AppInv
    <2>2. hasty' \in BOOLEAN
      BY <1>3
    <2>3. FlagsOK'
      BY Zenon, <1>2, <1>3, <2>1, <2>2 DEF FlagsOK, lasting
    <2>4. DataOK'
      BY <1>1, <1>2, <2>1 DEF DataOK, coroutines, lasting
    <2> QED
      BY Zenon, <2>3, <2>4 DEF AppTypeOK, FlagsOK, DataOK
  <1>5. ~hasty' => ~hasty
    BY <1>3
  <1>6. InfoOfSelection' /\ ScreenShowsBook' /\ OneDecode'
    BY <1>2, <1>5 DEF AppInv, InfoOfSelection, ScreenShowsBook, OneDecode, coroutines
  <1>7. NoSecondOpen'
    <2>1. SUFFICES ASSUME ~hasty', frame'.screen = "Import", ~frame'.loading,
                          loading' \/ book' # None
                   PROVE  ~password'
      BY Zenon DEF NoSecondOpen
    <2>2. loading \/ book # None
      BY <1>2, <2>1
    <2>3. CASE frame = Composed
      <3>1. screen = "Import" /\ ~loading
        BY <1>1, <2>1, <2>3, FrameIsDrawn
      <3> QED
        BY <2>2, <3>1 DEF AppInv, ScreenShowsBook
    <2>4. CASE frame # Composed
      BY <1>3, <2>1, <2>2, <2>4
    <2> QED
      BY <2>3, <2>4
  <1>8. Asked'
    BY <1>2 DEF AppInv, Asked, lasting
  <1> QED
    BY <1>4, <1>6, <1>7, <1>8 DEF AppInv

\* Open starts a recovery only when none runs and no book is open, unless a
\* hasty key let it.
LEMMA OpenWhenIdle ==
    ASSUME AppInv, Open, password, ~hasty
    PROVE  ~loading /\ book = None /\ Len(decodes) = 0
  <1>1. frame.screen = "Import" /\ ~frame.loading
    BY DEF Open
  <1>2. ~loading /\ book = None
    BY <1>1 DEF AppInv, NoSecondOpen, AppTypeOK
  <1> QED
    BY <1>2 DEF AppInv, OneDecode

LEMMA OpenInv == ASSUME AppInv, Open PROVE AppInv'
  <1>1. stale' \in 0 .. MaxStale /\ frame' = frame
    BY EventCounts DEF AppInv, Open
  <1>2. UNCHANGED <<screen, selectedUri, selectedDocumentInfo, book,
                    openPickerAfterPermission, entered, describes, lasting>>
    BY DEF Open
  <1>3. ~password'
    BY DEF Open, PasswordAfterOpen
  <1>4. CASE /\ ~password
             /\ errorMessage' = TRUE
             /\ UNCHANGED <<password, loading, decodes, hasty>>
    <2>1. AppTypeOK'
      <3>1. FlagsOK /\ DataOK
        BY TypeParts DEF AppInv
      <3>2. FlagsOK'
        BY Zenon, <1>1, <1>2, <1>4, <3>1 DEF FlagsOK, lasting
      <3>3. DataOK'
        BY <1>1, <1>2, <1>4, <3>1 DEF DataOK, lasting
      <3> QED
        BY Zenon, <3>2, <3>3 DEF AppTypeOK, FlagsOK, DataOK
    <2>2. InfoOfSelection' /\ ScreenShowsBook' /\ OneDecode'
      BY <1>2, <1>4 DEF AppInv, InfoOfSelection, ScreenShowsBook, OneDecode
    <2> QED
      BY <1>1, <1>2, <1>3, <2>1, <2>2 DEF AppInv, NoSecondOpen, Asked, lasting
  <1>5. CASE /\ password
             /\ password' = PasswordAfterOpen
             /\ loading' = TRUE
             /\ errorMessage' = FALSE
             /\ decodes' = Append(decodes, selectedUri)
             /\ hasty' = (hasty /\ (decodes # <<>> \/ book # None))
    <2>1. selectedUri \in Documents /\ decodes \in Seq(Documents)
      BY DEF AppInv, AppTypeOK, Open
    <2>2. ~hasty' => book = None /\ Len(decodes) = 0
      <3>1. CASE hasty
        BY <1>5, <2>1, <3>1
      <3>2. CASE ~hasty
        BY <1>5, <3>2, OpenWhenIdle
      <3> QED
        BY <3>1, <3>2
    <2>3. AppTypeOK'
      <3>1. FlagsOK /\ DataOK
        BY TypeParts DEF AppInv
      <3>2. hasty' \in BOOLEAN
        BY <1>5
      <3>3. FlagsOK'
        BY Zenon, <1>1, <1>2, <1>5, <2>1, <3>1, <3>2 DEF FlagsOK, lasting, PasswordAfterOpen
      <3>4. DataOK'
        BY <1>1, <1>2, <1>5, <2>1, <3>1 DEF DataOK, lasting, PasswordAfterOpen
      <3> QED
        BY Zenon, <3>3, <3>4 DEF AppTypeOK, FlagsOK, DataOK
    <2>4. OneDecode'
      <3>1. Len(decodes') = Len(decodes) + 1 /\ decodes' # <<>>
        BY <1>5, <2>1
      <3>2. loading' /\ book' = book
        BY <1>2, <1>5
      <3>3. ~hasty' => Len(decodes') = 1 /\ book' = None
        BY <2>2, <3>1, <3>2
      <3> QED
        BY <3>1, <3>2, <3>3 DEF OneDecode
    <2>5. InfoOfSelection' /\ ScreenShowsBook'
      BY <1>2 DEF AppInv, InfoOfSelection, ScreenShowsBook
    <2> QED
      BY <1>1, <1>2, <1>3, <2>3, <2>4, <2>5 DEF AppInv, NoSecondOpen, Asked, lasting
  <1> QED
    BY <1>4, <1>5 DEF Open

\* RemoveAt shortens a sequence by one and keeps its elements in their set.
LEMMA RemovedOne ==
    ASSUME NEW S, NEW s \in Seq(S), NEW i \in 1 .. Len(s)
    PROVE  RemoveAt(s, i) \in Seq(S) /\ Len(RemoveAt(s, i)) = Len(s) - 1
  <1> DEFINE before == SubSeq(s, 1, i - 1)
             after == SubSeq(s, i + 1, Len(s))
  <1>1. i \in Nat /\ Len(s) \in Nat /\ 1 <= i /\ i <= Len(s)
    OBVIOUS
  <1>2. before \in Seq(S) /\ Len(before) = i - 1
    BY <1>1
  <1>3. after \in Seq(S) /\ Len(after) = Len(s) - i
    BY <1>1
  <1>4. RemoveAt(s, i) = before \o after
    BY DEF RemoveAt
  <1> HIDE DEF before, after
  <1>5. before \o after \in Seq(S) /\ Len(before \o after) = Len(before) + Len(after)
    BY <1>2, <1>3
  <1> QED
    BY <1>1, <1>2, <1>3, <1>4, <1>5

\* A recovery that ends leaves the others; without a hasty key there are none,
\* and the field is empty while the frame still offers the button.
LEMMA EndOfDecode ==
    ASSUME AppInv, NEW i \in DOMAIN decodes
    PROVE  /\ decodes[i] \in Documents
           /\ RemoveAt(decodes, i) \in Seq(Documents)
           /\ HastyAfterEnd \in BOOLEAN
           /\ ~HastyAfterEnd => Len(RemoveAt(decodes, i)) = 0
           /\ ~HastyAfterEnd /\ frame.screen = "Import" /\ ~frame.loading => ~password
  <1>1. decodes \in Seq(Documents) /\ i \in 1 .. Len(decodes)
    BY DEF AppInv, AppTypeOK
  <1>2. /\ RemoveAt(decodes, i) \in Seq(Documents)
        /\ Len(RemoveAt(decodes, i)) = Len(decodes) - 1
    BY <1>1, RemovedOne
  <1>3. ~hasty => loading /\ Len(decodes) = 1
    BY <1>1 DEF AppInv, OneDecode
  <1>4. ~HastyAfterEnd => Len(decodes) = 1
    <2>1. Len(decodes) \in Nat \ {0}
      BY <1>1
    <2>2. hasty /\ Len(decodes) > 1 => HastyAfterEnd
      BY DEF HastyAfterEnd
    <2> QED
      BY <1>3, <2>1, <2>2
  <1>5. ~HastyAfterEnd /\ frame.screen = "Import" /\ ~frame.loading => ~password
    <2>1. ~hasty /\ frame.screen = "Import" /\ ~frame.loading => ~password
      BY <1>3 DEF AppInv, NoSecondOpen
    <2> QED
      BY <2>1 DEF HastyAfterEnd
  <1>6. HastyAfterEnd \in BOOLEAN
    BY DEF HastyAfterEnd
  <1> QED
    BY <1>1, <1>2, <1>4, <1>5, <1>6

LEMMA DecodedInv ==
    ASSUME AppInv, NEW i \in DOMAIN decodes, Decoded(i)
    PROVE  AppInv'
  <1>1. /\ screen' = "Reader" /\ book' = decodes[i] /\ loading' = FALSE
        /\ decodes' = RemoveAt(decodes, i) /\ hasty' = HastyAfterEnd
    BY DEF Decoded
  <1>2. UNCHANGED <<selectedUri, selectedDocumentInfo, password, errorMessage,
                    openPickerAfterPermission, entered, describes, display, lasting>>
    BY DEF Decoded
  <1>3. /\ decodes[i] \in Documents /\ decodes' \in Seq(Documents) /\ hasty' \in BOOLEAN
        /\ ~hasty' => Len(decodes') = 0
        /\ ~hasty' /\ frame.screen = "Import" /\ ~frame.loading => ~password
    BY <1>1, EndOfDecode
  <1>4. book' # None
    BY <1>1, <1>3, AppAssumption
  <1>5. AppTypeOK'
    <2>1. FlagsOK /\ DataOK
      BY TypeParts DEF AppInv
    <2>2. FlagsOK'
      BY Zenon, <1>1, <1>2, <1>3, <2>1 DEF FlagsOK, lasting
    <2>3. DataOK'
      BY <1>1, <1>2, <1>3, <2>1 DEF DataOK, Screens, display, lasting
    <2> QED
      BY Zenon, <2>2, <2>3 DEF AppTypeOK, FlagsOK, DataOK
  <1>6. InfoOfSelection' /\ ScreenShowsBook' /\ OneDecode'
    BY <1>1, <1>2, <1>3, <1>4 DEF AppInv, InfoOfSelection, ScreenShowsBook, OneDecode
  <1>7. NoSecondOpen'
    BY <1>2, <1>3 DEF NoSecondOpen, display
  <1>8. Asked'
    BY <1>2 DEF AppInv, Asked, lasting
  <1> QED
    BY <1>5, <1>6, <1>7, <1>8 DEF AppInv

LEMMA DecodeFailsInv ==
    ASSUME AppInv, NEW i \in DOMAIN decodes, DecodeFails(i)
    PROVE  AppInv'
  <1>1. /\ loading' = FALSE /\ errorMessage' = TRUE
        /\ decodes' = RemoveAt(decodes, i) /\ hasty' = HastyAfterEnd
    BY DEF DecodeFails, LoadingAfterFailure
  <1>2. UNCHANGED <<screen, selectedUri, selectedDocumentInfo, password, book,
                    openPickerAfterPermission, entered, describes, display, lasting>>
    BY DEF DecodeFails
  <1>3. /\ decodes' \in Seq(Documents) /\ hasty' \in BOOLEAN
        /\ ~hasty' => Len(decodes') = 0
        /\ ~hasty' /\ frame.screen = "Import" /\ ~frame.loading => ~password
    BY <1>1, EndOfDecode
  <1>4. AppTypeOK'
    <2>1. FlagsOK /\ DataOK
      BY TypeParts DEF AppInv
    <2>2. FlagsOK'
      BY Zenon, <1>1, <1>2, <1>3, <2>1 DEF FlagsOK, lasting
    <2>3. DataOK'
      BY <1>1, <1>2, <1>3, <2>1 DEF DataOK, display, lasting
    <2> QED
      BY Zenon, <2>2, <2>3 DEF AppTypeOK, FlagsOK, DataOK
  <1>5. InfoOfSelection' /\ ScreenShowsBook' /\ OneDecode'
    BY <1>1, <1>2, <1>3 DEF AppInv, InfoOfSelection, ScreenShowsBook, OneDecode
  <1>6. NoSecondOpen'
    BY <1>2, <1>3 DEF NoSecondOpen, display
  <1>7. Asked'
    BY <1>2 DEF AppInv, Asked, lasting
  <1> QED
    BY <1>4, <1>5, <1>6, <1>7 DEF AppInv

-----------------------------------------------------------------------------
LEMMA HomeInv == ASSUME AppInv, Home PROVE AppInv'
  <1> USE DEF Home, coroutines, lasting
  <1>1. stale' \in 0 .. MaxStale /\ frame' = frame
    BY EventCounts DEF AppInv
  <1>2. AppTypeOK'
    <2>1. FlagsOK /\ DataOK
      BY TypeParts DEF AppInv
    <2>2. FlagsOK'
      BY Zenon, <2>1 DEF FlagsOK
    <2>3. DataOK'
      BY <1>1, <2>1 DEF DataOK, HomeScreen, Screens
    <2> QED
      BY Zenon, <2>2, <2>3 DEF AppTypeOK, FlagsOK, DataOK
  <1>3. InfoOfSelection' /\ ScreenShowsBook' /\ OneDecode'
    BY DEF AppInv, InfoOfSelection, ScreenShowsBook, OneDecode, HomeScreen
  <1>4. NoSecondOpen'
    BY <1>1 DEF AppInv, NoSecondOpen
  <1>5. Asked'
    BY DEF AppInv, Asked
  <1> QED
    BY <1>2, <1>3, <1>4, <1>5 DEF AppInv

LEMMA AboutInv == ASSUME AppInv, About PROVE AppInv'
  <1> USE DEF About, coroutines, lasting
  <1>1. stale' \in 0 .. MaxStale /\ frame' = frame
    BY EventCounts DEF AppInv
  <1>2. AppTypeOK'
    <2>1. FlagsOK /\ DataOK
      BY TypeParts DEF AppInv
    <2>2. FlagsOK'
      BY Zenon, <2>1 DEF FlagsOK
    <2>3. DataOK'
      BY <1>1, <2>1 DEF DataOK, Screens
    <2> QED
      BY Zenon, <2>2, <2>3 DEF AppTypeOK, FlagsOK, DataOK
  <1>3. InfoOfSelection' /\ ScreenShowsBook' /\ OneDecode'
    BY DEF AppInv, InfoOfSelection, ScreenShowsBook, OneDecode
  <1>4. NoSecondOpen'
    BY <1>1 DEF AppInv, NoSecondOpen
  <1>5. Asked'
    BY DEF AppInv, Asked
  <1> QED
    BY <1>2, <1>3, <1>4, <1>5 DEF AppInv

LEMMA LockInv == ASSUME AppInv, Lock PROVE AppInv'
  <1>1. stale' \in 0 .. MaxStale /\ frame' = frame
    BY EventCounts DEF AppInv, Lock
  <1>2. /\ screen' = "Import" /\ book' = None
        /\ selectedUri' = None /\ selectedDocumentInfo' = None
        /\ frame.screen = "Reader"
    BY DEF Lock
  <1>3. ~password'
    BY DEF Lock
  <1>4. /\ hasty' = (hasty /\ decodes # <<>>)
        /\ UNCHANGED <<loading, openPickerAfterPermission, entered, coroutines, lasting>>
    BY DEF Lock
  <1>5. AppTypeOK'
    <2>1. FlagsOK /\ DataOK
      BY TypeParts DEF AppInv
    <2>2. hasty' \in BOOLEAN
      BY <1>4
    <2>3. FlagsOK'
      BY Zenon, <2>1, <2>2 DEF FlagsOK, Lock, lasting
    <2>4. DataOK'
      BY <1>1, <1>2, <1>4, <2>1 DEF DataOK, Screens, coroutines, lasting
    <2> QED
      BY Zenon, <2>3, <2>4 DEF AppTypeOK, FlagsOK, DataOK
  <1>6. InfoOfSelection' /\ ScreenShowsBook' /\ OneDecode'
    BY <1>2, <1>4 DEF AppInv, InfoOfSelection, ScreenShowsBook, OneDecode, coroutines
  <1>7. NoSecondOpen'
    BY <1>1, <1>2 DEF NoSecondOpen
  <1>8. Asked'
    BY <1>4 DEF AppInv, Asked, lasting
  <1> QED
    BY <1>5, <1>6, <1>7, <1>8 DEF AppInv

LEMMA RecreateInv == ASSUME AppInv, Recreate PROVE AppInv'
  <1>1. AppTypeOK'
    <2>1. FlagsOK /\ DataOK
      BY TypeParts DEF AppInv
    <2>2. FlagsOK'
      BY Zenon, <2>1 DEF FlagsOK, Recreate, RequestedAfterRecreate
    <2>3. DataOK'
      BY <2>1, AppAssumption DEF DataOK, Recreate, FirstFrame, Screens
    <2> QED
      BY Zenon, <2>2, <2>3 DEF AppTypeOK, FlagsOK, DataOK
  <1>2. InfoOfSelection' /\ ScreenShowsBook' /\ OneDecode'
    BY DEF Recreate, InfoOfSelection, ScreenShowsBook, OneDecode
  <1>3. NoSecondOpen'
    BY DEF Recreate, NoSecondOpen, FirstFrame
  <1>4. Asked'
    BY DEF AppInv, AppTypeOK, Asked, Recreate, RequestedAfterRecreate
  <1> QED
    BY <1>1, <1>2, <1>3, <1>4 DEF AppInv

LEMMA StutterInv == ASSUME AppInv, UNCHANGED app_vars PROVE AppInv'
  <1> USE DEF app_vars, remembered, coroutines, display, lasting
  <1>1. AppTypeOK'
    <2>1. FlagsOK /\ DataOK
      BY TypeParts DEF AppInv
    <2>2. FlagsOK'
      BY Zenon, <2>1 DEF FlagsOK
    <2>3. DataOK'
      BY <2>1 DEF DataOK
    <2> QED
      BY Zenon, <2>2, <2>3 DEF AppTypeOK, FlagsOK, DataOK
  <1>2. InfoOfSelection' /\ ScreenShowsBook' /\ OneDecode'
    BY DEF AppInv, InfoOfSelection, ScreenShowsBook, OneDecode
  <1>3. NoSecondOpen' /\ Asked'
    BY DEF AppInv, NoSecondOpen, Asked
  <1> QED
    BY <1>1, <1>2, <1>3 DEF AppInv

LEMMA AppStepInv == ASSUME AppInv, [AppNext]_app_vars PROVE AppInv'
  <1>1. CASE User
    BY <1>1, SelectInv, PasswordChangedInv, OpenInv, HomeInv, AboutInv, LockInv DEF User
  <1>2. CASE Dialogs
    BY <1>2, PermissionResultInv, OpenDocumentResultInv DEF Dialogs
  <1>3. CASE Effects
    BY <1>3, InitialAccessInv, PickAfterPermissionInv DEF Effects
  <1>4. CASE Coroutines
    BY <1>4, DescribedInv, DecodedInv, DecodeFailsInv DEF Coroutines, DecodeEnds
  <1> QED
    BY <1>1, <1>2, <1>3, <1>4, RecomposeInv, RecreateInv, StutterInv DEF AppNext

LEMMA AppInvariance == AppSpec => []AppInv
  BY AppStartInv, AppStepInv, PTL DEF AppSpec

-----------------------------------------------------------------------------
\* Every variable of the app keeps its type.
THEOREM AppTypeCorrect == AppSpec => []AppTypeOK
  <1>1. AppInv => AppTypeOK
    BY DEF AppInv
  <1> QED
    BY <1>1, AppInvariance, PTL

\* The document card describes the selected document or nothing, in whatever
\* order the answers of repository.describe arrive.
THEOREM CardMatches == AppSpec => []InfoOfSelection
  <1>1. AppInv => InfoOfSelection
    BY DEF AppInv
  <1> QED
    BY <1>1, AppInvariance, PTL

\* The reader has a book and the import screen hides none.
THEOREM ReaderHasBook == AppSpec => []ScreenShowsBook
  <1>1. AppInv => ScreenShowsBook
    BY DEF AppInv
  <1> QED
    BY <1>1, AppInvariance, PTL

\* However many events reach the app between two frames, onOpen starts no
\* second recovery, nor one behind an open book, unless a key was handled there
\* too (onOpen, onPasswordChanged).
THEOREM OneAtATime == AppSpec => []OneDecode
  <1>1. AppInv => OneDecode
    BY DEF AppInv
  <1> QED
    BY <1>1, AppInvariance, PTL

\* However often the activity is composed anew, the user is asked once.
THEOREM AskedOnce == AppSpec => []FlowDoesNotLoop
  <1>1. AppInv => FlowDoesNotLoop
    BY DEF AppInv, AppTypeOK, Asked, FlowDoesNotLoop
  <1> QED
    BY <1>1, AppInvariance, PTL

-----------------------------------------------------------------------------
(* SymbolWire: what arrives within the budget of each codeword is read to  *)
(* its last block, a burst is spread evenly, and what is read is a prefix  *)
(* of what was sent.                                                       *)

\* The bytes an encoder writes.
Cells == [of : {"header", "block", "parity", "zero"}, n : Nat, at : Nat]

-----------------------------------------------------------------------------
(* Concatenation.                                                          *)

\* e[i] is the first i parts, one after the other.
Joins(parts, e) ==
    e = [i \in 0 .. Len(parts) |-> IF i = 0 THEN <<>> ELSE e[i - 1] \o parts[i]]

LEMMA JoinFacts ==
    ASSUME NEW S, NEW parts \in Seq(Seq(S))
    PROVE  \E e : /\ Concat(parts) = e[Len(parts)]
                  /\ \A i \in 0 .. Len(parts) : e[i] \in Seq(S)
                  /\ e[0] = <<>>
                  /\ \A i \in 0 .. (Len(parts) - 1) : e[i + 1] = e[i] \o parts[i + 1]
  <1> DEFINE n == Len(parts)
             D == Seq(S)
             step == [i \in Nat |-> [acc \in D |-> IF i \in 1 .. n THEN acc \o parts[i] ELSE acc]]
  <1>1. n \in Nat /\ \A i \in 1 .. n : parts[i] \in D
    OBVIOUS
  <1>2. <<>> \in D /\ step \in [Nat -> [D -> D]]
    <2>1. ASSUME NEW i \in Nat, NEW acc \in D
          PROVE  (IF i \in 1 .. n THEN acc \o parts[i] ELSE acc) \in D
      BY <1>1, ConcatProperties
    <2>2. <<>> \in D
      OBVIOUS
    <2> HIDE DEF D, n
    <2> QED
      BY <2>1, <2>2
  <1>3. PICK g : CountsOn(g, D, <<>>, step)
    <2> HIDE DEF step, D
    <2> QED
      BY <1>2, RecursionAt
  <1> DEFINE e0 == [i \in 0 .. n |-> g[i]]
  <1>4. \A i \in 0 .. n : e0[i] = IF i = 0 THEN <<>> ELSE e0[i - 1] \o parts[i]
    <2> TAKE i \in 0 .. n
    <2>1. i \in Nat /\ (i # 0 => i \in 1 .. n /\ i - 1 \in 0 .. n /\ i - 1 \in Nat)
      BY <1>1
    <2>2. g[i] = IF i = 0 THEN <<>> ELSE step[i][g[i - 1]]
      <3> HIDE DEF step, D
      <3> QED
        BY <1>3, <2>1 DEF CountsOn
    <2>3. i # 0 => g[i - 1] \in D /\ e0[i - 1] = g[i - 1]
      BY <1>3, <2>1 DEF CountsOn
    <2>4. i # 0 => step[i][g[i - 1]] = g[i - 1] \o parts[i]
      <3> HIDE DEF D, n
      <3> QED
        BY <2>1, <2>3
    <2>5. e0[i] = g[i]
      OBVIOUS
    <2> HIDE DEF step, e0
    <2> QED
      BY <2>2, <2>3, <2>4, <2>5
  <1>5. Joins(parts, e0)
    <2>1. e0 = [i \in 0 .. n |-> e0[i]]
      OBVIOUS
    <2> HIDE DEF e0
    <2>2. e0 = [i \in 0 .. n |-> IF i = 0 THEN <<>> ELSE e0[i - 1] \o parts[i]]
      BY <1>4, <2>1, Zenon
    <2> QED
      BY <2>2 DEF Joins
  <1> HIDE DEF e0
  <1> DEFINE e == CHOOSE e : e = [i \in 0 .. Len(parts) |->
                               IF i = 0 THEN <<>> ELSE e[i - 1] \o parts[i]]
  <1>6. Joins(parts, e) /\ Concat(parts) = e[n]
    <2>1. \E f : f = [i \in 0 .. Len(parts) |-> IF i = 0 THEN <<>> ELSE f[i - 1] \o parts[i]]
      BY <1>5 DEF Joins
    <2>2. e = [i \in 0 .. Len(parts) |-> IF i = 0 THEN <<>> ELSE e[i - 1] \o parts[i]]
      BY <2>1, Zenon
    <2>3. Concat(parts) = e[n]
      BY DEF Concat
    <2> HIDE DEF e
    <2> QED
      BY <2>2, <2>3 DEF Joins
  <1> HIDE DEF e
  <1>7. \A i \in 0 .. n : e[i] = IF i = 0 THEN <<>> ELSE e[i - 1] \o parts[i]
    BY <1>6 DEF Joins
  <1>8. \A i \in 0 .. (n - 1) : e[i + 1] = e[i] \o parts[i + 1]
    <2> TAKE i \in 0 .. (n - 1)
    <2>1. i + 1 \in 0 .. n /\ i + 1 # 0 /\ (i + 1) - 1 = i
      BY <1>1
    <2> QED
      BY <1>7, <2>1
  <1>9. e[0] = <<>>
    BY <1>1, <1>7
  <1>10. \A i \in 0 .. n : e[i] \in D
    <2> DEFINE T == {i \in Nat : i <= n => e[i] \in D}
    <2>1. 0 \in T
      BY <1>2, <1>9
    <2>2. ASSUME NEW i \in Nat, i \in T PROVE i + 1 \in T
      <3>1. i + 1 <= n => /\ i \in 0 .. (n - 1) /\ e[i] \in D
                          /\ i + 1 \in 1 .. n /\ e[i + 1] = e[i] \o parts[i + 1]
        <4>1. i + 1 <= n => i \in 0 .. (n - 1) /\ i <= n /\ i + 1 \in 1 .. n
          BY <1>1
        <4> HIDE DEF n, D
        <4> QED
          BY <1>8, <2>2, <4>1
      <3>2. i + 1 <= n => e[i + 1] \in D
        BY <1>1, <3>1, ConcatProperties
      <3> QED
        BY <3>2
    <2>3. \A i \in Nat : i \in T
      <3> HIDE DEF T
      <3> QED
        BY <2>1, <2>2, Induction
    <2> QED
      BY <1>1, <2>3
  <1> QED
    BY <1>6, <1>8, <1>9, <1>10

\* b begins with a.
Begins(a, b) == Len(a) <= Len(b) /\ \A q \in 1 .. Len(a) : b[q] = a[q]

LEMMA BeginsJoin ==
    ASSUME NEW S, NEW a \in Seq(S), NEW b \in Seq(S)
    PROVE  /\ Begins(a, a \o b)
           /\ a \o b \in Seq(S)
           /\ Len(a) \in Nat /\ Len(b) \in Nat /\ Len(a \o b) = Len(a) + Len(b)
           /\ \A q \in 1 .. Len(b) : (a \o b)[Len(a) + q] = b[q]
  <1>1. /\ a \o b \in Seq(S) /\ Len(a \o b) = Len(a) + Len(b)
        /\ Len(a) \in Nat /\ Len(b) \in Nat
        /\ \A q \in 1 .. Len(a) + Len(b) :
              (a \o b)[q] = IF q <= Len(a) THEN a[q] ELSE b[q - Len(a)]
    BY ConcatProperties
  <1>2. ASSUME NEW q \in 1 .. Len(b) PROVE (a \o b)[Len(a) + q] = b[q]
    <2>1. /\ Len(a) + q \in 1 .. Len(a) + Len(b) /\ ~ (Len(a) + q <= Len(a))
          /\ (Len(a) + q) - Len(a) = q
      BY <1>1
    <2> QED
      BY <1>1, <2>1
  <1> QED
    BY <1>1, <1>2 DEF Begins

LEMMA BeginsTransitive ==
    ASSUME NEW S, NEW a \in Seq(S), NEW b \in Seq(S), NEW c \in Seq(S),
           Begins(a, b), Begins(b, c)
    PROVE  Begins(a, c)
  <1>1. Len(a) \in Nat /\ Len(b) \in Nat /\ Len(c) \in Nat
    OBVIOUS
  <1> QED
    BY <1>1 DEF Begins

LEMMA BeginsItself ==
    ASSUME NEW S, NEW a \in Seq(S)
    PROVE  Begins(a, a)
  <1>1. Len(a) \in Nat
    OBVIOUS
  <1> QED
    BY <1>1 DEF Begins

\* The concatenation of the first m parts is the beginning of that of them all,
\* and the next part follows it.
LEMMA ConcatPrefix ==
    ASSUME NEW parts \in Seq(Seq(Cells)), NEW m \in 0 .. (Len(parts) - 1),
           NEW first \in Seq(Seq(Cells)), Len(first) = m, \A i \in 1 .. m : first[i] = parts[i]
    PROVE  /\ Concat(parts) \in Seq(Cells) /\ Concat(first) \in Seq(Cells)
           /\ Len(Concat(first)) + Len(parts[m + 1]) <= Len(Concat(parts))
           /\ \A q \in 1 .. Len(parts[m + 1]) :
                 Concat(parts)[Len(Concat(first)) + q] = parts[m + 1][q]
  <1> DEFINE n == Len(parts)
             D == Seq(Cells)
  <1>1. n \in Nat /\ \A i \in 1 .. n : parts[i] \in D
    OBVIOUS
  <1>2. PICK e : /\ Concat(parts) = e[Len(parts)]
                 /\ \A i \in 0 .. Len(parts) : e[i] \in Seq(Cells)
                 /\ e[0] = <<>>
                 /\ \A i \in 0 .. (Len(parts) - 1) : e[i + 1] = e[i] \o parts[i + 1]
    BY JoinFacts
  <1>3. PICK d : /\ Concat(first) = d[Len(first)]
                 /\ \A i \in 0 .. Len(first) : d[i] \in Seq(Cells)
                 /\ d[0] = <<>>
                 /\ \A i \in 0 .. (Len(first) - 1) : d[i + 1] = d[i] \o first[i + 1]
    BY JoinFacts
  <1>4. d[m] = e[m]
    <2> DEFINE T == {i \in Nat : i <= m => d[i] = e[i]}
    <2>1. 0 \in T
      BY <1>2, <1>3
    <2>2. ASSUME NEW i \in Nat, i \in T PROVE i + 1 \in T
      <3> SUFFICES ASSUME i + 1 <= m PROVE d[i + 1] = e[i + 1]
        OBVIOUS
      <3>1. i \in 0 .. (n - 1) /\ i \in 0 .. (m - 1) /\ i + 1 \in 1 .. m /\ i <= m
        BY <1>1
      <3>2. d[i] = e[i] /\ first[i + 1] = parts[i + 1]
        BY <2>2, <3>1
      <3>3. d[i + 1] = d[i] \o first[i + 1] /\ e[i + 1] = e[i] \o parts[i + 1]
        BY <1>2, <1>3, <3>1
      <3> QED
        BY <3>2, <3>3
    <2>3. \A i \in Nat : i \in T
      <3> HIDE DEF T
      <3> QED
        BY <2>1, <2>2, Induction
    <2> QED
      BY <1>1, <2>3
  <1>5. ASSUME NEW i \in 0 .. (n - 1)
        PROVE  /\ e[i] \in Seq(Cells) /\ e[i + 1] \in Seq(Cells) /\ parts[i + 1] \in Seq(Cells)
               /\ e[i + 1] = e[i] \o parts[i + 1]
               /\ Begins(e[i], e[i + 1])
    <2>1. i \in 0 .. n /\ i + 1 \in 0 .. n /\ i + 1 \in 1 .. n
      BY <1>1
    <2>2. /\ e[i] \in Seq(Cells) /\ e[i + 1] \in Seq(Cells) /\ parts[i + 1] \in Seq(Cells)
          /\ e[i + 1] = e[i] \o parts[i + 1]
      BY <1>1, <1>2, <2>1
    <2>3. Begins(e[i], e[i] \o parts[i + 1])
      BY <2>2, BeginsJoin
    <2> QED
      BY <2>2, <2>3
  <1>6. Begins(e[m + 1], e[n])
    <2> DEFINE T == {i \in Nat : m + 1 + i <= n => Begins(e[m + 1], e[m + 1 + i])}
    <2>0. m + 1 \in 0 .. n /\ e[m + 1] \in Seq(Cells)
      BY <1>1, <1>2
    <2>1. 0 \in T
      <3>1. m + 1 + 0 = m + 1
        BY <1>1
      <3> QED
        BY <2>0, <3>1, BeginsItself
    <2>2. ASSUME NEW i \in Nat, i \in T PROVE i + 1 \in T
      <3> DEFINE j == m + 1 + i
      <3>1. j \in Nat /\ m + 1 + (i + 1) = j + 1
        BY <1>1
      <3>2. SUFFICES ASSUME j + 1 <= n PROVE Begins(e[m + 1], e[j + 1])
        BY <3>1
      <3>3. j \in 0 .. (n - 1) /\ Begins(e[m + 1], e[j])
        BY <1>1, <2>2, <3>1, <3>2
      <3> HIDE DEF j
      <3>4. e[j] \in Seq(Cells) /\ e[j + 1] \in Seq(Cells) /\ Begins(e[j], e[j + 1])
        BY <1>5, <3>3
      <3> QED
        BY <2>0, <3>3, <3>4, BeginsTransitive
    <2>3. \A i \in Nat : i \in T
      <3> HIDE DEF T
      <3> QED
        BY <2>1, <2>2, Induction
    <2>4. n - (m + 1) \in Nat /\ m + 1 + (n - (m + 1)) = n /\ n <= n
      BY <1>1
    <2>5. n - (m + 1) \in T
      <3> HIDE DEF T
      <3> QED
        BY <2>3, <2>4
    <2>6. m + 1 + (n - (m + 1)) <= n => Begins(e[m + 1], e[m + 1 + (n - (m + 1))])
      BY <2>5
    <2> HIDE DEF n, T
    <2> QED
      BY <2>4, <2>6
  <1> DEFINE a == e[m]
             b == parts[m + 1]
             c == e[n]
  <1>7. a \in Seq(Cells) /\ b \in Seq(Cells) /\ c \in Seq(Cells) /\ Begins(a \o b, c)
    <2>1. n \in 0 .. n /\ m \in 0 .. (n - 1)
      BY <1>1
    <2>2. c \in Seq(Cells)
      BY <1>2, <2>1
    <2>3. a \in Seq(Cells) /\ b \in Seq(Cells) /\ e[m + 1] = a \o b
      BY <1>5, <2>1
    <2> QED
      BY <1>6, <2>2, <2>3
  <1>8. Concat(parts) = c /\ Concat(first) = a
    BY <1>2, <1>3, <1>4
  <1> HIDE DEF a, b, c
  <1>9. /\ Len(a) \in Nat /\ Len(b) \in Nat /\ Len(a \o b) = Len(a) + Len(b)
        /\ \A q \in 1 .. Len(b) : (a \o b)[Len(a) + q] = b[q]
    BY <1>7, BeginsJoin
  <1>10. \A q \in 1 .. Len(b) : Len(a) + q \in 1 .. (Len(a) + Len(b))
    BY <1>9
  <1>11. Len(a) + Len(b) <= Len(c) /\ \A q \in 1 .. Len(b) : c[Len(a) + q] = b[q]
    BY <1>7, <1>9, <1>10 DEF Begins
  <1> QED
    BY <1>7, <1>8, <1>11 DEF b

-----------------------------------------------------------------------------
(* The bytes of a symbol.                                                  *)


LEMMA LimitFacts ==
    ASSUME NEW profile \in Profiles
    PROVE  /\ RS_N \in Nat \ {0} /\ HEADER_LEN_V1 \in Nat \ {0}
           /\ BLOCK_HEADER_LEN \in Nat \ {0, 1}
           /\ DataLen[profile] \in Nat /\ DataLen[profile] >= HEADER_LEN_V1
           /\ DataLen[profile] <= RS_N
           /\ parity_len(profile) = RS_N - DataLen[profile] /\ parity_len(profile) \in Nat
  BY WireAssumption DEF parity_len

LEMMA BlockCellsType ==
    ASSUME NEW n \in Nat, NEW size \in Nat
    PROVE  /\ BlockCells(n, size) \in Seq(Cells)
           /\ Len(BlockCells(n, size)) = BLOCK_HEADER_LEN + size
  <1>1. BLOCK_HEADER_LEN + size \in Nat
    BY WireAssumption
  <1>2. \A i \in 1 .. (BLOCK_HEADER_LEN + size) : Cell("block", n, i) \in Cells
    BY <1>1 DEF Cell, Cells
  <1> QED
    BY <1>1, <1>2 DEF BlockCells

\* The blocks of a symbol, one after the other.
Parts(sizes) == [n \in 1 .. Len(sizes) |-> BlockCells(n, sizes[n])]

LEMMA PartsType ==
    ASSUME NEW sizes \in Seq(Nat)
    PROVE  Parts(sizes) \in Seq(Seq(Cells)) /\ Len(Parts(sizes)) = Len(sizes)
  <1>1. Len(sizes) \in Nat /\ \A n \in 1 .. Len(sizes) : n \in Nat /\ sizes[n] \in Nat
    OBVIOUS
  <1>2. \A n \in 1 .. Len(sizes) : BlockCells(n, sizes[n]) \in Seq(Cells)
    BY <1>1, BlockCellsType
  <1> QED
    BY <1>1, <1>2 DEF Parts

LEMMA HeaderType == HeaderCells \in Seq(Cells) /\ Len(HeaderCells) = HEADER_LEN_V1
  <1>1. HEADER_LEN_V1 \in Nat
    BY WireAssumption
  <1>2. \A i \in 1 .. HEADER_LEN_V1 : Cell("header", 0, i) \in Cells
    BY <1>1 DEF Cell, Cells
  <1> QED
    BY <1>1, <1>2 DEF HeaderCells

LEMMA SerializedType ==
    ASSUME NEW sizes \in Seq(Nat)
    PROVE  /\ Concat(Parts(sizes)) \in Seq(Cells)
           /\ Serialized(sizes) \in Seq(Cells)
           /\ Serialized(sizes) = HeaderCells \o Concat(Parts(sizes))
           /\ Len(Serialized(sizes)) = HEADER_LEN_V1 + Len(Concat(Parts(sizes)))
           /\ Begins(HeaderCells, Serialized(sizes))
  <1>1. Concat(Parts(sizes)) \in Seq(Cells)
    <2>1. PICK e : /\ Concat(Parts(sizes)) = e[Len(Parts(sizes))]
                   /\ \A i \in 0 .. Len(Parts(sizes)) : e[i] \in Seq(Cells)
      BY PartsType, JoinFacts
    <2>2. Len(Parts(sizes)) \in 0 .. Len(Parts(sizes))
      BY PartsType
    <2> QED
      BY <2>1, <2>2
  <1>2. Serialized(sizes) = HeaderCells \o Concat(Parts(sizes))
    BY DEF Serialized, Parts
  <1>3. /\ HeaderCells \o Concat(Parts(sizes)) \in Seq(Cells)
        /\ Begins(HeaderCells, HeaderCells \o Concat(Parts(sizes)))
        /\ Len(HeaderCells \o Concat(Parts(sizes))) =
              Len(HeaderCells) + Len(Concat(Parts(sizes)))
    BY <1>1, HeaderType, BeginsJoin
  <1> QED
    BY <1>1, <1>2, <1>3, HeaderType

\* What EncodeError lets through, and how it is padded.
Encodable(sizes, k, profile) ==
    /\ sizes \in Seq(Nat) /\ profile \in Profiles /\ k \in Nat \ {0}
    /\ Len(Serialized(sizes)) <= k * DataLen[profile]

Padded(sizes, k, profile) ==
    Serialized(sizes) \o
        [i \in 1 .. (k * DataLen[profile] - Len(Serialized(sizes))) |-> ZeroCell]

LEMMA PaddedType ==
    ASSUME NEW sizes, NEW k, NEW profile, Encodable(sizes, k, profile)
    PROVE  /\ Padded(sizes, k, profile) \in Seq(Cells)
           /\ Len(Padded(sizes, k, profile)) = k * DataLen[profile]
           /\ k * DataLen[profile] \in Nat
           /\ Begins(Serialized(sizes), Padded(sizes, k, profile))
           /\ Begins(HeaderCells, Padded(sizes, k, profile))
  <1> DEFINE a == Serialized(sizes)
             p == k * DataLen[profile]
             z == [i \in 1 .. (p - Len(a)) |-> ZeroCell]
  <1>1. a \in Seq(Cells) /\ Begins(HeaderCells, a)
    BY SerializedType DEF Encodable
  <1>2. p \in Nat /\ Len(a) <= p
    <2>1. k \in Nat /\ DataLen[profile] \in Nat
      BY LimitFacts DEF Encodable
    <2> QED
      BY <2>1 DEF Encodable
  <1> HIDE DEF a, p
  <1>3. Len(a) \in Nat /\ p - Len(a) \in Nat
    BY <1>1, <1>2
  <1>4. ZeroCell \in Cells
    BY DEF ZeroCell, Cell, Cells
  <1>5. z \in Seq(Cells) /\ Len(z) = p - Len(a)
    BY <1>3, <1>4
  <1> HIDE DEF z
  <1>6. Begins(a, a \o z) /\ a \o z \in Seq(Cells) /\ Len(a \o z) = Len(a) + Len(z)
    BY <1>1, <1>5, BeginsJoin
  <1>7. Begins(HeaderCells, a \o z)
    BY <1>1, <1>6, HeaderType, BeginsTransitive
  <1>8. Padded(sizes, k, profile) = a \o z
    BY DEF Padded, a, z, p
  <1>9. Len(a \o z) = p
    BY <1>2, <1>3, <1>5, <1>6
  <1> QED
    BY <1>2, <1>6, <1>7, <1>8, <1>9 DEF a, p

\* The bytes of codeword j.
Data(sizes, k, profile, j) ==
    SubSeq(Padded(sizes, k, profile), (j - 1) * DataLen[profile] + 1, j * DataLen[profile])

LEMMA CodewordRange ==
    ASSUME NEW len \in Nat, NEW k \in Nat, NEW j \in 1 .. k
    PROVE  /\ (j - 1) * len \in Nat /\ j * len \in Nat
           /\ j * len = (j - 1) * len + len
           /\ j * len <= k * len
  <1>1. j - 1 \in Nat /\ k - j \in Nat /\ j \in Nat
    OBVIOUS
  <1>2. (j - 1) * len \in Nat /\ j * len \in Nat /\ (k - j) * len \in Nat
    BY <1>1
  <1>3. j * len = (j - 1) * len + len /\ k * len = j * len + (k - j) * len
    BY <1>1
  <1> QED
    BY <1>1, <1>2, <1>3

LEMMA DataType ==
    ASSUME NEW sizes, NEW k, NEW profile, Encodable(sizes, k, profile), NEW j \in 1 .. k
    PROVE  /\ Data(sizes, k, profile, j) \in Seq(Cells)
           /\ Len(Data(sizes, k, profile, j)) = DataLen[profile]
  <1> DEFINE p == Padded(sizes, k, profile)
             len == DataLen[profile]
             from == (j - 1) * len + 1
             to == j * len
  <1>1. p \in Seq(Cells) /\ Len(p) = k * len /\ len \in Nat /\ k \in Nat
    BY PaddedType, LimitFacts DEF Encodable
  <1> HIDE DEF p, len
  <1>2. /\ (j - 1) * len \in Nat /\ to \in Nat /\ to = (j - 1) * len + len
        /\ to <= k * len
    BY <1>1, CodewordRange
  <1>3. from \in Nat \ {0} /\ to - from + 1 = len /\ to <= Len(p)
    BY <1>1, <1>2
  <1> HIDE DEF from, to
  <1>4. \A i \in from .. to : p[i] \in Cells
    <2> TAKE i \in from .. to
    <2>1. i \in 1 .. Len(p)
      BY <1>1, <1>2, <1>3
    <2> QED
      BY <1>1, <2>1
  <1>5. SubSeq(p, from, to) \in Seq(Cells)
    BY <1>4, <1>2, <1>3, SubSeqProperties
  <1>6. Len(SubSeq(p, from, to)) = len
    BY <1>1, <1>2, <1>3, SubSeqProperties
  <1> QED
    BY <1>5, <1>6 DEF Data, p, len, from, to

LEMMA DataCells ==
    ASSUME NEW sizes, NEW k, NEW profile, Encodable(sizes, k, profile), NEW j \in 1 .. k,
           NEW r \in 1 .. DataLen[profile]
    PROVE  Data(sizes, k, profile, j)[r] =
              Padded(sizes, k, profile)[(j - 1) * DataLen[profile] + r]
  <1> DEFINE p == Padded(sizes, k, profile)
             len == DataLen[profile]
             from == (j - 1) * len + 1
             to == j * len
  <1>1. p \in Seq(Cells) /\ Len(p) = k * len /\ len \in Nat /\ k \in Nat
    BY PaddedType, LimitFacts DEF Encodable
  <1>0. r \in 1 .. len /\ Data(sizes, k, profile, j) = SubSeq(p, from, to)
    BY DEF Data
  <1> HIDE DEF p, len
  <1>2. /\ (j - 1) * len \in Nat /\ to \in Nat /\ to = (j - 1) * len + len
        /\ to <= k * len
    BY <1>1, CodewordRange
  <1>3. /\ from \in Nat \ {0} /\ to - from + 1 = len /\ to <= Len(p)
        /\ from + r - 1 = (j - 1) * len + r
    BY <1>1, <1>2, <1>0
  <1> HIDE DEF from, to
  <1>4. \A i \in from .. to : p[i] \in Cells
    <2> TAKE i \in from .. to
    <2>1. i \in 1 .. Len(p)
      BY <1>1, <1>2, <1>3
    <2> QED
      BY <1>1, <2>1
  <1>5. \A i \in 1 .. to - from + 1 : SubSeq(p, from, to)[i] = p[from + i - 1]
    BY <1>4, <1>2, <1>3, SubSeqProperties
  <1> QED
    BY <1>0, <1>3, <1>5 DEF p, len

\* What the first m codewords carry.
First(sizes, k, profile, m) ==
    SubSeq(Padded(sizes, k, profile), 1, m * DataLen[profile])

LEMMA FirstType ==
    ASSUME NEW sizes, NEW k, NEW profile, Encodable(sizes, k, profile), NEW m \in 0 .. k
    PROVE  /\ First(sizes, k, profile, m) \in Seq(Cells)
           /\ m * DataLen[profile] \in Nat
           /\ m * DataLen[profile] <= k * DataLen[profile]
           /\ Len(First(sizes, k, profile, m)) = m * DataLen[profile]
           /\ \A i \in 1 .. m * DataLen[profile] :
                 First(sizes, k, profile, m)[i] = Padded(sizes, k, profile)[i]
  <1> DEFINE p == Padded(sizes, k, profile)
             len == DataLen[profile]
             to == m * len
  <1>1. p \in Seq(Cells) /\ Len(p) = k * len /\ len \in Nat /\ k \in Nat
    BY PaddedType, LimitFacts DEF Encodable
  <1> HIDE DEF p, len
  <1>2. to \in Nat /\ to <= k * len
    <2>1. CASE m = 0
      <3>1. 0 * len = 0 /\ k * len \in Nat
        BY <1>1
      <3> QED
        BY <2>1, <3>1
    <2>2. CASE m # 0
      <3>1. m \in 1 .. k
        BY <2>2
      <3> QED
        BY <1>1, <3>1, CodewordRange
    <2> QED
      BY <2>1, <2>2
  <1> HIDE DEF to
  <1>3. 1 .. to \subseteq 1 .. Len(p)
    BY <1>1, <1>2
  <1>4. \A i \in 1 .. to : p[i] \in Cells
    BY <1>1, <1>3
  <1>5. /\ SubSeq(p, 1, to) \in Seq(Cells)
        /\ Len(SubSeq(p, 1, to)) = to
        /\ \A i \in 1 .. to : SubSeq(p, 1, to)[i] = p[i]
    <2>1. /\ SubSeq(p, 1, to) \in Seq(Cells)
          /\ Len(SubSeq(p, 1, to)) = IF 1 <= to THEN to - 1 + 1 ELSE 0
          /\ \A i \in 1 .. to - 1 + 1 : SubSeq(p, 1, to)[i] = p[1 + i - 1]
      BY <1>2, <1>4, SubSeqProperties
    <2>2. to - 1 + 1 = to /\ (to = 0 \/ 1 <= to) /\ \A i \in 1 .. to : 1 + i - 1 = i
      BY <1>2
    <2> QED
      BY <1>2, <2>1, <2>2
  <1> QED
    BY <1>2, <1>5 DEF First, p, len, to

LEMMA FirstGrows ==
    ASSUME NEW sizes, NEW k, NEW profile, Encodable(sizes, k, profile), NEW j \in 1 .. k
    PROVE  First(sizes, k, profile, j - 1) \o Data(sizes, k, profile, j)
               = First(sizes, k, profile, j)
  <1> DEFINE a == First(sizes, k, profile, j - 1)
             b == Data(sizes, k, profile, j)
             c == First(sizes, k, profile, j)
             p == Padded(sizes, k, profile)
             len == DataLen[profile]
             before == (j - 1) * len
             upto == j * len
  <1>0. k \in Nat /\ len \in Nat /\ j - 1 \in 0 .. k /\ j \in 0 .. k
    BY LimitFacts DEF Encodable
  <1>1. /\ a \in Seq(Cells) /\ Len(a) = before /\ \A i \in 1 .. before : a[i] = p[i]
        /\ c \in Seq(Cells) /\ Len(c) = upto /\ \A i \in 1 .. upto : c[i] = p[i]
    BY <1>0, FirstType
  <1>2. b \in Seq(Cells) /\ Len(b) = len /\ \A r \in 1 .. len : b[r] = p[before + r]
    BY DataType, DataCells
  <1>3. before \in Nat /\ upto = before + len
    BY <1>0, CodewordRange
  <1> HIDE DEF a, b, c, p, len, before, upto
  <1>4. /\ a \o b \in Seq(Cells) /\ Len(a \o b) = upto
        /\ \A i \in 1 .. before + len :
              (a \o b)[i] = IF i <= before THEN a[i] ELSE b[i - before]
    BY <1>1, <1>2, <1>3, ConcatProperties
  <1>5. ASSUME NEW i \in 1 .. upto PROVE (a \o b)[i] = c[i]
    <2>1. CASE i <= before
      <3>1. i \in 1 .. before
        BY <1>3, <2>1
      <3> QED
        BY <1>1, <1>3, <1>4, <2>1, <3>1
    <2>2. CASE ~ (i <= before)
      <3>1. i - before \in 1 .. len /\ before + (i - before) = i
        BY <1>0, <1>3, <2>2
      <3> QED
        BY <1>1, <1>2, <1>3, <1>4, <2>2, <3>1
    <2> QED
      BY <2>1, <2>2
  <1>6. a \o b = c
    BY <1>1, <1>4, <1>5, SeqEqual
  <1> QED
    BY <1>6 DEF a, b, c

-----------------------------------------------------------------------------
(* The code. Two codewords of one symbol that carry different data differ   *)
(* in more rows than there are rows of parity.                              *)

LEMMA WordFacts ==
    ASSUME NEW sizes, NEW k, NEW profile, Encodable(sizes, k, profile)
    PROVE  /\ Words(sizes, k, profile) =
                 [j \in 1 .. k |-> rs_encode(Data(sizes, k, profile, j), j)]
           /\ Len(Words(sizes, k, profile)) = k
           /\ \A j \in 1 .. k : \A r \in 1 .. RS_N :
                 Words(sizes, k, profile)[j][r] =
                    IF r <= DataLen[profile] THEN Data(sizes, k, profile, j)[r]
                    ELSE IF Range(Data(sizes, k, profile, j)) = {ZeroCell} THEN ZeroCell
                    ELSE Cell("parity", j, r - DataLen[profile])
           /\ \A j \in 1 .. k : Words(sizes, k, profile)[j] \in Seq(Cells)
           /\ \A j \in 1 .. k : Len(Words(sizes, k, profile)[j]) = RS_N
           /\ \A j \in 1 .. k :
                 SubSeq(Words(sizes, k, profile)[j], 1, DataLen[profile])
                    = Data(sizes, k, profile, j)
  <1> DEFINE w == Words(sizes, k, profile)
             len == DataLen[profile]
  <1>1. w = [j \in 1 .. k |-> rs_encode(Data(sizes, k, profile, j), j)]
    BY DEF Words, Data, Padded
  <1>2. k \in Nat /\ len \in Nat /\ len <= RS_N /\ RS_N \in Nat
    BY LimitFacts DEF Encodable
  <1>3. Len(w) = k
    <2> HIDE DEF w
    <2> QED
      BY <1>1, <1>2
  <1>4. ASSUME NEW j \in 1 .. k
        PROVE  /\ \A r \in 1 .. RS_N :
                     w[j][r] = IF r <= len THEN Data(sizes, k, profile, j)[r]
                               ELSE IF Range(Data(sizes, k, profile, j)) = {ZeroCell} THEN ZeroCell
                               ELSE Cell("parity", j, r - len)
               /\ w[j] \in Seq(Cells)
               /\ Len(w[j]) = RS_N
               /\ SubSeq(w[j], 1, len) = Data(sizes, k, profile, j)
    <2> DEFINE a == Data(sizes, k, profile, j)
               pad(r) == IF Range(a) = {ZeroCell} THEN ZeroCell ELSE Cell("parity", j, r)
               b == [r \in 1 .. (RS_N - len) |-> pad(r)]
               c == w[j]
    <2>1. a \in Seq(Cells) /\ Len(a) = len
      BY DataType
    <2>2. w[j] = rs_encode(a, j)
      <3> HIDE DEF w
      <3> QED
        BY <1>1
    <2> HIDE DEF w
    <2>3. c = a \o b
      BY <2>1, <2>2 DEF rs_encode
    <2> HIDE DEF a, c
    <2>4. \A r \in 1 .. (RS_N - len) : pad(r) \in Cells
      BY <1>2 DEF ZeroCell, Cell, Cells
    <2> HIDE DEF pad
    <2>5. b \in Seq(Cells) /\ Len(b) = RS_N - len
      BY <1>2, <2>4
    <2>6. \A r \in 1 .. (RS_N - len) : b[r] = pad(r)
      OBVIOUS
    <2> HIDE DEF b, len
    <2>7. /\ c \in Seq(Cells) /\ Len(c) = RS_N
          /\ \A r \in 1 .. RS_N : c[r] = IF r <= len THEN a[r] ELSE b[r - len]
      <3>1. /\ a \o b \in Seq(Cells) /\ Len(a \o b) = Len(a) + Len(b)
            /\ \A r \in 1 .. (Len(a) + Len(b)) :
                  (a \o b)[r] = IF r <= Len(a) THEN a[r] ELSE b[r - Len(a)]
        BY <2>1, <2>5, ConcatProperties
      <3>2. Len(a) + Len(b) = RS_N
        BY <1>2, <2>1, <2>5
      <3> QED
        BY <2>1, <2>3, <3>1, <3>2
    <2>8. \A r \in 1 .. RS_N : ~ (r <= len) => r - len \in 1 .. (RS_N - len)
      BY <1>2
    <2>9. \A r \in 1 .. RS_N : c[r] = IF r <= len THEN a[r] ELSE pad(r - len)
      BY <2>6, <2>7, <2>8
    <2>10. SubSeq(c, 1, len) = a
      <3>1. 1 .. len \subseteq 1 .. RS_N
        BY <1>2
      <3>2. \A i \in 1 .. len : c[i] \in Cells
        BY <2>7, <3>1
      <3>3. /\ SubSeq(c, 1, len) \in Seq(Cells)
            /\ Len(SubSeq(c, 1, len)) = IF 1 <= len THEN len - 1 + 1 ELSE 0
            /\ \A i \in 1 .. len - 1 + 1 : SubSeq(c, 1, len)[i] = c[1 + i - 1]
        BY <1>2, <3>2, SubSeqProperties
      <3>4. len - 1 + 1 = len /\ (len = 0 \/ 1 <= len) /\ \A i \in 1 .. len : 1 + i - 1 = i
        BY <1>2
      <3>5. Len(SubSeq(c, 1, len)) = len /\ \A i \in 1 .. len : SubSeq(c, 1, len)[i] = c[i]
        BY <1>2, <3>3, <3>4
      <3>6. \A i \in 1 .. len : c[i] = a[i]
        <4> TAKE i \in 1 .. len
        <4>1. i \in 1 .. RS_N /\ i <= len
          BY <1>2, <3>1
        <4> QED
          BY <2>9, <4>1
      <3>7. \A i \in 1 .. len : SubSeq(c, 1, len)[i] = a[i]
        BY <3>5, <3>6
      <3> QED
        BY <2>1, <3>3, <3>5, <3>7, SeqEqual
    <2>11. \A r \in 1 .. RS_N : c[r] = IF r <= len THEN a[r]
                                        ELSE IF Range(a) = {ZeroCell} THEN ZeroCell
                                        ELSE Cell("parity", j, r - len)
      BY <2>9 DEF pad
    <2> QED
      BY <2>7, <2>10, <2>11 DEF a, c
  <1> HIDE DEF w, len
  <1>5. w = [j \in 1 .. k |-> rs_encode(Data(sizes, k, profile, j), j)] /\ Len(w) = k
    BY <1>1, <1>3
  <1> QED
    BY <1>4, <1>5 DEF w, len

LEMMA WordRows ==
    ASSUME NEW sizes, NEW k, NEW profile, Encodable(sizes, k, profile), NEW j \in 1 .. k
    PROVE  \A r \in 1 .. RS_N :
              Words(sizes, k, profile)[j][r] =
                 IF r <= DataLen[profile] THEN Data(sizes, k, profile, j)[r]
                 ELSE IF Range(Data(sizes, k, profile, j)) = {ZeroCell} THEN ZeroCell
                 ELSE Cell("parity", j, r - DataLen[profile])
  BY WordFacts

Differ(a, b) == {r \in 1 .. RS_N : a[r] # b[r]}

LEMMA Distance ==
    ASSUME NEW sizes, NEW k, NEW profile, Encodable(sizes, k, profile),
           NEW i \in 1 .. k, NEW j \in 1 .. k,
           Data(sizes, k, profile, i) # Data(sizes, k, profile, j)
    PROVE  Cardinality(Differ(Words(sizes, k, profile)[i], Words(sizes, k, profile)[j]))
               > parity_len(profile)
  <1> DEFINE len == DataLen[profile]
             a == Data(sizes, k, profile, i)
             b == Data(sizes, k, profile, j)
             v == Words(sizes, k, profile)[i]
             w == Words(sizes, k, profile)[j]
             D == Differ(v, w)
  <1>1. /\ len \in Nat /\ len <= RS_N /\ RS_N \in Nat /\ parity_len(profile) = RS_N - len
        /\ i # j
    BY LimitFacts DEF Encodable
  <1>2. a \in Seq(Cells) /\ Len(a) = len /\ b \in Seq(Cells) /\ Len(b) = len
    BY DataType
  <1>3. /\ \A r \in 1 .. RS_N :
              v[r] = IF r <= len THEN a[r]
                     ELSE IF Range(a) = {ZeroCell} THEN ZeroCell ELSE Cell("parity", i, r - len)
        /\ \A r \in 1 .. RS_N :
              w[r] = IF r <= len THEN b[r]
                     ELSE IF Range(b) = {ZeroCell} THEN ZeroCell ELSE Cell("parity", j, r - len)
    <2>1. \A r \in 1 .. RS_N :
              v[r] = IF r <= len THEN a[r]
                     ELSE IF Range(a) = {ZeroCell} THEN ZeroCell ELSE Cell("parity", i, r - len)
      BY WordRows
    <2>2. \A r \in 1 .. RS_N :
              w[r] = IF r <= len THEN b[r]
                     ELSE IF Range(b) = {ZeroCell} THEN ZeroCell ELSE Cell("parity", j, r - len)
      BY WordRows
    <2> QED
      BY <2>1, <2>2, Zenon
  <1>0. a # b
    OBVIOUS
  <1> HIDE DEF a, b, v, w, len
  <1>4. PICK q \in 1 .. len : a[q] # b[q]
    BY <1>0, <1>2, SeqEqual
  <1>5. Range(a) # {ZeroCell} \/ Range(b) # {ZeroCell}
    <2>1. DOMAIN a = 1 .. len /\ DOMAIN b = 1 .. len
      BY <1>1, <1>2
    <2>2. a[q] \in Range(a) /\ b[q] \in Range(b)
      BY <2>1 DEF Range
    <2> QED
      BY <1>4, <2>2
  <1>6. \A r \in 1 .. RS_N : ~ (r <= len) => v[r] # w[r]
    <2> SUFFICES ASSUME NEW r \in 1 .. RS_N, ~ (r <= len) PROVE v[r] # w[r]
      OBVIOUS
    <2>1. Cell("parity", i, r - len) # Cell("parity", j, r - len)
      BY <1>1 DEF Cell
    <2>2. \A n : Cell("parity", n, r - len) # ZeroCell
      BY DEF Cell, ZeroCell
    <2>3. /\ v[r] = IF Range(a) = {ZeroCell} THEN ZeroCell ELSE Cell("parity", i, r - len)
          /\ w[r] = IF Range(b) = {ZeroCell} THEN ZeroCell ELSE Cell("parity", j, r - len)
      BY <1>3
    <2> QED
      BY <1>5, <2>1, <2>2, <2>3
  <1>7. q \in 1 .. RS_N /\ q <= len /\ v[q] # w[q]
    BY <1>1, <1>3, <1>4
  <1> DEFINE P == (len + 1) .. RS_N
  <1>8. P \cup {q} \subseteq D /\ q \notin P
    BY <1>1, <1>6, <1>7 DEF Differ
  <1>9. IsFiniteSet(P) /\ Cardinality(P) = RS_N - len
    <2>1. len + 1 \in Int /\ RS_N \in Int
      BY <1>1
    <2>2. IsFiniteSet(P)
          /\ Cardinality(P) = IF len + 1 > RS_N THEN 0 ELSE RS_N - (len + 1) + 1
      BY <2>1, FS_Interval
    <2>3. (IF len + 1 > RS_N THEN 0 ELSE RS_N - (len + 1) + 1) = RS_N - len
      BY <1>1
    <2> QED
      BY <2>2, <2>3
  <1>10. IsFiniteSet(P \cup {q}) /\ Cardinality(P \cup {q}) = RS_N - len + 1
    BY <1>8, <1>9, FS_AddElement
  <1>11. IsFiniteSet(D)
    <2>1. D \in SUBSET (1 .. RS_N)
      BY DEF Differ
    <2>2. IsFiniteSet(1 .. RS_N)
      BY <1>1, FS_Interval
    <2> QED
      BY <2>1, <2>2, FS_Subset
  <1>12. Cardinality(P \cup {q}) <= Cardinality(D) /\ Cardinality(D) \in Nat
    BY <1>8, <1>11, FS_Subset, FS_CardinalityType
  <1> HIDE DEF P, D
  <1>13. Cardinality(D) > parity_len(profile)
    BY <1>1, <1>10, <1>12
  <1> QED
    BY <1>13 DEF D, v, w

\* So at most one of them, as far as the data goes, is within the budget of
\* what arrived.
LEMMA OneCorrection ==
    ASSUME NEW sizes, NEW k, NEW profile, Encodable(sizes, k, profile),
           NEW i \in 1 .. k, NEW j \in 1 .. k, NEW word, NEW E, IsFiniteSet(E),
           Correctable(word, E, profile, Words(sizes, k, profile)[i]),
           Correctable(word, E, profile, Words(sizes, k, profile)[j])
    PROVE  Data(sizes, k, profile, i) = Data(sizes, k, profile, j)
  <1> DEFINE v == Words(sizes, k, profile)[i]
             w == Words(sizes, k, profile)[j]
             A == {r \in 1 .. RS_N : r \notin E /\ word[r] # v[r]}
             B == {r \in 1 .. RS_N : r \notin E /\ word[r] # w[r]}
             D == Differ(v, w)
             p == parity_len(profile)
  <1>1. RS_N \in Nat /\ p \in Nat
    BY LimitFacts DEF Encodable
  <1>2. IsFiniteSet(1 .. RS_N)
    BY <1>1, FS_Interval
  <1>3. IsFiniteSet(A) /\ IsFiniteSet(B) /\ IsFiniteSet(D)
    <2>1. A \in SUBSET (1 .. RS_N) /\ B \in SUBSET (1 .. RS_N) /\ D \in SUBSET (1 .. RS_N)
      BY DEF Differ
    <2> QED
      BY <1>2, <2>1, FS_Subset
  <1>4. D \subseteq (E \cup A) \cup B
    BY DEF Differ
  <1>5. Cardinality(E) + 2 * Cardinality(A) <= p /\ Cardinality(E) + 2 * Cardinality(B) <= p
    BY DEF Correctable
  <1> HIDE DEF A, B, D, p
  <1>6. /\ Cardinality(E) \in Nat /\ Cardinality(A) \in Nat /\ Cardinality(B) \in Nat
        /\ Cardinality(D) \in Nat
    BY <1>3, FS_CardinalityType
  <1>7. IsFiniteSet(E \cup A) /\ Cardinality(E \cup A) <= Cardinality(E) + Cardinality(A)
    <2>1. Cardinality(E \cap A) \in Nat
      BY <1>3, FS_Intersection, FS_CardinalityType
    <2>2. /\ IsFiniteSet(E \cup A)
          /\ Cardinality(E \cup A) = Cardinality(E) + Cardinality(A) - Cardinality(E \cap A)
      BY <1>3, FS_Union
    <2> QED
      BY <1>6, <2>1, <2>2
  <1>8. /\ IsFiniteSet((E \cup A) \cup B)
        /\ Cardinality((E \cup A) \cup B) <= Cardinality(E \cup A) + Cardinality(B)
    <2>1. Cardinality((E \cup A) \cap B) \in Nat /\ Cardinality(E \cup A) \in Nat
      BY <1>3, <1>7, FS_Intersection, FS_CardinalityType
    <2>2. /\ IsFiniteSet((E \cup A) \cup B)
          /\ Cardinality((E \cup A) \cup B) =
                Cardinality(E \cup A) + Cardinality(B) - Cardinality((E \cup A) \cap B)
      BY <1>3, <1>7, FS_Union
    <2> QED
      BY <1>6, <2>1, <2>2
  <1>9. Cardinality(D) <= Cardinality((E \cup A) \cup B)
    BY <1>4, <1>8, FS_Subset
  <1>10. Cardinality((E \cup A) \cup B) \in Nat /\ Cardinality(E \cup A) \in Nat
    BY <1>7, <1>8, FS_CardinalityType
  <1>11. Cardinality(D) <= p
    BY <1>1, <1>5, <1>6, <1>7, <1>8, <1>9, <1>10
  <1>12. Data(sizes, k, profile, i) # Data(sizes, k, profile, j) => Cardinality(D) > p
    BY Distance DEF D, p
  <1> QED
    BY <1>1, <1>6, <1>11, <1>12

-----------------------------------------------------------------------------
(* Interleaving.                                                           *)

\* Where row r of codeword j is on the wire, counted from 1.
Position(j, r, k) == (r - 1) * k + j

LEMMA PositionFacts ==
    ASSUME NEW k \in Nat \ {0}, NEW j \in 1 .. k, NEW r \in 1 .. RS_N
    PROVE  /\ Position(j, r, k) \in 1 .. (k * RS_N)
           /\ Place(Position(j, r, k) - 1, k) = [word |-> j, row |-> r]
  <1> DEFINE q == r - 1
             s == j - 1
  <1>0. RS_N \in Nat \ {0}
    BY WireAssumption
  <1>1. q \in Nat /\ s \in 0 .. (k - 1) /\ q + 1 = r /\ s + 1 = j /\ q \in 0 .. (RS_N - 1)
    BY <1>0
  <1>2. (q * k + s) \div k = q /\ (q * k + s) % k = s
    BY <1>1, DivisionIsUnique
  <1>3. q * k \in Nat /\ Position(j, r, k) = q * k + j /\ Position(j, r, k) - 1 = q * k + s
    BY <1>1 DEF Position
  <1>4. r * k <= RS_N * k /\ r * k = q * k + k
    <2>1. r \in 1 .. RS_N /\ k \in Nat
      OBVIOUS
    <2> QED
      BY <1>0, <2>1, CodewordRange
  <1>5. RS_N * k = k * RS_N /\ k * RS_N \in Nat
    BY <1>0
  <1>6. Position(j, r, k) \in 1 .. (k * RS_N)
    BY <1>1, <1>3, <1>4, <1>5
  <1> HIDE DEF q, s
  <1>7. Place(Position(j, r, k) - 1, k) = [word |-> s + 1, row |-> q + 1]
    BY <1>2, <1>3 DEF Place
  <1> QED
    BY <1>1, <1>6, <1>7

LEMMA PositionInjective ==
    ASSUME NEW k \in Nat \ {0}, NEW j \in 1 .. k, NEW r \in 1 .. RS_N, NEW t \in 1 .. RS_N,
           Position(j, r, k) = Position(j, t, k)
    PROVE  r = t
  <1>1. [word |-> j, row |-> r] = [word |-> j, row |-> t]
    BY PositionFacts
  <1>2. [word |-> j, row |-> r].row = [word |-> j, row |-> t].row
    BY <1>1, Zenon
  <1> QED
    BY <1>2

\* Rows of a codeword are no more than the positions they are at.
LEMMA RowsCount ==
    ASSUME NEW k \in Nat \ {0}, NEW j \in 1 .. k, NEW R \in SUBSET (1 .. RS_N),
           NEW T, IsFiniteSet(T), \A r \in R : Position(j, r, k) \in T
    PROVE  Cardinality(R) <= Cardinality(T) /\ IsFiniteSet(R)
  <1> DEFINE f == [r \in R |-> Position(j, r, k)]
  <1>1. \A r, t \in R : f[r] = f[t] => r = t
    <2> TAKE r, t \in R
    <2> HAVE f[r] = f[t]
    <2>1. Position(j, r, k) = Position(j, t, k) /\ r \in 1 .. RS_N /\ t \in 1 .. RS_N
      OBVIOUS
    <2> QED
      BY <2>1, PositionInjective
  <1>2. f \in [R -> T] /\ DOMAIN f = R
    OBVIOUS
  <1> HIDE DEF f
  <1>3. f \in Injection(R, T)
    BY <1>1, <1>2 DEF Injection, IsInjective
  <1> QED
    BY <1>3, FS_Injection

-----------------------------------------------------------------------------
(* The channel. What was sent is what Encode made, and every byte that      *)
(* arrives is at its place, or junk.                                        *)

SentK == Len(sent.words)
Original(b) == interleave_column_major(sent.words)[b]

Encoded ==
    \E sizes \in PayloadLists, start \in Starts, k \in Ks, profile \in Profiles :
        /\ EncodeError(sizes, k, profile) = "Ok"
        /\ sent = [sizes |-> sizes, start |-> start, profile |-> profile,
                   words |-> Words(sizes, k, profile)]

Arrived ==
    /\ wire \in Seq(Cells \cup {Junk})
    /\ Len(wire) <= SentK * RS_N
    /\ \A b \in 1 .. Len(wire) : wire[b] = Junk \/ wire[b] = Original(b)

Carried ==
    /\ phase \in {"idle", "sent", "words", "header", "blocks", "done"}
    /\ phase # "idle" => Encoded /\ Arrived
    /\ erased \in Seq(Nat)
    /\ phase \notin {"idle", "done"} => outcome = "Ok"

\* What EncodeError lets through.
LEMMA Accepted ==
    ASSUME NEW sizes \in PayloadLists, NEW start \in Starts, NEW k \in Ks,
           NEW profile \in Profiles, EncodeError(sizes, k, profile) = "Ok"
    PROVE  Encodable(sizes, k, profile) /\ start \in Nat
  <1>1. sizes \in Seq(Nat) /\ k \in Nat /\ start \in Nat /\ DataLen[profile] \in Nat
    BY WireAssumption, LimitFacts
  <1>2. Len(Serialized(sizes)) \in Nat
    BY <1>1, SerializedType
  <1>3. k # 0 /\ ~ (Len(Serialized(sizes)) > k * DataLen[profile])
    BY DEF EncodeError
  <1>4. k * DataLen[profile] \in Nat
    BY <1>1
  <1> QED
    BY <1>1, <1>2, <1>3, <1>4 DEF Encodable

LEMMA EncodedFacts ==
    ASSUME Encoded
    PROVE  /\ Encodable(sent.sizes, SentK, sent.profile)
           /\ sent.words = Words(sent.sizes, SentK, sent.profile)
           /\ sent.start \in Nat
           /\ SentK \in Nat \ {0}
  <1>1. PICK sizes \in PayloadLists, start \in Starts, k \in Ks, profile \in Profiles :
            /\ EncodeError(sizes, k, profile) = "Ok"
            /\ sent = [sizes |-> sizes, start |-> start, profile |-> profile,
                       words |-> Words(sizes, k, profile)]
    BY DEF Encoded
  <1>2. Encodable(sizes, k, profile) /\ start \in Nat
    BY <1>1, Accepted
  <1>3. Len(Words(sizes, k, profile)) = k /\ k \in Nat \ {0}
    BY <1>2, WordFacts DEF Encodable
  <1>4. /\ sent.sizes = sizes /\ sent.start = start /\ sent.profile = profile
        /\ sent.words = Words(sizes, k, profile)
    BY <1>1
  <1> QED
    BY <1>2, <1>3, <1>4 DEF SentK

LEMMA PlaceInRange ==
    ASSUME NEW k \in Nat \ {0}, NEW n \in Nat \ {0}, NEW b \in 1 .. (k * n)
    PROVE  /\ Place(b - 1, k).word \in 1 .. k
           /\ Place(b - 1, k).row \in 1 .. n
  <1> DEFINE i == b - 1
             q == i \div k
             s == i % k
  <1>1. i \in Nat /\ q \in Nat /\ s \in 0 .. (k - 1) /\ i = k * q + s
    OBVIOUS
  <1>2. i < k * n
    BY <1>1
  <1> HIDE DEF q, s
  <1>3. q < n
    <2> SUFFICES ASSUME ~ (q < n) PROVE FALSE
      OBVIOUS
    <2>1. q - n \in Nat /\ q = n + (q - n)
      BY <1>1
    <2>2. k * (q - n) \in Nat /\ k * q = k * n + k * (q - n) /\ k * q \in Nat /\ k * n \in Nat
      BY <1>1, <2>1
    <2> QED
      BY <1>1, <1>2, <2>2
  <1>4. s + 1 \in 1 .. k /\ q + 1 \in 1 .. n
    BY <1>1, <1>3
  <1> QED
    BY <1>4 DEF Place, q, s

LEMMA Interleaved ==
    ASSUME NEW sizes, NEW k, NEW profile, Encodable(sizes, k, profile),
           NEW words, words = Words(sizes, k, profile)
    PROVE  /\ k * RS_N \in Nat
           /\ interleave_column_major(words) =
                 [b \in 1 .. (k * RS_N) |-> words[Place(b - 1, k).word][Place(b - 1, k).row]]
           /\ \A b \in 1 .. (k * RS_N) :
                 words[Place(b - 1, k).word][Place(b - 1, k).row] \in Cells
  <1>1. k \in Nat \ {0} /\ RS_N \in Nat \ {0}
    BY WireAssumption DEF Encodable
  <1>2. Len(words) = k
    BY WordFacts
  <1>3. interleave_column_major(words) =
            [b \in 1 .. (k * RS_N) |-> words[Place(b - 1, k).word][Place(b - 1, k).row]]
    BY <1>2 DEF interleave_column_major
  <1>4. ASSUME NEW b \in 1 .. (k * RS_N)
        PROVE  words[Place(b - 1, k).word][Place(b - 1, k).row] \in Cells
    <2> DEFINE j == Place(b - 1, k).word
               r == Place(b - 1, k).row
               a == words[j]
    <2>1. j \in 1 .. k /\ r \in 1 .. RS_N
      BY <1>1, PlaceInRange
    <2> HIDE DEF j, r
    <2>2. a \in Seq(Cells) /\ Len(a) = RS_N
      BY <2>1, WordFacts
    <2> HIDE DEF a
    <2>3. a[r] \in Cells
      BY <2>1, <2>2
    <2> QED
      BY <2>3 DEF a, j, r
  <1> QED
    BY <1>1, <1>3, <1>4

LEMMA OriginalFacts ==
    ASSUME Encoded, NEW b \in 1 .. (SentK * RS_N)
    PROVE  /\ Original(b) = sent.words[Place(b - 1, SentK).word][Place(b - 1, SentK).row]
           /\ Original(b) # Junk
  <1>1. Encodable(sent.sizes, SentK, sent.profile)
        /\ sent.words = Words(sent.sizes, SentK, sent.profile)
    BY EncodedFacts
  <1> DEFINE k == SentK
             w == sent.words
             o == w[Place(b - 1, k).word][Place(b - 1, k).row]
  <1>2. /\ interleave_column_major(w) =
              [c \in 1 .. (k * RS_N) |-> w[Place(c - 1, k).word][Place(c - 1, k).row]]
        /\ o \in Cells
    BY <1>1, Interleaved
  <1>3. Original(b) = o
    BY <1>2 DEF Original
  <1>4. \A c \in Cells : c # Junk
    BY DEF Cells, Junk, Cell
  <1> QED
    BY <1>2, <1>3, <1>4

LEMMA InitCarried == WireStart => Carried
  <1>1. <<>> \in Seq(Nat)
    OBVIOUS
  <1> QED
    BY <1>1 DEF WireStart, Carried

LEMMA EncodeCarried ==
    ASSUME Carried,
           NEW sizes \in PayloadLists, NEW start \in Starts, NEW k \in Ks, NEW profile \in Profiles,
           Encode(sizes, start, k, profile)
    PROVE  Carried'
  <1>1. erased' = erased
    BY DEF Encode
  <1>2. CASE EncodeError(sizes, k, profile) = "Ok"
    <2>1. /\ phase' = "sent" /\ outcome' = "Ok"
          /\ sent' = [sizes |-> sizes, start |-> start, profile |-> profile,
                      words |-> Words(sizes, k, profile)]
          /\ wire' = interleave_column_major(Words(sizes, k, profile))
      BY <1>2 DEF Encode
    <2>2. Encoded'
      BY <1>2, <2>1 DEF Encoded
    <2> DEFINE w == Words(sizes, k, profile)
               n == k * RS_N
               o == interleave_column_major(w)
    <2>3. Encodable(sizes, k, profile)
      BY <1>2, Accepted
    <2>4. sent'.words = w /\ SentK' = k
      BY <2>1, <2>3, WordFacts DEF SentK
    <2>5. /\ n \in Nat
          /\ o = [b \in 1 .. n |-> w[Place(b - 1, k).word][Place(b - 1, k).row]]
          /\ \A b \in 1 .. n : w[Place(b - 1, k).word][Place(b - 1, k).row] \in Cells
      BY <2>3, Interleaved
    <2> HIDE DEF w, n, o
    <2>6. o \in Seq(Cells \cup {Junk}) /\ Len(o) = n
      BY <2>5
    <2>7. wire' = o /\ \A b : Original(b)' = o[b]
      BY <2>1, <2>4 DEF Original, o, w
    <2>8. Arrived'
      <3>1. SentK' * RS_N = n
        BY <2>4 DEF n
      <3>2. wire' \in Seq(Cells \cup {Junk}) /\ Len(wire') = n /\ n <= n
        BY <2>5, <2>6, <2>7
      <3>3. \A b \in 1 .. Len(wire') : wire'[b] = Original(b)'
        BY <2>7
      <3> QED
        BY <3>1, <3>2, <3>3 DEF Arrived
    <2> QED
      BY <1>1, <2>1, <2>2, <2>8 DEF Carried
  <1>3. CASE EncodeError(sizes, k, profile) # "Ok"
    <2>1. phase = "idle" /\ phase' = phase
      BY <1>3 DEF Encode
    <2> QED
      BY <1>1, <2>1 DEF Carried
  <1> QED
    BY <1>2, <1>3

LEMMA DamageCarried ==
    ASSUME Carried, NEW i \in DOMAIN wire, Damage(i)
    PROVE  Carried'
  <1>1. /\ phase = "sent" /\ phase' = "sent" /\ sent' = sent /\ erased' = erased
        /\ outcome' = outcome /\ wire' = [wire EXCEPT ![i] = Junk]
    BY DEF Damage
  <1>2. /\ Encoded /\ wire \in Seq(Cells \cup {Junk}) /\ Len(wire) <= SentK * RS_N
        /\ \A b \in 1 .. Len(wire) : wire[b] = Junk \/ wire[b] = Original(b)
    BY <1>1 DEF Carried, Arrived
  <1>3. /\ wire' \in Seq(Cells \cup {Junk}) /\ Len(wire') = Len(wire)
        /\ \A b \in 1 .. Len(wire) : wire'[b] = IF b = i THEN Junk ELSE wire[b]
    BY <1>1, <1>2
  <1>4. Encoded' /\ SentK' = SentK /\ \A b : Original(b)' = Original(b)
    BY <1>1, <1>2 DEF Encoded, SentK, Original
  <1>5. Arrived'
    BY <1>2, <1>3, <1>4 DEF Arrived
  <1> QED
    BY <1>1, <1>4, <1>5 DEF Carried

LEMMA BurstCarried ==
    ASSUME Carried, NEW i \in DOMAIN wire, NEW n \in 1 .. MaxBurst, Burst(i, n)
    PROVE  Carried'
  <1> DEFINE hit(b) == b \in i .. (i + n - 1)
  <1>1. /\ phase = "sent" /\ phase' = "sent" /\ sent' = sent /\ erased' = erased
        /\ outcome' = outcome
        /\ wire' = [b \in DOMAIN wire |-> IF hit(b) THEN Junk ELSE wire[b]]
    BY DEF Burst
  <1> HIDE DEF hit
  <1>2. /\ Encoded /\ wire \in Seq(Cells \cup {Junk}) /\ Len(wire) <= SentK * RS_N
        /\ \A b \in 1 .. Len(wire) : wire[b] = Junk \/ wire[b] = Original(b)
    BY <1>1 DEF Carried, Arrived
  <1>3. /\ wire' \in Seq(Cells \cup {Junk}) /\ Len(wire') = Len(wire)
        /\ \A b \in 1 .. Len(wire) : wire'[b] = IF hit(b) THEN Junk ELSE wire[b]
    BY <1>1, <1>2
  <1>4. Encoded' /\ SentK' = SentK /\ \A b : Original(b)' = Original(b)
    BY <1>1, <1>2 DEF Encoded, SentK, Original
  <1>5. Arrived'
    BY <1>2, <1>3, <1>4 DEF Arrived
  <1> QED
    BY <1>1, <1>4, <1>5 DEF Carried

LEMMA TruncateCarried ==
    ASSUME Carried, NEW n \in 0 .. Len(wire), Truncate(n)
    PROVE  Carried'
  <1>1. /\ phase = "sent" /\ phase' = "sent" /\ sent' = sent /\ erased' = erased
        /\ outcome' = outcome /\ wire' = SubSeq(wire, 1, n)
    BY DEF Truncate
  <1>2. /\ Encoded /\ wire \in Seq(Cells \cup {Junk}) /\ Len(wire) <= SentK * RS_N
        /\ \A b \in 1 .. Len(wire) : wire[b] = Junk \/ wire[b] = Original(b)
    BY <1>1 DEF Carried, Arrived
  <1>3. n \in Nat /\ n <= Len(wire) /\ Len(wire) \in Nat
    BY <1>2
  <1>4. /\ wire' \in Seq(Cells \cup {Junk}) /\ Len(wire') = n
        /\ \A b \in 1 .. n : wire'[b] = wire[b]
    BY <1>1, <1>2, <1>3
  <1>5. Encoded' /\ SentK' = SentK /\ \A b : Original(b)' = Original(b)
    BY <1>1, <1>2 DEF Encoded, SentK, Original
  <1>6. SentK * RS_N \in Nat
    BY <1>2, EncodedFacts, WireAssumption
  <1>7. Arrived'
    BY <1>2, <1>3, <1>4, <1>5, <1>6 DEF Arrived
  <1> QED
    BY <1>1, <1>5, <1>7 DEF Carried

LEMMA ReportCarried ==
    ASSUME Carried, NEW p \in 0 .. Len(wire), NEW n \in 1 .. MaxErased, Report(p, n)
    PROVE  Carried'
  <1>1. /\ phase = "sent" /\ phase' = "sent" /\ sent' = sent /\ wire' = wire
        /\ outcome' = outcome
        /\ erased' = [i \in 1 .. n |-> p + i - 1] \o <<p>>
    BY DEF Report
  <1>2. Encoded /\ Arrived
    BY <1>1 DEF Carried
  <1>3. p \in Nat /\ n \in Nat
    BY WireAssumption, <1>2 DEF Arrived
  <1>4. \A i \in 1 .. n : p + i - 1 \in Nat
    BY <1>3
  <1>5. [i \in 1 .. n |-> p + i - 1] \in Seq(Nat) /\ <<p>> \in Seq(Nat)
    BY <1>3, <1>4
  <1>6. erased' \in Seq(Nat)
    BY <1>1, <1>5, ConcatProperties
  <1>7. Encoded' /\ Arrived'
    BY <1>1, <1>2 DEF Encoded, Arrived, SentK, Original
  <1> QED
    BY <1>1, <1>6, <1>7 DEF Carried

\* Reading changes nothing of what was sent and what came.
LEMMA DecodeKeeps ==
    Decode => /\ sent' = sent /\ wire' = wire /\ erased' = erased /\ hits' = hits
              /\ phase \in {"sent", "words", "header", "blocks"}
              /\ phase' \in {"words", "header", "blocks", "done"}
              /\ phase' # "done" => outcome' = outcome
  <1> SUFFICES ASSUME Decode
               PROVE  /\ sent' = sent /\ wire' = wire /\ erased' = erased /\ hits' = hits
                      /\ phase \in {"sent", "words", "header", "blocks"}
                      /\ phase' \in {"words", "header", "blocks", "done"}
                      /\ phase' # "done" => outcome' = outcome
    OBVIOUS
  <1>0. ASSUME NEW e, TryNextProfile(e)
        PROVE  /\ sent' = sent /\ wire' = wire /\ erased' = erased /\ hits' = hits
               /\ phase' \in {"words", "done"}
               /\ phase' # "done" => outcome' = outcome
    BY <1>0 DEF TryNextProfile, received
  <1>1. CASE BeginDecode
    BY <1>1 DEF BeginDecode, Answer, received, reading
  <1>2. CASE DecodeCodeword
    <2>1. PICK r : \/ r.error # "none" /\ TryNextProfile(r.error)
                   \/ /\ phase' = "header" \/ phase' = "words"
                      /\ UNCHANGED <<sent, hits, received, outcome>>
      BY <1>2 DEF DecodeCodeword
    <2>2. phase = "words"
      BY <1>2 DEF DecodeCodeword
    <2> QED
      BY <1>0, <2>1, <2>2 DEF received
  <1>3. CASE ParseHeader
    BY <1>0, <1>3 DEF ParseHeader, received, reading
  <1>4. CASE ParseBlock
    BY <1>4 DEF ParseBlock, received
  <1>5. CASE NoBlocks
    BY <1>5 DEF NoBlocks, received, reading
  <1> QED
    BY <1>1, <1>2, <1>3, <1>4, <1>5 DEF Decode

LEMMA DecodeCarried == Carried /\ Decode => Carried'
  <1> SUFFICES ASSUME Carried, Decode PROVE Carried'
    OBVIOUS
  <1>1. Encoded' /\ Arrived'
    BY DecodeKeeps DEF Carried, Encoded, Arrived, SentK, Original
  <1> QED
    BY <1>1, DecodeKeeps DEF Carried

LEMMA CarriedInvariant == WireSpec => []Carried
  <1>1. Carried /\ [WireNext]_wire_vars => Carried'
    <2> SUFFICES ASSUME Carried, [WireNext]_wire_vars PROVE Carried'
      OBVIOUS
    <2>1. CASE UNCHANGED wire_vars
      <3>1. /\ phase' = phase /\ sent' = sent /\ wire' = wire /\ erased' = erased
            /\ outcome' = outcome
        BY <2>1 DEF wire_vars
      <3> QED
        BY <3>1 DEF Carried, Encoded, Arrived, SentK, Original
    <2>2. CASE WireNext
      BY <2>2, EncodeCarried, DamageCarried, BurstCarried, TruncateCarried, ReportCarried,
         DecodeCarried DEF WireNext, Channel
    <2> QED
      BY <2>1, <2>2
  <1> QED
    BY <1>1, InitCarried, PTL DEF WireSpec

-----------------------------------------------------------------------------
(* What is read is a prefix: an entry that failed is the last.              *)

IsSeq(s) == s \in Seq(Range(s))

ReadEntry(n) ==
    \/ \E cells : /\ entries[n] = Entry(TRUE, cells)
                  /\ Tail(cells) = Tail(BlockCells(n, sent.sizes[n]))
    \/ entries[n] = Entry(FALSE, <<>>) /\ n = Len(entries) /\ phase = "done"

Prefixed ==
    /\ phase \in {"idle", "sent"} => pre_ecc = <<>>
    /\ phase \notin {"blocks", "done"} => entries = <<>>
    /\ IsSeq(entries)
    /\ \A n \in 1 .. Len(entries) : ReadEntry(n)

LEMMA EmptyIsSeq == IsSeq(<<>>) /\ Len(<<>>) = 0
  BY DEF IsSeq

LEMMA AppendIsSeq ==
    ASSUME NEW s, IsSeq(s), NEW e
    PROVE  /\ IsSeq(Append(s, e)) /\ Len(s) \in Nat /\ Len(Append(s, e)) = Len(s) + 1
           /\ \A n \in 1 .. Len(s) : Append(s, e)[n] = s[n]
           /\ Append(s, e)[Len(s) + 1] = e
  <1> DEFINE S == Range(s) \cup {e}
             t == Append(s, e)
  <1>1. s \in Seq(S) /\ e \in S
    <2>1. s \in Seq(Range(s))
      BY DEF IsSeq
    <2>2. Len(s) \in Nat /\ \A n \in 1 .. Len(s) : s[n] \in S
      BY <2>1
    <2>3. s = [n \in 1 .. Len(s) |-> s[n]]
      BY <2>1
    <2> HIDE DEF S
    <2> QED
      BY <2>2, <2>3 DEF S
  <1> HIDE DEF S
  <1>2. /\ t \in Seq(S) /\ Len(t) = Len(s) + 1 /\ Len(s) \in Nat
        /\ \A n \in 1 .. Len(s) : t[n] = s[n]
        /\ t[Len(s) + 1] = e
    BY <1>1, AppendProperties
  <1> HIDE DEF t
  <1>3. t \in Seq(Range(t))
    <2>1. DOMAIN t = 1 .. Len(t) /\ t = [n \in 1 .. Len(t) |-> t[n]] /\ Len(t) \in Nat
      BY <1>2
    <2>2. \A n \in 1 .. Len(t) : t[n] \in Range(t)
      BY <2>1 DEF Range
    <2> QED
      BY <2>1, <2>2
  <1> QED
    BY <1>2, <1>3 DEF IsSeq, t

\* The ways a block may be read.
LEMMA ParsedEntry ==
    ASSUME NEW n, NEW entry \in ParsedBlock(n)
    PROVE  \/ \E cells : /\ entry = Entry(TRUE, cells)
                         /\ Tail(cells) = Tail(BlockCells(n, sent.sizes[n]))
           \/ entry = Entry(FALSE, <<>>)
  BY DEF ParsedBlock

LEMMA PrefixedSteps == Prefixed /\ [WireNext]_wire_vars => Prefixed'
  <1> SUFFICES ASSUME Prefixed, [WireNext]_wire_vars PROVE Prefixed'
    OBVIOUS
  <1>0. ASSUME entries' = entries, sent' = sent,
               phase' = phase \/ phase # "done",
               phase' \in {"idle", "sent"} => pre_ecc' = <<>>,
               phase' \notin {"blocks", "done"} => entries = <<>>
        PROVE  Prefixed'
    BY <1>0 DEF Prefixed, ReadEntry
  <1>00. ASSUME NEW e, TryNextProfile(e), phase \in {"words", "header"} PROVE Prefixed'
    BY <1>0, <1>00 DEF TryNextProfile, Prefixed
  <1>1. ASSUME NEW sizes \in PayloadLists, NEW start \in Starts, NEW k \in Ks,
               NEW profile \in Profiles, Encode(sizes, start, k, profile)
        PROVE  Prefixed'
    <2>1. entries = <<>> /\ entries' = <<>> /\ pre_ecc' = <<>>
      BY <1>1 DEF Encode, Prefixed, reading
    <2> QED
      BY <2>1, EmptyIsSeq DEF Prefixed
  <1>2. CASE Channel
    BY <1>2, <1>0 DEF Channel, Damage, Burst, Truncate, Report, reading, Prefixed
  <1>3. CASE BeginDecode
    BY <1>3, <1>0 DEF BeginDecode, Answer, reading, Prefixed
  <1>4. CASE DecodeCodeword
    BY <1>4, <1>0, <1>00 DEF DecodeCodeword, Prefixed
  <1>5. CASE ParseHeader
    BY <1>5, <1>0, <1>00 DEF ParseHeader, reading, Prefixed
  <1>6. CASE ParseBlock
    <2>0. PICK m : m = Len(entries) + 1
      OBVIOUS
    <2>1. PICK entry \in ParsedBlock(m) :
            /\ entries' = Append(entries, entry)
            /\ phase' = IF Stops(entry.ok) \/ Len(entries') = Len(sent.sizes)
                        THEN "done" ELSE "blocks"
      BY <1>6, <2>0 DEF ParseBlock
    <2>2. phase = "blocks" /\ sent' = sent
      BY <1>6 DEF ParseBlock
    <2>3. /\ IsSeq(entries') /\ Len(entries) \in Nat /\ Len(entries') = m
          /\ \A n \in 1 .. Len(entries) : entries'[n] = entries[n]
          /\ entries'[m] = entry
      BY <2>0, <2>1, AppendIsSeq DEF Prefixed
    <2>4. ASSUME NEW n \in 1 .. Len(entries) PROVE ReadEntry(n)'
      <3>1. \E cells : /\ entries[n] = Entry(TRUE, cells)
                       /\ Tail(cells) = Tail(BlockCells(n, sent.sizes[n]))
        BY <2>2 DEF Prefixed, ReadEntry
      <3> QED
        BY <2>2, <2>3, <3>1 DEF ReadEntry
    <2>5. ReadEntry(m)'
      <3>1. CASE entry = Entry(FALSE, <<>>)
        <4>1. phase' = "done"
          BY <2>1, <3>1 DEF Stops, Entry
        <4> QED
          BY <2>3, <3>1, <4>1 DEF ReadEntry
      <3>2. CASE \E cells : /\ entry = Entry(TRUE, cells)
                            /\ Tail(cells) = Tail(BlockCells(m, sent.sizes[m]))
        BY <2>2, <2>3, <3>2 DEF ReadEntry
      <3> QED
        BY <3>1, <3>2, ParsedEntry
    <2>6. \A n \in 1 .. Len(entries') : ReadEntry(n)'
      <3> TAKE n \in 1 .. Len(entries')
      <3>1. n \in 1 .. Len(entries) \/ n = m
        BY <2>0, <2>3
      <3> QED
        BY <2>4, <2>5, <3>1
    <2> QED
      BY <2>1, <2>2, <2>3, <2>6 DEF Prefixed
  <1>7. CASE NoBlocks
    BY <1>7, <1>0 DEF NoBlocks, reading, Prefixed
  <1>8. CASE UNCHANGED wire_vars
    BY <1>8, <1>0 DEF wire_vars, Prefixed
  <1> QED
    BY <1>1, <1>2, <1>3, <1>4, <1>5, <1>6, <1>7, <1>8 DEF WireNext, Decode

LEMMA PrefixedInvariant == WireSpec => []Prefixed
  <1>1. WireStart => Prefixed
    BY EmptyIsSeq DEF WireStart, Prefixed
  <1> QED
    BY <1>1, PrefixedSteps, PTL DEF WireSpec

\* Whatever arrives, the blocks returned are a run of those that were sent, from
\* the first on, with at most one failure, at the end (decode.rs: the loop over
\* the blocks leaves at the first that cannot be read).
THEOREM ReadsAPrefix == WireSpec => []BlocksArePrefix
  <1>1. Prefixed => BlocksArePrefix
    <2> SUFFICES ASSUME Prefixed, NEW n \in DOMAIN entries
                 PROVE  /\ entries[n].ok =>
                              Tail(entries[n].cells) = Tail(BlockCells(n, sent.sizes[n]))
                        /\ ~entries[n].ok => n = Len(entries)
      BY DEF BlocksArePrefix
    <2>1. n \in 1 .. Len(entries)
      BY DEF Prefixed, IsSeq
    <2>2. ReadEntry(n)
      BY <2>1 DEF Prefixed
    <2> QED
      BY <2>2 DEF ReadEntry, Entry
  <1> QED
    BY <1>1, PrefixedInvariant, PTL

-----------------------------------------------------------------------------
(* A symbol within its budget. What is damaged in a codeword is counted on   *)
(* the wire by the property, and over its rows by the decoder.               *)

Repairable ==
    /\ Whole /\ InRange
    /\ Len(wire) <= MAX_SYMBOL_BYTES
    /\ \A i \in DOMAIN erased : erased[i] < Len(wire)
    /\ \A j \in 1 .. Len(sent.words) :
          Cardinality(Marked(j)) + 2 * Cardinality(Hurt(j) \ Marked(j))
              <= parity_len(sent.profile)

SentData(j) == Data(sent.sizes, SentK, sent.profile, j)
SentFirst(m) == First(sent.sizes, SentK, sent.profile, m)

LEMMA RepairableFacts ==
    ASSUME Encoded, Arrived, erased \in Seq(Nat), Repairable
    PROVE  /\ K = SentK /\ wire # <<>> /\ Len(wire) % RS_N = 0
           /\ Len(wire) = SentK * RS_N
  <1>1. SentK \in Nat \ {0} /\ RS_N \in Nat \ {0}
    BY EncodedFacts, WireAssumption
  <1>2. Len(wire) = SentK * RS_N
    BY DEF Repairable, Whole, SentK
  <1>3. (SentK * RS_N + 0) \div RS_N = SentK /\ (SentK * RS_N + 0) % RS_N = 0
    <2>1. 0 \in 0 .. (RS_N - 1) /\ SentK \in Nat
      BY <1>1
    <2> QED
      BY <1>1, <2>1, DivisionIsUnique
  <1>4. SentK * RS_N + 0 = SentK * RS_N /\ SentK * RS_N # 0
    BY <1>1
  <1>5. Len(<<>>) = 0
    OBVIOUS
  <1>6. K = SentK /\ Len(wire) % RS_N = 0
    BY <1>2, <1>3, <1>4 DEF K
  <1> QED
    BY <1>2, <1>4, <1>5, <1>6

LEMMA Divided ==
    ASSUME NEW q \in Nat, NEW k \in Nat \ {0}
    PROVE  q \div k \in Nat /\ q % k \in 0 .. (k - 1) /\ q = k * (q \div k) + (q % k)
  OBVIOUS

LEMMA WithinBudget ==
    ASSUME Encoded, Arrived, erased \in Seq(Nat), Repairable, NEW j \in 1 .. SentK
    PROVE  /\ IsFiniteSet(ErasedRows(erased, SentK, j))
           /\ Cardinality(ErasedRows(erased, SentK, j)) <= parity_len(sent.profile)
           /\ Cardinality(ErasedRows(erased, SentK, j)) \in Nat
           /\ Correctable(deinterleave_column_major(wire, SentK)[j],
                          ErasedRows(erased, SentK, j), sent.profile, sent.words[j])
  <1> DEFINE k == SentK
             E == ErasedRows(erased, k, j)
             word == deinterleave_column_major(wire, k)[j]
             R == {r \in 1 .. RS_N : r \notin E /\ word[r] # sent.words[j][r]}
             M == Marked(j)
             H == Hurt(j) \ Marked(j)
             p == parity_len(sent.profile)
  <1>1. /\ k \in Nat \ {0} /\ RS_N \in Nat \ {0} /\ Len(wire) = k * RS_N
        /\ Encodable(sent.sizes, k, sent.profile)
    BY EncodedFacts, RepairableFacts, WireAssumption
  <1>2. /\ DOMAIN wire = 1 .. (k * RS_N) /\ k * RS_N \in Nat
    BY <1>1 DEF Arrived
  <1>3. p \in Nat
    BY <1>1, LimitFacts DEF Encodable
  <1>4. IsFiniteSet(DOMAIN wire)
    BY <1>2, FS_Interval
  <1>5. IsFiniteSet(M) /\ IsFiniteSet(H)
    <2>1. M \in SUBSET DOMAIN wire /\ H \in SUBSET DOMAIN wire
      BY DEF Marked, Hurt
    <2> QED
      BY <1>4, <2>1, FS_Subset
  <1>6. Cardinality(M) \in Nat /\ Cardinality(H) \in Nat
    BY <1>5, FS_CardinalityType
  <1>7. Cardinality(M) + 2 * Cardinality(H) <= p
    BY DEF Repairable, SentK
  \* Every byte that was reported is where an erased row is.
  <1>8. \A r \in E : r \in 1 .. RS_N /\ Position(j, r, k) \in M
    <2> SUFFICES ASSUME NEW r \in E PROVE r \in 1 .. RS_N /\ Position(j, r, k) \in M
      OBVIOUS
    <2>1. PICK q \in Range(erased) : (q % k) + 1 = j /\ r = (q \div k) + 1
      BY DEF ErasedRows
    <2>2. PICK e \in DOMAIN erased : erased[e] = q
      BY <2>1 DEF Range
    <2>3. q \in Nat /\ q < k * RS_N
      BY <1>1, <2>2 DEF Repairable
    <2>4. q + 1 \in 1 .. (k * RS_N) /\ (q + 1) - 1 = q
      BY <1>2, <2>3
    <2>5. Place(q, k).word = j /\ Place(q, k).row = r
      BY <2>1 DEF Place
    <2>6. r \in 1 .. RS_N
      BY <1>1, <2>4, <2>5, PlaceInRange
    <2>7. Position(j, r, k) = q + 1
      <3>1. q \div k \in Nat /\ q % k \in 0 .. (k - 1) /\ q = k * (q \div k) + (q % k)
        BY <1>1, <2>3, Divided
      <3> DEFINE a == q \div k
                 b == q % k
      <3>2. a \in Nat /\ b \in Nat /\ q = k * a + b /\ b + 1 = j /\ r = a + 1
        BY <2>1, <3>1
      <3> HIDE DEF a, b
      <3>3. r - 1 = a /\ a * k = k * a /\ a * k \in Nat
        BY <1>1, <3>2
      <3> QED
        BY <3>2, <3>3 DEF Position
    <2>8. q + 1 \in M
      BY <1>2, <2>2, <2>4, <2>5 DEF Marked, SentK
    <2> QED
      BY <2>6, <2>7, <2>8
  <1>9. E \in SUBSET (1 .. RS_N) /\ \A r \in E : Position(j, r, k) \in M
    BY <1>8
  <1> HIDE DEF M
  <1>10. IsFiniteSet(E) /\ Cardinality(E) <= Cardinality(M)
    <2> HIDE DEF E
    <2> QED
      BY <1>1, <1>5, <1>9, RowsCount
  \* And every row that came wrong without being erased, where a byte was hurt.
  <1>11. \A r \in R : Position(j, r, k) \in H
    <2> SUFFICES ASSUME NEW r \in R PROVE Position(j, r, k) \in H
      OBVIOUS
    <2> DEFINE b == Position(j, r, k)
    <2>1. r \in 1 .. RS_N /\ r \notin E /\ word[r] # sent.words[j][r]
      OBVIOUS
    <2>2. b \in 1 .. (k * RS_N) /\ Place(b - 1, k) = [word |-> j, row |-> r]
      BY <1>1, <2>1, PositionFacts
    <2>3. Place(b - 1, k).word = j /\ Place(b - 1, k).row = r
      BY <2>2
    <2>4. word[r] = wire[b]
      BY <2>1 DEF deinterleave_column_major, Position
    <2> HIDE DEF b, word, E
    <2>5. Original(b) = sent.words[j][r]
      BY <2>2, <2>3, OriginalFacts
    <2>6. b \in Hurt(j)
      BY <1>2, <2>1, <2>2, <2>3, <2>4, <2>5 DEF Hurt, Original, SentK
    <2>7. b \notin Marked(j)
      <3> SUFFICES ASSUME b \in Marked(j) PROVE FALSE
        OBVIOUS
      <3>1. PICK e \in DOMAIN erased : erased[e] = b - 1
        BY DEF Marked
      <3>2. b - 1 \in Range(erased)
        BY <3>1 DEF Range
      <3>3. ((b - 1) % k) + 1 = j /\ ((b - 1) \div k) + 1 = r
        BY <2>3 DEF Place
      <3>4. r \in E
        BY <3>2, <3>3 DEF E, ErasedRows
      <3> QED
        BY <2>1, <3>4
    <2> QED
      BY <2>6, <2>7 DEF b
  <1>12. R \in SUBSET (1 .. RS_N)
    OBVIOUS
  <1> HIDE DEF H
  <1>13. IsFiniteSet(R) /\ Cardinality(R) <= Cardinality(H)
    <2> HIDE DEF R
    <2> QED
      BY <1>1, <1>5, <1>11, <1>12, RowsCount
  <1>14. Cardinality(E) \in Nat /\ Cardinality(R) \in Nat
    <2> HIDE DEF E, R
    <2> QED
      BY <1>10, <1>13, FS_CardinalityType
  <1>15. Cardinality(E) + 2 * Cardinality(R) <= p /\ Cardinality(E) <= p
    <2> HIDE DEF E, R, p
    <2> QED
      BY <1>3, <1>6, <1>7, <1>10, <1>13, <1>14
  <1>16. Correctable(word, E, sent.profile, sent.words[j])
    BY <1>15 DEF Correctable
  <1> QED
    BY <1>10, <1>14, <1>15, <1>16

\* Under the profile it was written with, a codeword is then corrected to the
\* bytes that were put into it, and to nothing else.
LEMMA Corrected ==
    ASSUME Encoded, Arrived, erased \in Seq(Nat), Repairable, NEW j \in 1 .. SentK,
           NEW r \in rs_decode(deinterleave_column_major(wire, SentK)[j],
                               ErasedRows(erased, SentK, j), sent.profile)
    PROVE  r = RsResult("none", SentData(j))
  <1> DEFINE profile == sent.profile
             E == ErasedRows(erased, SentK, j)
             word == deinterleave_column_major(wire, SentK)[j]
             len == DataLen[profile]
             found == {w \in CodewordsOf(profile) : Correctable(word, E, profile, w)}
  <1>1. /\ Encodable(sent.sizes, SentK, profile)
        /\ sent.words = Words(sent.sizes, SentK, profile)
    BY EncodedFacts
  <1>2. /\ IsFiniteSet(E) /\ Cardinality(E) <= parity_len(profile) /\ Cardinality(E) \in Nat
        /\ Correctable(word, E, profile, sent.words[j])
    BY WithinBudget
  <1>3. len \in Nat /\ parity_len(profile) \in Nat
    BY <1>1, LimitFacts DEF Encodable
  <1>4. DOMAIN sent.words = 1 .. SentK
    BY <1>1, WordFacts
  <1>5. sent.words[j] \in found
    <2>1. sent.words[j] \in Range(sent.words)
      BY <1>4 DEF Range
    <2> QED
      BY <1>2, <1>3, <2>1 DEF CodewordsOf
  <1>6. ASSUME NEW w \in found PROVE SubSeq(w, 1, len) = SentData(j)
    <2>1. PICK i \in 1 .. SentK : w = sent.words[i]
      BY <1>4 DEF CodewordsOf, Range
    <2>2. Correctable(word, E, profile, sent.words[i])
      BY <2>1
    <2> HIDE DEF E, word
    <2>3. Data(sent.sizes, SentK, profile, i) = Data(sent.sizes, SentK, profile, j)
      BY <1>1, <1>2, <2>2, OneCorrection
    <2>4. SubSeq(sent.words[i], 1, len) = Data(sent.sizes, SentK, profile, i)
      BY <1>1, WordFacts
    <2> QED
      BY <2>1, <2>3, <2>4 DEF SentData
  <1>7. rs_decode(word, E, profile) = {RsResult("none", SubSeq(w, 1, len)) : w \in found}
    <2>1. ~ (Cardinality(E) > parity_len(profile)) /\ found # {}
      BY <1>2, <1>3, <1>5
    <2> QED
      BY <2>1 DEF rs_decode
  <1>8. PICK w \in found : r = RsResult("none", SubSeq(w, 1, len))
    <2> HIDE DEF found
    <2> QED
      BY <1>7
  <1> QED
    BY <1>6, <1>8

\* Of all, block is what follows c; pad begins with h and all.
Follows(h, all, c, block, pad) ==
    /\ h \in Seq(Cells) /\ all \in Seq(Cells) /\ c \in Seq(Cells)
    /\ block \in Seq(Cells) /\ pad \in Seq(Cells)
    /\ Len(c) + Len(block) <= Len(all)
    /\ \A q \in 1 .. Len(block) : all[Len(c) + q] = block[q]
    /\ Begins(h \o all, pad)

FoundAfter(h, c, block, pad) ==
    /\ Len(h) \in Nat /\ Len(c) \in Nat /\ Len(pad) \in Nat
    /\ (Len(h) + Len(c)) + Len(block) <= Len(pad)
    /\ SubSeq(pad, (Len(h) + Len(c)) + 1, (Len(h) + Len(c)) + Len(block)) = block

LEMMA Slice ==
    ASSUME NEW h, NEW all, NEW c, NEW block, NEW pad, Follows(h, all, c, block, pad)
    PROVE  FoundAfter(h, c, block, pad)
  <1> SUFFICES ASSUME h \in Seq(Cells), all \in Seq(Cells), c \in Seq(Cells),
                      block \in Seq(Cells), pad \in Seq(Cells),
                      Len(c) + Len(block) <= Len(all),
                      \A q \in 1 .. Len(block) : all[Len(c) + q] = block[q],
                      Begins(h \o all, pad)
               PROVE  FoundAfter(h, c, block, pad)
    BY DEF Follows
  <1> DEFINE ser == h \o all
             offset == Len(h) + Len(c)
             size == Len(block)
  <1>0. offset = Len(h) + Len(c) /\ size = Len(block)
    OBVIOUS
  <1> HIDE DEF offset, size
  <1>1. /\ Len(h) \in Nat /\ Len(c) \in Nat /\ Len(all) \in Nat /\ Len(block) \in Nat
        /\ Len(pad) \in Nat /\ offset \in Nat /\ size \in Nat
    BY <1>0
  <1>2. /\ Len(ser) = Len(h) + Len(all)
        /\ \A q \in 1 .. Len(all) : ser[Len(h) + q] = all[q]
    BY BeginsJoin
  <1>3. Len(ser) <= Len(pad) /\ \A q \in 1 .. Len(ser) : pad[q] = ser[q]
    BY DEF Begins
  <1> HIDE DEF ser
  <1>4. offset + size <= Len(pad)
    BY <1>0, <1>1, <1>2, <1>3
  <1>5. ASSUME NEW q \in 1 .. size PROVE pad[offset + q] = block[q]
    <2>1. q \in 1 .. Len(block) /\ Len(c) + q \in 1 .. Len(all)
      BY <1>0, <1>1
    <2>2. offset + q = Len(h) + (Len(c) + q)
      BY <1>0, <1>1
    <2>3. offset + q \in 1 .. Len(ser)
      BY <1>1, <1>2, <2>1, <2>2
    <2> QED
      BY <1>2, <1>3, <2>1, <2>2, <2>3
  <1> DEFINE from == offset + 1
             to == offset + size
             t == SubSeq(pad, from, to)
  <1>6. /\ from \in Int /\ to \in Int /\ to - from + 1 = size
        /\ (IF from <= to THEN to - from + 1 ELSE 0) = size
        /\ \A q : q \in from .. to => q \in 1 .. Len(pad)
        /\ \A q : q \in 1 .. size => from + q - 1 = offset + q
    BY <1>1, <1>4
  <1> HIDE DEF from, to
  <1>7. \A i \in from .. to : pad[i] \in Cells
    <2>1. \A i \in 1 .. Len(pad) : pad[i] \in Cells
      OBVIOUS
    <2> QED
      BY <1>6, <2>1
  <1>8. /\ t \in Seq(Cells)
        /\ Len(t) = IF from <= to THEN to - from + 1 ELSE 0
        /\ \A i \in 1 .. to - from + 1 : t[i] = pad[from + i - 1]
    BY <1>6, <1>7, SubSeqProperties
  <1> HIDE DEF t
  <1>9. Len(t) = size /\ \A q \in 1 .. size : t[q] = pad[offset + q]
    BY <1>6, <1>8
  <1>10. \A q \in 1 .. size : t[q] = block[q]
    BY <1>5, <1>9
  <1>11. t = block
    BY <1>0, <1>8, <1>9, <1>10, SeqEqual
  <1> QED
    BY <1>1, <1>4, <1>11 DEF FoundAfter, t, from, to, offset, size

\* Where the block after the first m is in the bytes of a symbol.
FirstParts(sizes, m) == [n \in 1 .. m |-> BlockCells(n, sizes[n])]
BlockOffset(sizes, m) == HEADER_LEN_V1 + Len(Concat(FirstParts(sizes, m)))

Placed(sizes, k, profile, m, size) ==
    /\ BlockOffset(sizes, m) \in Nat /\ size \in Nat /\ size >= BLOCK_HEADER_LEN
    /\ BlockOffset(sizes, m) + size <= Len(Padded(sizes, k, profile))
    /\ Len(Padded(sizes, k, profile)) \in Nat
    /\ SubSeq(Padded(sizes, k, profile), BlockOffset(sizes, m) + 1,
              BlockOffset(sizes, m) + size) = BlockCells(m + 1, sizes[m + 1])

LEMMA BlockPlace ==
    ASSUME NEW sizes, NEW k, NEW profile, Encodable(sizes, k, profile),
           NEW m \in 0 .. (Len(sizes) - 1),
           NEW size, size = BLOCK_HEADER_LEN + sizes[m + 1]
    PROVE  Placed(sizes, k, profile, m, size)
  <1> DEFINE parts == Parts(sizes)
             first == FirstParts(sizes, m)
             block == BlockCells(m + 1, sizes[m + 1])
             all == Concat(parts)
             c == Concat(first)
             pad == Padded(sizes, k, profile)
  <1>1. sizes \in Seq(Nat) /\ k \in Nat \ {0}
    BY DEF Encodable
  <1>2. /\ m \in Nat /\ Len(sizes) \in Nat /\ m + 1 \in 1 .. Len(sizes) /\ m + 1 \in Nat
        /\ sizes[m + 1] \in Nat
    BY <1>1
  <1>3. parts \in Seq(Seq(Cells)) /\ Len(parts) = Len(sizes)
    BY <1>1, PartsType
  <1>4. \A n \in 1 .. Len(sizes) : parts[n] = BlockCells(n, sizes[n])
    BY DEF Parts
  <1>5. /\ block \in Seq(Cells) /\ Len(block) = size
        /\ size \in Nat /\ size >= BLOCK_HEADER_LEN
    <2>1. BLOCK_HEADER_LEN \in Nat
      BY WireAssumption
    <2>2. block \in Seq(Cells) /\ Len(block) = BLOCK_HEADER_LEN + sizes[m + 1]
      BY <1>2, BlockCellsType
    <2> HIDE DEF block
    <2> DEFINE payload == sizes[m + 1]
    <2>3. payload \in Nat /\ size = BLOCK_HEADER_LEN + payload
      BY <1>2
    <2> HIDE DEF payload
    <2>4. size \in Nat /\ size >= BLOCK_HEADER_LEN
      BY <2>1, <2>3
    <2> QED
      BY <2>2, <2>4
  <1>6. \A n \in 1 .. m : n \in 1 .. Len(sizes) /\ first[n] = BlockCells(n, sizes[n])
    BY <1>2 DEF FirstParts
  <1>7. first \in Seq(Seq(Cells)) /\ Len(first) = m /\ \A n \in 1 .. m : first[n] = parts[n]
    <2>1. \A n \in 1 .. m : n \in Nat /\ sizes[n] \in Nat
      BY <1>1, <1>6
    <2>2. \A n \in 1 .. m : BlockCells(n, sizes[n]) \in Seq(Cells)
      BY <2>1, BlockCellsType
    <2>3. first \in Seq(Seq(Cells)) /\ Len(first) = m
      BY <1>2, <2>2 DEF FirstParts
    <2>4. \A n \in 1 .. m : first[n] = parts[n]
      BY <1>4, <1>6
    <2> QED
      BY <2>3, <2>4
  <1>8. parts[m + 1] = block
    BY <1>2, <1>4
  <1>9. /\ all \in Seq(Cells) /\ c \in Seq(Cells)
        /\ Len(c) + Len(block) <= Len(all)
        /\ \A q \in 1 .. Len(block) : all[Len(c) + q] = block[q]
    <2>1. m \in 0 .. (Len(parts) - 1)
      BY <1>3
    <2> HIDE DEF parts, first, block
    <2>2. /\ Concat(parts) \in Seq(Cells) /\ Concat(first) \in Seq(Cells)
          /\ Len(Concat(first)) + Len(parts[m + 1]) <= Len(Concat(parts))
          /\ \A q \in 1 .. Len(parts[m + 1]) :
                 Concat(parts)[Len(Concat(first)) + q] = parts[m + 1][q]
      <3>1. /\ parts \in Seq(Seq(Cells)) /\ first \in Seq(Seq(Cells))
            /\ Len(first) = m /\ \A i \in 1 .. m : first[i] = parts[i]
        BY <1>3, <1>7
      <3> QED
        BY <2>1, <3>1, ConcatPrefix
    <2> QED
      BY <1>8, <2>2
  <1>10. Begins(HeaderCells \o all, pad) /\ pad \in Seq(Cells)
    <2>1. Serialized(sizes) = HeaderCells \o all
      BY <1>1, SerializedType
    <2> QED
      BY <2>1, PaddedType
  <1>11. BlockOffset(sizes, m) = Len(HeaderCells) + Len(c) /\ HeaderCells \in Seq(Cells)
    BY HeaderType DEF BlockOffset
  <1> HIDE DEF parts, first, block, all, c, pad
  <1> DEFINE offset == BlockOffset(sizes, m)
  <1>12. offset = Len(HeaderCells) + Len(c)
    BY <1>11
  <1> HIDE DEF offset
  <1>13. /\ offset \in Nat /\ size \in Nat
         /\ offset + size <= Len(pad) /\ Len(pad) \in Nat
         /\ SubSeq(pad, offset + 1, offset + size) = block
    <2> DEFINE h == HeaderCells
    <2>1. h \in Seq(Cells) /\ offset = Len(h) + Len(c) /\ Begins(h \o all, pad)
      BY <1>10, <1>11, <1>12
    <2>2. size = Len(block)
      BY <1>5
    <2> HIDE DEF h
    <2>3. Follows(h, all, c, block, pad)
      BY <1>5, <1>9, <1>10, <2>1 DEF Follows
    <2>4. FoundAfter(h, c, block, pad)
      BY <2>3, Slice, Zenon
    <2>5. offset \in Nat
      BY <2>1, <2>4 DEF FoundAfter
    <2> QED
      BY <1>5, <2>1, <2>2, <2>4, <2>5 DEF FoundAfter
  <1> QED
    BY <1>5, <1>13 DEF Placed, offset, pad, block

-----------------------------------------------------------------------------
(* The reader. As long as the symbol is within its budget, the profile it   *)
(* was written with is still to be tried or being tried; under it, what has *)
(* been corrected is what was sent, and so are the blocks read from it.     *)

Good(m) == [n \in 1 .. m |-> Entry(TRUE, BlockCells(n, sent.sizes[n]))]

Trusted ==
    /\ attempt \in 1 .. Len(AllProfiles)
    /\ by_codeword = [j \in 1 .. SentK |-> ErasedRows(erased, SentK, j)]
    /\ \A i \in 1 .. (attempt - 1) : AllProfiles[i] # sent.profile
    /\ Trying = sent.profile =>
          \E m \in 0 .. SentK : pre_ecc = SentFirst(m) /\ (m = SentK <=> phase # "words")

Repairing ==
    Repairable =>
        /\ phase \in {"words", "header", "blocks"} => Trusted
        /\ phase = "blocks" =>
              /\ Trying = sent.profile
              /\ \E m \in 0 .. Len(sent.sizes) : entries = Good(m)
        /\ phase = "done" => ReadAll

\* The profile of a symbol is one of those that are tried.
LEMMA ProfileIsTried ==
    ASSUME Encoded
    PROVE  /\ \E i \in 1 .. Len(AllProfiles) : AllProfiles[i] = sent.profile
           /\ Len(AllProfiles) \in Nat
  <1>1. sent.profile \in Range(AllProfiles)
    BY EncodedFacts DEF Encodable, Profiles
  <1>2. DOMAIN AllProfiles = 1 .. Len(AllProfiles) /\ Len(AllProfiles) \in Nat
    BY WireAssumption
  <1> QED
    BY <1>1, <1>2 DEF Range

LEMMA RepairableKept ==
    Decode \/ UNCHANGED wire_vars => (Repairable' <=> Repairable)
  <1> SUFFICES ASSUME Decode \/ UNCHANGED wire_vars PROVE Repairable' <=> Repairable
    OBVIOUS
  <1>1. sent' = sent /\ wire' = wire /\ erased' = erased
    BY DecodeKeeps DEF wire_vars
  <1> QED
    BY <1>1 DEF Repairable, Whole, InRange, Marked, Hurt

LEMMA NothingFirst ==
    ASSUME NEW sizes, NEW k, NEW profile, Encodable(sizes, k, profile)
    PROVE  First(sizes, k, profile, 0) = <<>>
  <1> DEFINE f == First(sizes, k, profile, 0)
  <1>1. 0 \in 0 .. k /\ DataLen[profile] \in Nat
    BY LimitFacts DEF Encodable
  <1>2. f \in Seq(Cells) /\ Len(f) = 0 * DataLen[profile]
    BY <1>1, FirstType
  <1>3. Len(f) = 0
    BY <1>1, <1>2
  <1> HIDE DEF f
  <1>4. f = <<>>
    BY <1>2, <1>3
  <1> QED
    BY <1>4 DEF f

\* A step of the reader under the invariants.
Reader ==
    /\ Carried /\ Prefixed /\ Repairing
    /\ Carried' /\ Prefixed'
    /\ Repairable
    /\ sent' = sent /\ wire' = wire /\ erased' = erased

LEMMA ReaderFacts ==
    ASSUME Reader
    PROVE  /\ phase # "idle" => Encoded /\ Arrived /\ SentK' = SentK
           /\ erased \in Seq(Nat)
           /\ phase \notin {"idle", "done"} => outcome = "Ok"
           /\ \A m : SentFirst(m)' = SentFirst(m) /\ Good(m)' = Good(m)
           /\ Repairable'
  <1>1. Repairable'
    BY DEF Reader, Repairable, Whole, InRange, Marked, Hurt
  <1> QED
    BY <1>1 DEF Reader, Carried, SentK, SentFirst, Good

LEMMA BeginRepairs ==
    ASSUME Reader, BeginDecode
    PROVE  Repairing'
  <1>1. phase = "sent" /\ Encoded /\ Arrived /\ SentK' = SentK /\ pre_ecc = <<>>
    BY ReaderFacts DEF BeginDecode, Reader, Prefixed
  <1>2. /\ K = SentK /\ wire # <<>> /\ Len(wire) % RS_N = 0
        /\ Len(wire) = SentK * RS_N
    BY <1>1, ReaderFacts, RepairableFacts DEF Reader
  <1>3. Len(wire) \in Nat /\ MAX_SYMBOL_BYTES \in Nat /\ Len(wire) <= MAX_SYMBOL_BYTES
    BY <1>1, WireAssumption DEF Arrived, Reader, Repairable
  <1>4. \A i \in DOMAIN erased : erased[i] < Len(wire) /\ erased[i] \in Nat
    BY ReaderFacts DEF Reader, Repairable
  <1>5. /\ by_codeword' = [j \in 1 .. K |-> ErasedRows(erased, K, j)]
        /\ attempt' = 1
        /\ phase' = "words"
        /\ pre_ecc' = pre_ecc
    <2>1. ~ (Len(wire) > MAX_SYMBOL_BYTES)
      BY <1>3
    <2>2. ~ \E i \in DOMAIN erased : erased[i] >= Len(wire)
      BY <1>3, <1>4
    <2> QED
      BY <1>2, <2>1, <2>2 DEF BeginDecode
  <1>6. 1 \in 1 .. Len(AllProfiles)
    BY <1>1, ProfileIsTried
  <1>7. SentFirst(0) = <<>> /\ SentK \in Nat \ {0}
    BY <1>1, EncodedFacts, NothingFirst DEF SentFirst
  <1>8. \E m \in 0 .. SentK' : pre_ecc' = SentFirst(m)' /\ (m = SentK' <=> phase' # "words")
    <2>1. 0 \in 0 .. SentK' /\ 0 # SentK'
      BY <1>1, <1>7
    <2>2. pre_ecc' = SentFirst(0)'
      <3>1. \A m : SentFirst(m)' = SentFirst(m)
        BY ReaderFacts
      <3> QED
        BY <1>1, <1>5, <1>7, <3>1
    <2> QED
      BY <1>5, <2>1, <2>2
  <1>9. Trusted'
    <2>1. by_codeword' = [j \in 1 .. SentK' |-> ErasedRows(erased', SentK', j)]
      BY <1>1, <1>2, <1>5 DEF Reader
    <2>2. \A i \in 1 .. (attempt' - 1) : AllProfiles[i] # sent'.profile
      BY <1>5
    <2> QED
      BY <1>5, <1>6, <1>8, <2>1, <2>2 DEF Trusted
  <1> QED
    BY <1>5, <1>9 DEF Repairing

\* Another profile fails, and it was not the last.
LEMMA FailRepairs ==
    ASSUME Reader, phase \in {"words", "header"}, Trying # sent.profile, NEW e, TryNextProfile(e)
    PROVE  Repairing'
  <1>1. /\ Encoded /\ SentK' = SentK /\ Trusted
    BY ReaderFacts DEF Reader, Repairing
  <1>2. PICK i \in 1 .. Len(AllProfiles) : AllProfiles[i] = sent.profile
    BY <1>1, ProfileIsTried
  <1>3. /\ attempt \in Nat /\ Len(AllProfiles) \in Nat /\ i \in Nat
        /\ i \notin 1 .. (attempt - 1) /\ i # attempt
    BY <1>1, <1>2, ProfileIsTried DEF Trusted, Trying
  <1>4. attempt < Len(AllProfiles)
    BY <1>2, <1>3
  <1>5. /\ phase' = "words" /\ attempt' = attempt + 1 /\ pre_ecc' = <<>>
        /\ by_codeword' = by_codeword
    BY <1>4 DEF TryNextProfile
  <1>6. SentFirst(0) = <<>> /\ SentK \in Nat \ {0}
    BY <1>1, EncodedFacts, NothingFirst DEF SentFirst
  <1>7. \E m \in 0 .. SentK' : pre_ecc' = SentFirst(m)' /\ (m = SentK' <=> phase' # "words")
    <2>1. 0 \in 0 .. SentK' /\ 0 # SentK'
      BY <1>1, <1>6
    <2>2. pre_ecc' = SentFirst(0)'
      <3>1. \A m : SentFirst(m)' = SentFirst(m)
        BY ReaderFacts
      <3> QED
        BY <1>5, <1>6, <3>1
    <2> QED
      BY <1>5, <2>1, <2>2
  <1>8. \A n \in 1 .. (attempt' - 1) : AllProfiles[n] # sent'.profile
    <2> TAKE n \in 1 .. (attempt' - 1)
    <2>1. n = attempt \/ n \in 1 .. (attempt - 1)
      BY <1>3, <1>5
    <2> QED
      BY <1>1, <2>1 DEF Trusted, Trying, Reader
  <1>9. Trusted'
    <2>1. attempt' \in 1 .. Len(AllProfiles)
      BY <1>3, <1>4, <1>5
    <2>2. by_codeword' = [j \in 1 .. SentK' |-> ErasedRows(erased', SentK', j)]
      BY <1>1, <1>5 DEF Trusted, Reader
    <2> QED
      BY <1>7, <1>8, <2>1, <2>2 DEF Trusted
  <1> QED
    BY <1>5, <1>9 DEF Repairing

\* One codeword: under the symbol's own profile it yields the bytes sent in it.
LEMMA WordRepairs ==
    ASSUME Reader, DecodeCodeword
    PROVE  Repairing'
  <1> DEFINE j == (Len(pre_ecc) \div DataLen[Trying]) + 1
             word == deinterleave_column_major(wire, K)[j]
  <1>1. PICK r \in rs_decode(word, by_codeword[j], Trying) :
            \/ r.error # "none" /\ TryNextProfile(r.error)
            \/ /\ r.error = "none"
               /\ pre_ecc' = pre_ecc \o r.data
               /\ phase' = IF j = K THEN "header" ELSE "words"
               /\ UNCHANGED <<sent, hits, received, by_codeword, attempt, entries,
                              first_error, outcome>>
    BY DEF DecodeCodeword
  <1>2. phase = "words"
    BY DEF DecodeCodeword
  <1>3. /\ Encoded /\ Arrived /\ erased \in Seq(Nat) /\ SentK' = SentK /\ Trusted
        /\ sent' = sent /\ erased' = erased /\ \A m : SentFirst(m)' = SentFirst(m)
    BY <1>2, ReaderFacts DEF Reader, Repairing
  <1>4. K = SentK /\ SentK \in Nat \ {0} /\ Encodable(sent.sizes, SentK, sent.profile)
    BY <1>3, RepairableFacts, EncodedFacts DEF Reader
  <1>5. CASE Trying # sent.profile
    <2>1. CASE TryNextProfile(r.error)
      BY <1>2, <1>5, <2>1, FailRepairs
    <2>2. CASE /\ phase' \in {"header", "words"}
               /\ attempt' = attempt /\ by_codeword' = by_codeword
      <3>1. Trying' = Trying
        BY <2>2 DEF Trying
      <3>2. Trusted'
        BY <1>3, <1>5, <2>2, <3>1 DEF Trusted
      <3> QED
        BY <2>2, <3>2 DEF Repairing
    <2> QED
      BY <1>1, <2>1, <2>2
  <1>6. CASE Trying = sent.profile
    <2>1. PICK m \in 0 .. SentK : pre_ecc = SentFirst(m) /\ m # SentK
      BY <1>2, <1>3, <1>6 DEF Trusted
    <2> DEFINE len == DataLen[sent.profile]
    <2>2. len \in Nat \ {0}
      <3>1. sent.profile \in Profiles
        BY <1>4 DEF Encodable
      <3> QED
        BY <3>1, LimitFacts
    <2>3. m \in Nat /\ m + 1 \in 1 .. SentK
      BY <1>4, <2>1
    <2>4. Len(pre_ecc) = m * len /\ m * len \in Nat
      <3>1. Len(First(sent.sizes, SentK, sent.profile, m)) = m * DataLen[sent.profile]
            /\ m * DataLen[sent.profile] \in Nat
        BY <1>4, FirstType
      <3> QED
        BY <2>1, <3>1 DEF SentFirst
    <2>5. j = m + 1
      <3>1. 0 \in 0 .. (len - 1)
        BY <2>2
      <3> HIDE DEF len
      <3>2. (m * len + 0) \div len = m
        BY <2>2, <2>3, <3>1, DivisionIsUnique
      <3>3. m * len + 0 = m * len
        BY <2>4
      <3>4. Len(pre_ecc) \div len = m
        BY <2>4, <3>2, <3>3
      <3> QED
        BY <1>6, <3>4 DEF len
    <2>6. r \in rs_decode(deinterleave_column_major(wire, SentK)[m + 1],
                          ErasedRows(erased, SentK, m + 1), sent.profile)
      <3>1. by_codeword[m + 1] = ErasedRows(erased, SentK, m + 1)
        BY <1>3, <2>3 DEF Trusted
      <3> QED
        BY <1>1, <1>4, <1>6, <2>5, <3>1
    <2>7. r = RsResult("none", SentData(m + 1))
      BY <1>3, <2>3, <2>6, Corrected DEF Reader
    <2>8. r.error = "none" /\ r.data = SentData(m + 1)
      BY <2>7 DEF RsResult
    <2>9. /\ pre_ecc' = SentFirst(m) \o SentData(m + 1)
          /\ phase' = IF m + 1 = SentK THEN "header" ELSE "words"
          /\ attempt' = attempt /\ by_codeword' = by_codeword
      BY <1>1, <1>4, <2>1, <2>5, <2>8
    <2>10. SentFirst(m) \o SentData(m + 1) = SentFirst(m + 1)
      <3>1. (m + 1) - 1 = m
        BY <2>3
      <3>2. First(sent.sizes, SentK, sent.profile, (m + 1) - 1)
                \o Data(sent.sizes, SentK, sent.profile, m + 1)
              = First(sent.sizes, SentK, sent.profile, m + 1)
        BY <1>4, <2>3, FirstGrows
      <3> QED
        BY <3>1, <3>2 DEF SentFirst, SentData
    <2>11. \E n \in 0 .. SentK' : pre_ecc' = SentFirst(n)' /\ (n = SentK' <=> phase' # "words")
      <3>1. m + 1 \in 0 .. SentK'
        BY <1>3, <2>3
      <3>2. PICK n : n = m + 1
        OBVIOUS
      <3>3. pre_ecc' = SentFirst(n)' /\ (n = SentK' <=> phase' # "words") /\ n \in 0 .. SentK'
        BY <1>3, <2>9, <2>10, <3>1, <3>2
      <3> QED
        BY <3>3
    <2>12. Trusted'
      BY <1>3, <2>9, <2>11 DEF Trusted, Trying
    <2> QED
      BY <2>9, <2>12 DEF Repairing
  <1> QED
    BY <1>5, <1>6

\* All of a symbol's bytes begin with its header.
LEMMA SentWhole ==
    ASSUME NEW sizes, NEW k, NEW profile, Encodable(sizes, k, profile)
    PROVE  /\ First(sizes, k, profile, k) = Padded(sizes, k, profile)
           /\ SubSeq(First(sizes, k, profile, k), 1, HEADER_LEN_V1) = HeaderCells
  <1> DEFINE p == Padded(sizes, k, profile)
             f == First(sizes, k, profile, k)
             n == k * DataLen[profile]
  <1>1. /\ p \in Seq(Cells) /\ Len(p) = n /\ n \in Nat /\ Begins(HeaderCells, p)
    BY PaddedType
  <1>2. f \in Seq(Cells) /\ Len(f) = n /\ \A i \in 1 .. n : f[i] = p[i]
    <2>1. k \in 0 .. k
      BY DEF Encodable
    <2> QED
      BY <2>1, FirstType
  <1> HIDE DEF p, f, n
  <1>3. f = p
    BY <1>1, <1>2, SeqEqual
  <1> DEFINE h == HeaderCells
             m == HEADER_LEN_V1
  <1>4. /\ h \in Seq(Cells) /\ Len(h) = m /\ m \in Nat \ {0} /\ m <= Len(p)
        /\ \A i \in 1 .. m : p[i] = h[i]
    BY <1>1, HeaderType, WireAssumption DEF Begins
  <1> HIDE DEF h, m
  <1>5. /\ SubSeq(p, 1, m) \in Seq(Cells)
        /\ Len(SubSeq(p, 1, m)) = m
        /\ \A i \in 1 .. m : SubSeq(p, 1, m)[i] = p[i]
    BY <1>1, <1>4
  <1>6. \A i \in 1 .. m : SubSeq(p, 1, m)[i] = h[i]
    BY <1>4, <1>5
  <1>7. SubSeq(p, 1, m) = h
    BY <1>4, <1>5, <1>6, SeqEqual
  <1> QED
    BY <1>3, <1>7 DEF p, f, h, m

LEMMA HeaderRepairs ==
    ASSUME Reader, ParseHeader
    PROVE  Repairing'
  <1>1. phase = "header"
    BY DEF ParseHeader
  <1>2. /\ Encoded /\ SentK' = SentK /\ Trusted /\ entries = <<>>
        /\ sent' = sent /\ erased' = erased
        /\ \A m : SentFirst(m)' = SentFirst(m) /\ Good(m)' = Good(m)
    BY <1>1, ReaderFacts DEF Reader, Repairing, Prefixed
  <1>3. CASE Trying # sent.profile
    <2>1. \E e : TryNextProfile(e)
      BY <1>3 DEF ParseHeader
    <2> QED
      BY <1>1, <1>3, <2>1, FailRepairs
  <1>4. CASE Trying = sent.profile
    <2>1. pre_ecc = SentFirst(SentK)
      BY <1>1, <1>2, <1>4 DEF Trusted
    <2>2. SubSeq(pre_ecc, 1, HEADER_LEN_V1) = HeaderCells
      BY <1>2, <2>1, EncodedFacts, SentWhole DEF SentFirst
    <2>3. /\ phase' = "blocks" /\ attempt' = attempt /\ by_codeword' = by_codeword
          /\ pre_ecc' = pre_ecc /\ entries' = entries
      <3>1. sent.start + Len(sent.sizes) <= U32_MAX
        BY DEF Reader, Repairable, InRange
      <3>2. sent.start + Len(sent.sizes) \in Nat /\ U32_MAX \in Nat
        <4>1. Len(sent.sizes) \in Nat /\ sent.start \in Nat
          BY <1>2, EncodedFacts DEF Encodable
        <4> QED
          BY <4>1, WireAssumption
      <3>3. ~ (sent.start + Len(sent.sizes) > U32_MAX)
        BY <3>1, <3>2
      <3> QED
        BY <1>4, <2>2, <3>3 DEF ParseHeader, reading
    <2>4. Trying' = sent'.profile
      BY <1>2, <1>4, <2>3 DEF Trying
    <2>5. Trusted'
      BY <1>1, <1>2, <2>3 DEF Trusted, Trying
    <2>6. \E m \in 0 .. Len(sent'.sizes) : entries' = Good(m)'
      <3>1. Good(0) = <<>>
        BY DEF Good
      <3>2. 0 \in 0 .. Len(sent.sizes)
        BY <1>2, EncodedFacts DEF Encodable
      <3>3. PICK m : m = 0
        OBVIOUS
      <3>4. entries' = Good(m)' /\ m \in 0 .. Len(sent'.sizes)
        BY <1>2, <2>3, <3>1, <3>2, <3>3
      <3> QED
        BY <3>4
    <2> QED
      BY <2>3, <2>4, <2>5, <2>6 DEF Repairing
  <1> QED
    BY <1>3, <1>4

\* The next block is found where it was put.
LEMMA NextBlock ==
    ASSUME Encoded, NEW m \in 0 .. (Len(sent.sizes) - 1), entries = Good(m),
           pre_ecc = SentFirst(SentK), NEW n, n = m + 1
    PROVE  ParsedBlock(n) = {Entry(TRUE, BlockCells(n, sent.sizes[n]))}
  <1> DEFINE size == BLOCK_HEADER_LEN + sent.sizes[n]
             cells == SubSeq(pre_ecc, Offset + 1, Offset + size)
             expected == BlockCells(n, sent.sizes[n])
  <1>1. Encodable(sent.sizes, SentK, sent.profile)
    BY EncodedFacts
  <1>2. pre_ecc = Padded(sent.sizes, SentK, sent.profile)
    BY <1>1, SentWhole DEF SentFirst
  <1>3. Offset = BlockOffset(sent.sizes, m)
    <2>1. DOMAIN entries = 1 .. m
      BY DEF Good
    <2>2. \A i \in 1 .. m : entries[i].cells = BlockCells(i, sent.sizes[i])
      BY DEF Good, Entry
    <2>3. [i \in DOMAIN entries |-> entries[i].cells] = FirstParts(sent.sizes, m)
      BY <2>1, <2>2 DEF FirstParts
    <2> QED
      BY <2>3 DEF Offset, BlockOffset
  <1>4. /\ Offset \in Nat /\ size \in Nat /\ size >= BLOCK_HEADER_LEN
        /\ Offset + size <= Len(pre_ecc) /\ Len(pre_ecc) \in Nat
        /\ cells = expected
    <2>1. size = BLOCK_HEADER_LEN + sent.sizes[m + 1]
      OBVIOUS
    <2> HIDE DEF size
    <2>2. Placed(sent.sizes, SentK, sent.profile, m, size)
      BY <1>1, <2>1, BlockPlace, Zenon
    <2> QED
      BY <1>2, <1>3, <2>2 DEF Placed
  <1>5. ~ OutOfRoom(Offset) /\ ~ (Offset + size > Len(pre_ecc))
    <2>1. BLOCK_HEADER_LEN \in Nat
      BY WireAssumption
    <2> HIDE DEF size
    <2> QED
      BY <1>4, <2>1 DEF OutOfRoom
  <1>6. ParsedBlock(n) =
            IF OutOfRoom(Offset) \/ Offset + size > Len(pre_ecc)
               \/ Tail(cells) # Tail(expected)
            THEN {Entry(FALSE, <<>>)}
            ELSE {Entry(TRUE, cells)}
                 \cup (IF Head(cells) = Head(expected) THEN {} ELSE {Entry(FALSE, <<>>)})
    BY DEF ParsedBlock
  <1> HIDE DEF size, cells, expected
  <1>7. ParsedBlock(n) = {Entry(TRUE, expected)}
    BY <1>4, <1>5, <1>6
  <1> QED
    BY <1>7 DEF expected

LEMMA GoodGrows ==
    ASSUME NEW m \in Nat
    PROVE  Append(Good(m), Entry(TRUE, BlockCells(m + 1, sent.sizes[m + 1]))) = Good(m + 1)
  <1> DEFINE e(n) == Entry(TRUE, BlockCells(n, sent.sizes[n]))
             S == {e(n) : n \in 1 .. (m + 1)}
             s == [n \in 1 .. m |-> e(n)]
             t == [n \in 1 .. (m + 1) |-> e(n)]
  <1>2. \A n \in 1 .. (m + 1) : e(n) \in S
    OBVIOUS
  <1>4. s = Good(m) /\ t = Good(m + 1)
    BY DEF Good
  <1> HIDE DEF e, S
  <1>1. \A n \in 1 .. m : e(n) \in S
    <2>1. \A n \in 1 .. m : n \in 1 .. (m + 1)
      OBVIOUS
    <2> QED
      BY <1>2, <2>1
  <1>3. e(m + 1) \in S
    <2>1. m + 1 \in 1 .. (m + 1)
      OBVIOUS
    <2> QED
      BY <1>2, <2>1
  <1>5. s \in Seq(S) /\ Len(s) = m /\ t \in Seq(S) /\ Len(t) = m + 1
    BY <1>1, <1>2
  <1>6. /\ \A n \in 1 .. m : s[n] = e(n)
        /\ \A n \in 1 .. (m + 1) : t[n] = e(n)
    OBVIOUS
  <1> HIDE DEF s, t
  <1> DEFINE x == e(m + 1)
             a == Append(s, x)
  <1>7. x \in S
    BY <1>3
  <1> HIDE DEF x
  <1>8. /\ a \in Seq(S) /\ Len(a) = m + 1
        /\ \A n \in 1 .. m : a[n] = s[n]
        /\ a[m + 1] = x
    BY <1>5, <1>7, AppendProperties
  <1> HIDE DEF a
  <1>9. \A n \in 1 .. (m + 1) : a[n] = t[n]
    <2> TAKE n \in 1 .. (m + 1)
    <2>1. n \in 1 .. m \/ n = m + 1
      OBVIOUS
    <2>2. t[m + 1] = x
      BY <1>6 DEF x
    <2> QED
      BY <1>6, <1>8, <2>1, <2>2
  <1>10. a = t
    BY <1>5, <1>8, <1>9, SeqEqual
  <1> QED
    BY <1>4, <1>10 DEF a, x, e

LEMMA BlockRepairs ==
    ASSUME Reader, ParseBlock
    PROVE  Repairing'
  <1>1. phase = "blocks" /\ Len(entries) < Len(sent.sizes)
    BY DEF ParseBlock
  <1>2. /\ Encoded /\ SentK' = SentK /\ Trusted /\ Trying = sent.profile
        /\ outcome = "Ok" /\ sent' = sent /\ erased' = erased /\ Encoded'
        /\ \A m : SentFirst(m)' = SentFirst(m) /\ Good(m)' = Good(m)
    BY <1>1, ReaderFacts DEF Reader, Repairing, Encoded
  <1>3. PICK m \in 0 .. Len(sent.sizes) : entries = Good(m)
    BY <1>1 DEF Reader, Repairing
  <1>4. PICK n : n = m + 1
    OBVIOUS
  <1>5. Len(sent.sizes) \in Nat /\ m \in Nat /\ Len(entries) = m
    BY <1>2, <1>3, EncodedFacts DEF Encodable, Good
  <1>6. m \in 0 .. (Len(sent.sizes) - 1) /\ n \in 0 .. Len(sent.sizes)
    BY <1>1, <1>4, <1>5
  <1>7. pre_ecc = SentFirst(SentK)
    BY <1>1, <1>2 DEF Trusted
  <1>8. ParsedBlock(n) = {Entry(TRUE, BlockCells(n, sent.sizes[n]))}
    BY <1>2, <1>3, <1>4, <1>6, <1>7, NextBlock
  <1>9. /\ entries' = Append(entries, Entry(TRUE, BlockCells(n, sent.sizes[n])))
        /\ phase' = IF Len(entries') = Len(sent.sizes) THEN "done" ELSE "blocks"
        /\ attempt' = attempt /\ by_codeword' = by_codeword /\ pre_ecc' = pre_ecc
        /\ outcome' = outcome
    <2> DEFINE good == Entry(TRUE, BlockCells(n, sent.sizes[n]))
    <2>1. PICK entry \in ParsedBlock(n) :
             /\ entries' = Append(entries, entry)
             /\ phase' = IF Stops(entry.ok) \/ Len(entries') = Len(sent.sizes)
                         THEN "done" ELSE "blocks"
      <3>1. n = Len(entries) + 1
        BY <1>4, <1>5
      <3> QED
        BY <3>1 DEF ParseBlock
    <2>2. entry = good /\ ~ Stops(good.ok)
      <3>1. entry = good
        BY <1>8
      <3>2. good.ok = TRUE
        BY DEF Entry
      <3> QED
        BY <3>1, <3>2 DEF Stops
    <2>3. UNCHANGED <<by_codeword, attempt, pre_ecc, outcome>>
      BY DEF ParseBlock
    <2> HIDE DEF good
    <2>4. /\ entries' = Append(entries, good)
          /\ phase' = IF Len(entries') = Len(sent.sizes) THEN "done" ELSE "blocks"
      BY <2>1, <2>2
    <2> QED
      BY <2>3, <2>4 DEF good
  <1>10. entries' = Good(n)
    BY <1>3, <1>4, <1>5, <1>9, GoodGrows
  <1>11. Len(entries') = n
    BY <1>4, <1>5, <1>10 DEF Good
  <1>12. Trusted' /\ Trying' = sent'.profile
    BY <1>1, <1>2, <1>9 DEF Trusted, Trying
  <1>13. entries' = Good(n)' /\ n \in 0 .. Len(sent'.sizes)
    BY <1>2, <1>6, <1>10
  <1>14. phase' = "done" => ReadAll'
    <2> SUFFICES ASSUME phase' = "done" PROVE ReadAll'
      OBVIOUS
    <2>1. n = Len(sent.sizes)
      BY <1>9, <1>11
    <2>2. Len(entries') = Len(sent'.sizes) /\ DOMAIN entries' = 1 .. Len(sent.sizes)
      BY <1>2, <1>10, <1>11, <2>1 DEF Good
    <2>3. \A i \in 1 .. Len(sent.sizes) : entries'[i].ok
      BY <1>10, <2>1 DEF Good, Entry
    <2> QED
      BY <1>2, <1>9, <2>2, <2>3 DEF ReadAll, Read
  <1> QED
    BY <1>9, <1>12, <1>13, <1>14 DEF Repairing

LEMMA NoBlocksRepairs ==
    ASSUME Reader, NoBlocks
    PROVE  Repairing'
  <1>1. /\ phase = "blocks" /\ sent.sizes = <<>> /\ phase' = "done" /\ sent' = sent
        /\ entries' = entries /\ outcome' = outcome
    BY DEF NoBlocks, Reader, reading
  <1>2. PICK m \in 0 .. Len(sent.sizes) : entries = Good(m)
    BY <1>1 DEF Reader, Repairing
  <1>3. m = 0 /\ Len(sent.sizes) = 0
    BY <1>1
  <1>4. entries = <<>>
    BY <1>2, <1>3 DEF Good
  <1>5. outcome = "Ok"
    BY <1>1, ReaderFacts
  <1>6. ReadAll'
    BY <1>1, <1>3, <1>4, <1>5 DEF ReadAll, Read
  <1> QED
    BY <1>1, <1>6 DEF Repairing

LEMMA RepairingSteps ==
    Carried /\ Carried' /\ Prefixed /\ Prefixed' /\ Repairing /\ [WireNext]_wire_vars => Repairing'
  <1> SUFFICES ASSUME Carried, Carried', Prefixed, Prefixed', Repairing, [WireNext]_wire_vars
               PROVE  Repairing'
    OBVIOUS
  <1>1. CASE Decode
    <2> SUFFICES ASSUME Repairable' PROVE Repairing'
      BY DEF Repairing
    <2>1. Reader
      BY <1>1, DecodeKeeps, RepairableKept DEF Reader
    <2> QED
      BY <1>1, <2>1, BeginRepairs, WordRepairs, HeaderRepairs, BlockRepairs, NoBlocksRepairs
         DEF Decode
  <1>2. CASE Channel
    <2>1. phase' = "sent"
      BY <1>2 DEF Channel, Damage, Burst, Truncate, Report
    <2> QED
      BY <2>1 DEF Repairing
  <1>3. ASSUME NEW sizes \in PayloadLists, NEW start \in Starts, NEW k \in Ks,
               NEW profile \in Profiles, Encode(sizes, start, k, profile)
        PROVE  Repairing'
    <2>1. phase' \in {"idle", "sent"}
      BY <1>3 DEF Encode
    <2> QED
      BY <2>1 DEF Repairing
  <1>4. CASE UNCHANGED wire_vars
    <2>1. /\ phase' = phase /\ sent' = sent /\ wire' = wire /\ erased' = erased
          /\ by_codeword' = by_codeword /\ attempt' = attempt /\ pre_ecc' = pre_ecc
          /\ entries' = entries /\ outcome' = outcome
      BY <1>4 DEF wire_vars
    <2>2. Repairable' <=> Repairable
      BY <1>4, RepairableKept
    <2>3. SentK' = SentK /\ \A m : SentFirst(m)' = SentFirst(m) /\ Good(m)' = Good(m)
      BY <2>1 DEF SentK, SentFirst, Good
    <2>4. Trusted => Trusted'
      BY <2>1, <2>3 DEF Trusted, Trying
    <2>5. Trying' = Trying /\ (ReadAll' <=> ReadAll)
      BY <2>1 DEF Trying, ReadAll, Read
    <2> QED
      BY <2>1, <2>2, <2>3, <2>4, <2>5 DEF Repairing
  <1> QED
    BY <1>1, <1>2, <1>3, <1>4 DEF WireNext

LEMMA RepairingInvariant == WireSpec => [](Carried /\ Repairing)
  <1>1. WireStart => Repairing
    BY DEF WireStart, Repairing
  <1> QED
    BY <1>1, CarriedInvariant, PrefixedInvariant, RepairingSteps, PTL DEF WireSpec

\* What arrives whole is read to its last block whenever no codeword has lost
\* more than its profile repairs, wherever on the wire, for any interleaving, any
\* profiles tried before the right one, and any contents (ecc.rs, decode.rs).
THEOREM WithinBudgetIsRead == WireSpec => []RepairsItsBudget
  <1>1. Repairing => RepairsItsBudget
    BY DEF Repairing, Repairable, RepairsItsBudget
  <1> QED
    BY <1>1, RepairingInvariant, PTL

-----------------------------------------------------------------------------
(* Bursts. Two bytes of one codeword are at least as far apart on the wire   *)
(* as there are codewords, so a window as long as all the budgets together   *)
(* holds at most one budget of each.                                         *)

LEMMA SameWordApart ==
    ASSUME NEW k \in Nat \ {0}, NEW b \in Nat \ {0}, NEW c \in Nat \ {0}, NEW i \in Nat,
           i <= b, i <= c, (b - 1) % k = (c - 1) % k, (b - i) \div k = (c - i) \div k
    PROVE  b = c
  <1> DEFINE u == (b - 1) \div k
             v == (c - 1) \div k
             w == (b - 1) % k
             q == (b - i) \div k
             s == (b - i) % k
             t == (c - i) % k
  <1>1. b - 1 \in Nat /\ c - 1 \in Nat /\ b - i \in Nat /\ c - i \in Nat
    OBVIOUS
  <1>2. /\ u \in Nat /\ w \in 0 .. (k - 1) /\ b - 1 = k * u + w
        /\ v \in Nat /\ c - 1 = k * v + w
        /\ q \in Nat /\ s \in 0 .. (k - 1) /\ b - i = k * q + s
        /\ t \in 0 .. (k - 1) /\ c - i = k * q + t
    BY <1>1, Divided
  <1> HIDE DEF u, v, w, q, s, t
  <1>3. k * u \in Nat /\ k * v \in Nat /\ k * q \in Nat
    BY <1>2
  <1>4. k * u - k * v = s - t
    BY <1>2, <1>3
  <1>5. \A x, y \in Nat : x < y => k * x + k <= k * y
    <2> TAKE x, y \in Nat
    <2> HAVE x < y
    <2>1. y - (x + 1) \in Nat /\ y = x + 1 + (y - (x + 1))
      OBVIOUS
    <2>2. k * (y - (x + 1)) \in Nat /\ k * y = k * x + k + k * (y - (x + 1))
      BY <2>1
    <2> QED
      BY <2>2
  <1>6. ~ (u < v) /\ ~ (v < u)
    BY <1>2, <1>3, <1>4, <1>5
  <1> QED
    BY <1>2, <1>6

LEMMA BurstWithinBudget ==
    ASSUME Encoded, Arrived, Whole, erased = <<>>,
           NEW i \in DOMAIN wire, NEW B, B = correction_budget(sent.profile),
           \A b \in DOMAIN wire : wire[b] = Junk => b \in i .. (i + SentK * B - 1),
           NEW j \in 1 .. SentK
    PROVE  Cardinality(Marked(j)) + 2 * Cardinality(Hurt(j) \ Marked(j))
               <= parity_len(sent.profile)
  <1> DEFINE k == SentK
             H == Hurt(j)
             f == [b \in H |-> Place(b - i, k).row]
  <1>1. k \in Nat \ {0} /\ RS_N \in Nat /\ parity_len(sent.profile) \in Nat
    BY EncodedFacts, LimitFacts, WireAssumption DEF Encodable, parity_len
  <1>2. B \in Nat /\ 2 * B <= parity_len(sent.profile)
    BY <1>1 DEF correction_budget
  <1>3. DOMAIN wire = 1 .. (k * RS_N) /\ i \in Nat \ {0}
    BY <1>1 DEF Whole, SentK, Arrived
  <1>4. Marked(j) = {} /\ Cardinality({}) = 0
    <2>1. DOMAIN erased = {}
      OBVIOUS
    <2> QED
      BY <2>1, FS_EmptySet DEF Marked
  <1>5. ASSUME NEW b \in H
        PROVE  b \in Nat \ {0} /\ ((b - 1) % k) + 1 = j /\ b - i + 1 \in 1 .. (k * B)
    <2>1. b \in DOMAIN wire /\ Place(b - 1, k).word = j /\ wire[b] # Original(b)
      BY DEF Hurt, SentK, Original
    <2>2. b \in 1 .. (k * RS_N) /\ Len(wire) = k * RS_N
      BY <2>1, <1>3 DEF Whole, SentK
    <2>3. wire[b] = Junk
      BY <2>1, <2>2 DEF Arrived
    <2>4. b \in i .. (i + k * B - 1)
      BY <2>1, <2>3
    <2>5. k * B \in Nat
      BY <1>1, <1>2
    <2>6. ((b - 1) % k) + 1 = j
      BY <2>1 DEF Place
    <2> QED
      BY <1>3, <2>2, <2>4, <2>5, <2>6
  <1>6. ASSUME NEW b \in H PROVE Place(b - i, k).row \in 1 .. B
    <2> DEFINE d == b - i + 1
    <2>1. d \in 1 .. (k * B) /\ d - 1 = b - i
      BY <1>3, <1>5
    <2>2. B # 0
      BY <1>1, <2>1
    <2> HIDE DEF d
    <2>3. Place(d - 1, k).row \in 1 .. B
      BY <1>1, <1>2, <2>1, <2>2, PlaceInRange
    <2> QED
      BY <2>1, <2>3
  <1>7. \A b, c \in H : f[b] = f[c] => b = c
    <2> TAKE b, c \in H
    <2> HAVE f[b] = f[c]
    <2>1. ((b - i) \div k) + 1 = ((c - i) \div k) + 1
      BY DEF Place
    <2>2. /\ b \in Nat \ {0} /\ ((b - 1) % k) + 1 = j /\ b - i + 1 \in 1 .. (k * B)
          /\ c \in Nat \ {0} /\ ((c - 1) % k) + 1 = j /\ c - i + 1 \in 1 .. (k * B)
      BY <1>5
    <2>3. b - i \in Nat /\ c - i \in Nat /\ b - 1 \in Nat /\ c - 1 \in Nat
      BY <1>3, <2>2
    <2>4. \A d \in Nat : d \div k \in Nat /\ d % k \in Nat
      <3> TAKE d \in Nat
      <3>1. d \div k \in Nat /\ d % k \in 0 .. (k - 1)
        BY <1>1, Divided
      <3> QED
        BY <1>1, <3>1
    <2>5. (b - i) \div k = (c - i) \div k /\ (b - 1) % k = (c - 1) % k
      <3>1. \A x, y \in Nat : x + 1 = y + 1 => x = y
        OBVIOUS
      <3>2. /\ (b - i) \div k \in Nat /\ (c - i) \div k \in Nat
            /\ (b - 1) % k \in Nat /\ (c - 1) % k \in Nat
        BY <2>3, <2>4
      <3>3. ((b - 1) % k) + 1 = ((c - 1) % k) + 1
        BY <2>2, Zenon
      <3> QED
        BY <2>1, <3>1, <3>2, <3>3
    <2>6. i <= b /\ i <= c
      BY <1>3, <2>2, <2>3
    <2> QED
      BY <1>1, <1>3, <2>2, <2>5, <2>6, SameWordApart
  <1>8. f \in [H -> 1 .. B]
    BY <1>6
  <1> HIDE DEF f, H
  <1>9. f \in Injection(H, 1 .. B)
    BY <1>7, <1>8 DEF Injection, IsInjective
  <1>10. IsFiniteSet(1 .. B) /\ Cardinality(1 .. B) = B
    BY <1>2, FS_Interval
  <1>11. Cardinality(H) <= B /\ Cardinality(H) \in Nat
    BY <1>9, <1>10, FS_Injection, FS_CardinalityType
  <1>12. Hurt(j) \ Marked(j) = H
    BY <1>4 DEF H
  <1> QED
    BY <1>1, <1>2, <1>4, <1>11, <1>12

\* A run of damaged bytes as long as all the codewords' budgets together is
\* repaired wherever it starts, whatever the number of codewords and the profile:
\* what interleave_column_major is for (ecc.rs).
THEOREM BurstIsRepaired == WireSpec => []BurstsAreRepaired
  <1>1. Carried /\ Repairing => BurstsAreRepaired
    <2> SUFFICES ASSUME Carried, Repairing,
                        phase = "done", Whole, InRange, erased = <<>>,
                        Len(wire) <= MAX_SYMBOL_BYTES,
                        NEW i \in DOMAIN wire,
                        \A b \in DOMAIN wire :
                           wire[b] = Junk =>
                              b \in i .. (i + SentK * correction_budget(sent.profile) - 1)
                 PROVE  ReadAll
      BY DEF BurstsAreRepaired, SentK
    <2>1. Encoded /\ Arrived
      BY DEF Carried
    <2>2. \A j \in 1 .. SentK :
             Cardinality(Marked(j)) + 2 * Cardinality(Hurt(j) \ Marked(j))
                 <= parity_len(sent.profile)
      BY <2>1, BurstWithinBudget
    <2>3. \A n \in DOMAIN erased : erased[n] < Len(wire)
      OBVIOUS
    <2> QED
      BY <2>2, <2>3 DEF Repairing, Repairable, SentK
  <1> QED
    BY <1>1, RepairingInvariant, PTL
=============================================================================

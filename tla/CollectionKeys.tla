--------------------------- MODULE CollectionKeys ---------------------------
(***************************************************************************)
(* The identifiers of ARC capsules (zion-arc/src/kdf.rs): a CollectionKey  *)
(* object may be shared by several threads, each sealing a capsule under   *)
(* it, and keeps the capsule ids it has handed out behind a mutex.  The    *)
(* id is drawn before the mutex is taken.                                  *)
(*                                                                         *)
(* Several objects may stand for one collection: CollectionKey::derive     *)
(* makes a new one each time it is called with the same collection id, in  *)
(* this process or after a restart.                                        *)
(*                                                                         *)
(* The names of the specification carry the prefix Keys so that the module *)
(* can be extended beside another one.                                     *)
(***************************************************************************)
EXTENDS Integers, Sequences

CONSTANTS
    Threads,     \* the threads that seal
    Objects,     \* every CollectionKey object that is ever made
    Ids,         \* 16-byte identifiers
    Zero,        \* the identifier that is all zero
    MaxSeals     \* bound on the capsules sealed, for the model checker

ASSUME KeysAssumption == Zero \in Ids /\ MaxSeals \in Nat

VARIABLES
    collection,  \* object -> its collection id, Zero before it is made
    used,        \* object -> its used_capsule_ids
    seal_pc,     \* thread -> where its seal is
    object,      \* thread -> the key it was given
    drawn,       \* thread -> the id it drew
    sealed       \* history: the capsules sealed, in order

key_vars == <<collection, used, seal_pc, object, drawn, sealed>>

Capsule == [object : Objects, collection : Ids \ {Zero}, id : Ids \ {Zero}]

-----------------------------------------------------------------------------
(* Mutants: what a plausible slip in the code would make of a definition.  *)

IsFreshAlways(t) == TRUE

-----------------------------------------------------------------------------
\* What random_nonzero_id may return: it draws again when it meets zero.
NonzeroIds == Ids \ {Zero}

\* CollectionKey::new draws the collection id; derive is given it.  Both
\* refuse zero, and both start with an empty set of used ids.
MakeKey(o) ==
    /\ collection[o] = Zero
    /\ \E id \in NonzeroIds : collection' = [collection EXCEPT ![o] = id]
    /\ used' = [used EXCEPT ![o] = {}]
    /\ UNCHANGED <<seal_pc, object, drawn, sealed>>

BeginSeal(t, o) ==
    /\ seal_pc[t] = "idle"
    /\ Len(sealed) < MaxSeals
    /\ collection[o] # Zero
    /\ object' = [object EXCEPT ![t] = o]
    /\ seal_pc' = [seal_pc EXCEPT ![t] = "draw"]
    /\ UNCHANGED <<collection, used, drawn, sealed>>

Draw(t) ==
    /\ seal_pc[t] = "draw"
    /\ \E id \in NonzeroIds : drawn' = [drawn EXCEPT ![t] = id]
    /\ seal_pc' = [seal_pc EXCEPT ![t] = "insert"]
    /\ UNCHANGED <<collection, used, object, sealed>>

IsFresh(t) == drawn[t] \notin used[object[t]]
Recorded(t) == used' = [used EXCEPT ![object[t]] = @ \cup {drawn[t]}]

\* The critical section of fresh_capsule_id, and the turn of its loop.
Insert(t) ==
    /\ seal_pc[t] = "insert"
    /\ IF IsFresh(t)
       THEN Recorded(t) /\ seal_pc' = [seal_pc EXCEPT ![t] = "seal"]
       ELSE UNCHANGED used /\ seal_pc' = [seal_pc EXCEPT ![t] = "draw"]
    /\ UNCHANGED <<collection, object, drawn, sealed>>

Seal(t) ==
    /\ seal_pc[t] = "seal"
    /\ Len(sealed) < MaxSeals
    /\ sealed' = Append(sealed, [object |-> object[t],
                                 collection |-> collection[object[t]],
                                 id |-> drawn[t]])
    /\ seal_pc' = [seal_pc EXCEPT ![t] = "idle"]
    /\ UNCHANGED <<collection, used, object, drawn>>

\* The generator fails, or the image cannot be sealed: the call returns an
\* error, and an id it had taken stays taken.
Fail(t) ==
    /\ seal_pc[t] \in {"draw", "seal"}
    /\ seal_pc' = [seal_pc EXCEPT ![t] = "idle"]
    /\ UNCHANGED <<collection, used, object, drawn, sealed>>

KeysStart ==
    /\ collection = [o \in Objects |-> Zero]
    /\ used = [o \in Objects |-> {}]
    /\ seal_pc = [t \in Threads |-> "idle"]
    /\ object \in [Threads -> Objects]
    /\ drawn = [t \in Threads |-> Zero]
    /\ sealed = <<>>

KeysNext ==
    \/ \E o \in Objects : MakeKey(o)
    \/ \E t \in Threads :
          \/ \E o \in Objects : BeginSeal(t, o)
          \/ Draw(t)
          \/ Insert(t)
          \/ Seal(t)
          \/ Fail(t)

KeysSpec == KeysStart /\ [][KeysNext]_key_vars

-----------------------------------------------------------------------------
\* Every variable has its type; no capsule and no collection has the zero id.
KeysTypeOK ==
    /\ collection \in [Objects -> Ids]
    /\ used \in [Objects -> SUBSET (Ids \ {Zero})]
    /\ seal_pc \in [Threads -> {"idle", "draw", "insert", "seal"}]
    /\ object \in [Threads -> Objects]
    /\ drawn \in [Threads -> Ids]
    /\ sealed \in Seq(Capsule)

\* No two capsules sealed under one CollectionKey object have the same id,
\* however the threads that share it interleave and whichever calls fail.
UniquePerKey ==
    \A i, j \in DOMAIN sealed :
        i # j /\ sealed[i].object = sealed[j].object => sealed[i].id # sealed[j].id

\* What the format's specification asks of every seal: an id "already used
\* with the same collection_id" is drawn again.
UniqueInCollection ==
    \A i, j \in DOMAIN sealed :
        i # j /\ sealed[i].collection = sealed[j].collection =>
            sealed[i].id # sealed[j].id
=============================================================================

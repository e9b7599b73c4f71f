------------------------------ MODULE OneOutput ------------------------------
(***************************************************************************)
(* What the commands that write a directory promise of its path: it is     *)
(* free, and then, in one step and for good, it holds one finished output. *)
(***************************************************************************)
CONSTANTS
    None,        \* the path is free
    Finished     \* the outputs nothing is missing from

VARIABLE output

Init == output = None
Next == output = None /\ output' \in Finished
Spec == Init /\ [][Next]_output
=============================================================================

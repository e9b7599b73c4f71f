---------------------------- MODULE FileAssembly ----------------------------
(***************************************************************************)
(* What a reassembler promises its caller: it settles on one file, learns  *)
(* blocks of that file and forgets none, and answers once, with the bytes  *)
(* those blocks spell or with the fact that some are unknown.              *)
(***************************************************************************)
EXTENDS Integers, Sequences

CONSTANTS BlockSize, None

VARIABLES
    file,     \* the description of the file, or None
    known,    \* block index -> the bytes of that block
    answer    \* None until the one answer is given

Indices == 0 .. (file.total_blocks - 1)

Init == file = None /\ known = [b \in {} |-> None] /\ answer = None

\* The file is settled once; then knowledge of it only grows.
Learn ==
    /\ answer = None
    /\ file' # None
    /\ file \in {None, file'}
    /\ DOMAIN known \subseteq DOMAIN known'
    /\ \A b \in DOMAIN known : known'[b] = known[b]
    /\ DOMAIN known' \subseteq 0 .. (file'.total_blocks - 1)
    /\ UNCHANGED answer

\* Byte p of the file, counted from 0, read off the block it falls in.
ByteAt(p) == known[p \div BlockSize][(p % BlockSize) + 1]
Contents == [p \in 1 .. file.file_size |-> ByteAt(p - 1)]

Answer ==
    /\ answer = None
    /\ answer' = IF file = None \/ DOMAIN known # Indices THEN "MissingBlocks"
                 ELSE IF Contents = file.global_hash THEN "Verified"
                 ELSE "Mismatch"
    /\ UNCHANGED <<file, known>>

Next == Learn \/ Answer

Spec == Init /\ [][Next]_<<file, known, answer>>
=============================================================================

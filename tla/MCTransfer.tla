------------------------------ MODULE MCTransfer ------------------------------
(* Files of two and three blocks of two bytes, the last block whole or short. *)
EXTENDS Transfer

MCBytes == 0 .. 3
MCFiles == {<<1, 2, 3>>, <<0, 0, 1, 2, 3>>, <<1, 2, 2, 1, 3, 3>>}
=============================================================================

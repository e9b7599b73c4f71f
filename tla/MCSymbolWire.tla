---------------------------- MODULE MCSymbolWire ----------------------------
(* Words of seven bytes; Safe repairs two of them, Dense one.               *)
EXTENDS SymbolWire

MCAllProfiles == <<"Safe", "Dense">>
MCDataLen == [p \in {"Safe", "Dense"} |-> IF p = "Safe" THEN 3 ELSE 5]

\* Nothing; symbols filled to the last byte and with padding; one too large; a
\* block too large.
MCPayloadLists == {<<>>, <<0, 0>>, <<1>>, <<2, 2>>, <<2, 2, 0>>, <<3>>}
MCStarts == {0, 9}
=============================================================================

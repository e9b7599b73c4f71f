---------------------------- MODULE MCReassembler ----------------------------
(***************************************************************************)
(* A file of seven bytes in blocks of two (so the last block is short),    *)
(* sent as three symbols, and the ways a capture of it can go wrong.       *)
(***************************************************************************)
EXTENDS Reassembler

CONSTANTS f1, f2   \* two file ids

MCBytes == 0 .. 3
MCFileIds == {f1, f2}

RawEntry(bytes) == [compressed |-> FALSE, len |-> Len(bytes), raw |-> bytes]
ZstdEntry(bytes) == [compressed |-> TRUE, len |-> 1, raw |-> bytes]

e0 == RawEntry(<<1, 2>>)
e1 == RawEntry(<<3, 1>>)
e2 == ZstdEntry(<<0, 0>>)
e3 == RawEntry(<<2>>)

Symbol(index, start, count, entries) ==
    [file_id |-> f1, file_size |-> 7, total_blocks |-> 4, total_symbols |-> 3,
     global_hash |-> <<1, 2, 3, 1, 0, 0, 2>>, symbol_index |-> index,
     block_start |-> start, block_count |-> count, blocks |-> entries]

s0 == Symbol(0, 0, 2, <<e0, e1>>)
s1 == Symbol(1, 2, 1, <<e2>>)
s2 == Symbol(2, 3, 1, <<e3>>)

\* The symbols as sent; with blocks damaged or cut off; with a payload that
\* differs (in content, in encoding, in size) from the one sent.
Copies ==
    {s0, s1, s2,
     Symbol(0, 0, 2, <<None>>),
     Symbol(0, 0, 2, <<e0, None>>),
     Symbol(0, 0, 2, <<RawEntry(<<3, 3>>), e1>>),
     Symbol(0, 0, 2, <<ZstdEntry(<<1, 2>>), e1>>),
     Symbol(0, 0, 2, <<e0, e3>>),
     Symbol(1, 2, 1, <<None>>),
     Symbol(2, 3, 1, <<ZstdEntry(<<2>>)>>)}

\* Symbols that claim another place, or that describe another file.
Strays ==
    {Symbol(1, 1, 2, <<e1, e2>>),
     Symbol(0, 1, 1, <<e1>>),
     Symbol(3, 3, 1, <<e3>>),
     Symbol(2, 3, 2, <<e3, e3>>),
     Symbol(2, 3, 0, <<>>),
     Symbol(0, 0, 3, <<e0, e1, e2>>),
     [s0 EXCEPT !.file_id = f2],
     [s0 EXCEPT !.global_hash = <<1, 2, 3, 1, 0, 0, 3>>],
     [s2 EXCEPT !.total_symbols = 1, !.symbol_index = 0],
     [s2 EXCEPT !.file_size = 8, !.blocks = <<e0>>],
     [s2 EXCEPT !.total_blocks = 3],
     [s2 EXCEPT !.file_size = 0]}

MCInputs == Copies \cup Strays
=============================================================================

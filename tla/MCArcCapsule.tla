---------------------------- MODULE MCArcCapsule ----------------------------
(* Codewords of six two-bit bytes: Safe corrects one of them, Dense none.   *)
EXTENDS ArcCapsule

MCProfiles == {"Safe", "Dense"}
MCDataLen == [p \in MCProfiles |-> IF p = "Safe" THEN 4 ELSE 5]

\* A raster that holds both ends of the range.
Raster(w, h, shift) == [c \in 1 .. (3 * w * h) |-> (3 * c + c \div 4 + shift) % 4]
Cover(w, h) == Picture(w, h, Raster(w, h, w))

\* One codeword, two codewords, none; and one of each thing that is wrong.
MCCovers ==
    {Cover(7, 1), Cover(7, 2), Cover(2, 3), Cover(9, 1), Cover(8, 2),
     [Cover(7, 1) EXCEPT !.oversized = TRUE],
     [Cover(7, 1) EXCEPT !.signed = FALSE],
     [Cover(7, 1) EXCEPT !.rgb8 = FALSE],
     [Cover(7, 1) EXCEPT !.decodes = FALSE],
     [Cover(7, 1) EXCEPT !.chunks = <<"IDAT">>],
     [Cover(7, 1) EXCEPT !.chunks = <<"other", "IEND">>],
     [Cover(7, 1) EXCEPT !.chunks = <<"acTL", "IDAT", "IEND">>],
     [Cover(7, 1) EXCEPT !.chunks = <<"IDAT", "IEND", "other">>]}

Item(original_len, content, name, attribution, frame) ==
    [original_len |-> original_len, content |-> content, name |-> name,
     media_type |-> <<"m">>, attribution |-> attribution, frame |-> frame]

\* Five, seven and eleven bytes with header and tag; and what is refused.
MCItems ==
    {Item(2, "short", <<"n">>, <<>>, <<"x">>),
     Item(4, "full", <<"n", "o">>, <<"a", "b">>, <<"x", "y", "z">>),
     Item(4, "dense", <<"n", "o">>, <<"a", "b">>, <<"x", "y", "z", "t">>),
     Item(4, "wide", <<"n">>, <<>>, <<"x", "y", "z", "t", "u">>),
     Item(5, "long", <<"n">>, <<>>, <<"x">>),
     Item(2, "unnamed", <<>>, <<>>, <<"x">>),
     Item(2, "nul", <<"nul">>, <<>>, <<"x">>)}

Key(p, c) == [passphrase |-> p, collection |-> c, valid |-> p # "empty"]
MCKeys == {Key("right", 1), Key("right", 2), Key("other", 1), Key("empty", 1)}

MCContents == {item.content : item \in MCItems}
MCChars == {"n", "o", "m", "a", "b", "x", "y", "z", "t", "u", "nul"}

Bytes(numbers) == [r \in DOMAIN numbers |-> <<numbers[r] \div 2, numbers[r] % 2>>]
MCPatterns == {Bytes(<<0, 1, 2, 3, 1, 2>>), Bytes(<<3, 0, 2, 1, 1, 0>>)}
MCBoots == {<<0, 1>>}

MCWord(seed, n) ==
    LET k == seed[2]
    IN  (n * n * 11 + n * 13 + seed[3] * 5 + seed[4] * 3
            + (IF seed[1] = "matching" THEN 29 ELSE 7)
            + (IF k.passphrase = "right" THEN 17 ELSE 4) + k.collection * 19) % 64
=============================================================================

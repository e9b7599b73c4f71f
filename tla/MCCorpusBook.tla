---------------------------- MODULE MCCorpusBook ----------------------------
(* Two books, of one chapter and of two; every kind of marker in a text.   *)
EXTENDS CorpusBook

MCBooks ==
    <<[id |-> "GEN", file |-> "gen.txt", chapters |-> 1, verses |-> 2, size |-> 1],
      [id |-> "EXO", file |-> "exo.txt", chapters |-> 2, verses |-> 2, size |-> 2]>>

Tok(name, number, kind) == [name |-> name, number |-> number, text |-> kind]
MCTokens ==
    {Tok("c", n, "text") : n \in 0 .. 2} \union {Tok("v", n, "text") : n \in 0 .. 2}
    \union {Tok("v", 1, "none"), Tok("d", 0, "cr"), Tok("d", 0, "control"), Tok("q1", 0, "text"),
            Tok("h", 0, "text")}
    \union {Tok(name, 0, "text") : name \in {"p", "add", "add*", "f", "f*", "ft", "rq", "rq*"}}

Header(names) == [i \in DOMAIN names |-> Tok(names[i], 0, "text")]
MCHeader == Header(<<"id", "ide", "h", "toc1", "toc2", "toc3", "mt">>)
MCHeaders ==
    {MCHeader, [MCHeader EXCEPT ![7].name = "mt1", ![7].text = "control"],
     [MCHeader EXCEPT ![1].text = "wrong"], [MCHeader EXCEPT ![5].text = "wrong"],
     SubSeq(MCHeader, 1, 6), Append(MCHeader, Tok("mt1", 0, "text")),
     [MCHeader EXCEPT ![3] = MCHeader[4], ![4] = MCHeader[3]]}

Entry(name, enclosed, deflated, declared, len, bytes) ==
    [name |-> name, enclosed |-> enclosed, deflated |-> deflated, declared |-> declared,
     len |-> len, bytes |-> bytes]
MCEntries ==
    {Entry("gen.txt", TRUE, TRUE, 1, 1, "gen.txt"), Entry("exo.txt", TRUE, TRUE, 2, 2, "exo.txt"),
     Entry("exo.txt", TRUE, TRUE, 1, 1, "gen.txt"), Entry("gen.txt", TRUE, TRUE, 2, 2, "exo.txt"),
     Entry("exo.txt", TRUE, TRUE, 2, 2, "other"),
     Entry("gen.txt", TRUE, TRUE, 2, 1, "gen.txt"), Entry("exo.txt", TRUE, TRUE, 3, 2, "exo.txt"),
     Entry("exo.txt", TRUE, TRUE, 4, 4, "other"), Entry("exo.txt", TRUE, FALSE, 2, 2, "exo.txt"),
     Entry("gen.txt", FALSE, TRUE, 1, 1, "gen.txt"), Entry("README", TRUE, TRUE, 1, 1, "other")}
=============================================================================

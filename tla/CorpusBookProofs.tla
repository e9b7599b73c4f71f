-------------------------- MODULE CorpusBookProofs --------------------------
(***************************************************************************)
(* CorpusBook proved for any books, texts, limits and edits: the parser    *)
(* accepts the grammar, and the reader shows the text.                     *)
(***************************************************************************)
EXTENDS CorpusBook, Induction, SequenceTheorems

\* The provers do not know a literal for a member of STRING.
Word == STRING \union {"p", "id", "f", "f*", "ft", "text"}
Token == [name : Word, number : Nat, text : Word]

(***************************************************************************)
(* Counting names.                                                         *)
(***************************************************************************)
\* How many of the first i names are name.
Count(names, name, i) == Cardinality({j \in Positions(names, name) : j <= i})

\* names is a finite list of n names.
Listed(names, n) == n \in Nat /\ DOMAIN names = 1 .. n

\* What is counted is finite.
LEMMA CountIsFinite ==
    ASSUME NEW names, NEW n, Listed(names, n), NEW name, NEW i \in Nat
    PROVE  IsFiniteSet({j \in Positions(names, name) : j <= i}) /\ Count(names, name, i) \in Nat
<1> DEFINE upto == {j \in Positions(names, name) : j <= i}
<1>1. upto \subseteq 1 .. n
  BY DEF Positions, Listed
<1>2. IsFiniteSet(1 .. n)
  BY FS_Interval DEF Listed
<1>3. Count(names, name, i) = Cardinality(upto)
  BY DEF Count
<1> HIDE DEF upto
<1>4. IsFiniteSet(upto) /\ Cardinality(upto) \in Nat
  BY <1>1, <1>2, FS_Subset, FS_CardinalityType
<1> QED
  BY <1>3, <1>4 DEF upto

\* Counting goes one name at a time.
LEMMA CountNext ==
    ASSUME NEW names, NEW n, Listed(names, n), NEW name, NEW i \in 1 .. n
    PROVE  /\ names[i] = name => Count(names, name, i) = Count(names, name, i - 1) + 1
           /\ names[i] # name => Count(names, name, i) = Count(names, name, i - 1)
<1> DEFINE Upto(j) == {q \in Positions(names, name) : q <= j}
<1>1. i \in Nat /\ i - 1 \in Nat /\ n \in Nat
  BY DEF Listed
<1>2. Upto(i) = Upto(i - 1) \union (IF names[i] = name THEN {i} ELSE {})
  BY <1>1 DEF Positions, Listed
<1>3. i \notin Upto(i - 1)
  BY <1>1
<1>4. Count(names, name, i - 1) = Cardinality(Upto(i - 1)) /\ Count(names, name, i) = Cardinality(Upto(i))
  BY DEF Count
<1>5. IsFiniteSet(Upto(i - 1))
  BY <1>1, CountIsFinite
<1> HIDE DEF Upto
<1>6. Cardinality(Upto(i - 1) \union {i}) = Cardinality(Upto(i - 1)) + 1
  BY <1>3, <1>5, FS_AddElement
<1>7. ASSUME names[i] = name PROVE Count(names, name, i) = Count(names, name, i - 1) + 1
  <2>1. Upto(i) = Upto(i - 1) \union {i}
    BY <1>2, <1>7
  <2> QED
    BY <1>4, <1>6, <2>1
<1>8. ASSUME names[i] # name PROVE Count(names, name, i) = Count(names, name, i - 1)
  <2>1. Upto(i) = Upto(i - 1)
    BY <1>2, <1>8
  <2> QED
    BY <1>4, <2>1
<1> QED
  BY <1>7, <1>8

LEMMA CountStep ==
    ASSUME NEW names, NEW n, Listed(names, n), NEW name
    PROVE  /\ \A i \in Nat : Count(names, name, i) \in Nat
           /\ Count(names, name, 0) = 0
           /\ \A i \in 1 .. n :
                  Count(names, name, i)
                      = Count(names, name, i - 1) + (IF names[i] = name THEN 1 ELSE 0)
           /\ Count(names, name, n) = Cardinality(Positions(names, name))
<1>1. ASSUME NEW i \in Nat PROVE Count(names, name, i) \in Nat
  BY CountIsFinite
<1>2. Count(names, name, 0) = 0
  <2>1. {j \in Positions(names, name) : j <= 0} = {}
    BY DEF Positions, Listed
  <2> QED
    BY <2>1, FS_EmptySet DEF Count
<1>3. ASSUME NEW i \in 1 .. n
      PROVE  Count(names, name, i) = Count(names, name, i - 1) + (IF names[i] = name THEN 1 ELSE 0)
  <2>1. i - 1 \in Nat
    BY DEF Listed
  <2>2. Count(names, name, i - 1) \in Nat
    BY <2>1, <1>1
  <2>3. /\ names[i] = name => Count(names, name, i) = Count(names, name, i - 1) + 1
        /\ names[i] # name => Count(names, name, i) = Count(names, name, i - 1)
    BY CountNext
  <2> QED
    BY <2>2, <2>3
<1>4. Count(names, name, n) = Cardinality(Positions(names, name))
  <2>1. {j \in Positions(names, name) : j <= n} = Positions(names, name)
    BY DEF Positions, Listed
  <2> QED
    BY <2>1 DEF Count
<1> QED
  BY <1>1, <1>2, <1>3, <1>4

\* The count is that of the names it goes over.
LEMMA CountSame ==
    ASSUME NEW names, NEW n, Listed(names, n), NEW others, NEW m, Listed(others, m),
           NEW k \in Nat, k <= n, k <= m, \A j \in 1 .. k : names[j] = others[j], NEW name
    PROVE  Count(names, name, k) = Count(others, name, k)
<1>1. {j \in Positions(names, name) : j <= k} = {j \in Positions(others, name) : j <= k}
  BY DEF Positions, Listed
<1> QED
  BY <1>1 DEF Count

\* A part of a list that starts after position s counts on from there.
LEMMA CountOn ==
    ASSUME NEW names, NEW n, Listed(names, n), NEW part, NEW m, Listed(part, m),
           NEW s \in Nat, s + m <= n, \A j \in 1 .. m : part[j] = names[s + j], NEW name
    PROVE  \A i \in 0 .. m : Count(names, name, s + i) = Count(names, name, s) + Count(part, name, i)
<1> DEFINE Good == {i \in Nat : i <= m =>
                        Count(names, name, s + i) = Count(names, name, s) + Count(part, name, i)}
<1>0. n \in Nat /\ m \in Nat
  BY DEF Listed
<1>4. \A p \in 1 .. n :
          Count(names, name, p) = Count(names, name, p - 1) + (IF names[p] = name THEN 1 ELSE 0)
  BY ONLY CountStep, Listed(names, n)
<1>1. 0 \in Good
  <2>1. Count(part, name, 0) = 0 /\ Count(names, name, s) \in Nat
    BY CountStep, <1>0
  <2>2. s + 0 = s
    OBVIOUS
  <2> QED
    BY <2>1, <2>2
<1>2. ASSUME NEW i \in Nat, i \in Good PROVE i + 1 \in Good
  <2> SUFFICES ASSUME i + 1 <= m
               PROVE  Count(names, name, s + (i + 1)) = Count(names, name, s) + Count(part, name, i + 1)
    OBVIOUS
  <2>1. Count(names, name, s + i) = Count(names, name, s) + Count(part, name, i)
    BY <1>0, <1>2
  <2>2. /\ i + 1 \in 1 .. m /\ (i + 1) - 1 = i
        /\ s + (i + 1) \in 1 .. n /\ (s + (i + 1)) - 1 = s + i
    BY ONLY <1>0, i \in Nat, s \in Nat, i + 1 <= m, s + m <= n
  <2>3. part[i + 1] = names[s + (i + 1)]
    BY <2>2
  <2>4. Count(part, name, i + 1) = Count(part, name, i) + (IF part[i + 1] = name THEN 1 ELSE 0)
    BY <2>2, CountStep
  <2>5. Count(names, name, s + (i + 1))
            = Count(names, name, s + i) + (IF names[s + (i + 1)] = name THEN 1 ELSE 0)
    <3> DEFINE p == s + (i + 1)
    <3>1. p \in 1 .. n /\ p - 1 = s + i
      BY <2>2
    <3> HIDE DEF p
    <3>2. Count(names, name, p) = Count(names, name, p - 1) + (IF names[p] = name THEN 1 ELSE 0)
      BY <3>1, <1>4
    <3> QED
      BY <3>1, <3>2 DEF p
  <2>6. Count(names, name, s) \in Nat /\ Count(part, name, i) \in Nat
    BY CountStep
  <2> QED
    BY <2>1, <2>3, <2>4, <2>5, <2>6
<1>3. \A i \in Nat : i \in Good
  <2> HIDE DEF Good
  <2> QED
    BY <1>1, <1>2, Induction
<1> QED
  BY <1>0, <1>3

\* What kind has open is the openers less the closers.
LEMMA OpenAtIsCount ==
    ASSUME NEW names, NEW kind, NEW i
    PROVE  OpenAt(names, kind, i) = Count(names, kind, i) - Count(names, Closer[kind], i)
BY DEF OpenAt, Count

-----------------------------------------------------------------------------
(* One more marker in a text.                                              *)

LEMMA TextFacts ==
    ASSUME NEW t \in Seq(Token)
    PROVE  /\ Len(t) \in Nat /\ DOMAIN t = 1 .. Len(t)
           /\ Listed(NamesOf(t), Len(t))
           /\ \A i \in 1 .. Len(t) : t[i] \in Token /\ NamesOf(t)[i] = t[i].name
BY DEF NamesOf, Listed

LEMMA AppendedFacts ==
    ASSUME NEW t \in Seq(Token), NEW u \in Token
    PROVE  /\ Append(t, u) \in Seq(Token)
           /\ Len(Append(t, u)) = Len(t) + 1
           /\ Listed(NamesOf(Append(t, u)), Len(t) + 1)
           /\ \A i \in 1 .. Len(t) : Append(t, u)[i] = t[i] /\ NamesOf(Append(t, u))[i] = NamesOf(t)[i]
           /\ Append(t, u)[Len(t) + 1] = u
           /\ NamesOf(Append(t, u))[Len(t) + 1] = u.name
<1>1. /\ Append(t, u) \in Seq(Token)
      /\ Len(Append(t, u)) = Len(t) + 1
      /\ \A i \in 1 .. Len(t) : Append(t, u)[i] = t[i]
      /\ Append(t, u)[Len(t) + 1] = u
  BY AppendProperties
<1>2. Len(t) \in Nat /\ DOMAIN t = 1 .. Len(t) /\ DOMAIN Append(t, u) = 1 .. Len(t) + 1
  BY <1>1
<1> QED
  BY <1>1, <1>2 DEF NamesOf, Listed

LEMMA CountAppended ==
    ASSUME NEW t \in Seq(Token), NEW u \in Token, NEW name
    PROVE  /\ \A i \in 0 .. Len(t) : Count(NamesOf(Append(t, u)), name, i) = Count(NamesOf(t), name, i)
           /\ Count(NamesOf(Append(t, u)), name, Len(t) + 1)
                = Count(NamesOf(t), name, Len(t)) + (IF u.name = name THEN 1 ELSE 0)
           /\ \A i \in 0 .. Len(t) : Count(NamesOf(t), name, i) \in Nat
<1> DEFINE now == NamesOf(Append(t, u))
           old == NamesOf(t)
           n == Len(t)
<1>1. /\ n \in Nat /\ Listed(old, n) /\ Listed(now, n + 1)
      /\ \A i \in 1 .. n : now[i] = old[i]
      /\ now[n + 1] = u.name
  BY TextFacts, AppendedFacts
<1> HIDE DEF now, old, n
<1>2. ASSUME NEW i \in 0 .. n PROVE Count(now, name, i) = Count(old, name, i)
  <2>1. i \in Nat /\ i <= n /\ i <= n + 1 /\ \A j \in 1 .. i : now[j] = old[j]
    BY ONLY <1>1, i \in 0 .. n
  <2> QED
    BY ONLY <2>1, <1>1, CountSame
<1>3. n + 1 \in 1 .. n + 1 /\ (n + 1) - 1 = n /\ n \in 0 .. n
  BY ONLY <1>1
<1>4. Count(now, name, n + 1) = Count(now, name, n) + (IF u.name = name THEN 1 ELSE 0)
  <2> DEFINE m == n + 1
  <2>2. m \in 1 .. m /\ m - 1 = n /\ now[m] = u.name /\ Listed(now, m)
    BY <1>1, <1>3
  <2> HIDE DEF m
  <2>3. /\ now[m] = name => Count(now, name, m) = Count(now, name, m - 1) + 1
        /\ now[m] # name => Count(now, name, m) = Count(now, name, m - 1)
    BY ONLY <2>2, CountNext
  <2>4. Count(now, name, n) \in Nat
    BY ONLY <1>1, CountIsFinite
  <2> QED
    BY <2>2, <2>3, <2>4 DEF m
<1>5. ASSUME NEW i \in 0 .. n PROVE Count(old, name, i) \in Nat
  <2>1. i \in Nat
    BY <1>1
  <2> QED
    BY ONLY <2>1, <1>1, CountStep
<1> QED
  BY <1>2, <1>3, <1>4, <1>5 DEF now, old, n

-----------------------------------------------------------------------------
(* Passes over a list: the recursive functions of CorpusBook exist and are *)
(* what their equations say.                                               *)

LEMMA RecursionTo ==
    ASSUME NEW D, NEW n \in Nat, NEW first \in D, NEW step \in [1 .. n -> [D -> D]]
    PROVE  \E f : CountsTo(f, D, first, step, n)
<1> DEFINE go == [k \in Nat |-> IF k \in 1 .. n THEN step[k] ELSE [x \in D |-> x]]
<1>1. go \in [Nat -> [D -> D]]
  OBVIOUS
<1>2. PICK h : CountsOn(h, D, first, go)
  <2> HIDE DEF go
  <2> QED
    BY <1>1, RecursionAt
<1>3. h \in [Nat -> D] /\ h[0] = first /\ \A k \in Nat \ {0} : h[k] = go[k][h[k - 1]]
  BY <1>2 DEF CountsOn
<1> DEFINE f == [k \in 0 .. n |-> h[k]]
<1>4. f \in [0 .. n -> D] /\ f[0] = first
  BY <1>3
<1>5. ASSUME NEW k \in 1 .. n PROVE f[k] = step[k][f[k - 1]]
  <2>1. k \in Nat \ {0} /\ k - 1 \in 0 .. n
    OBVIOUS
  <2>2. go[k] = step[k]
    OBVIOUS
  <2>3. f[k] = h[k] /\ f[k - 1] = h[k - 1]
    BY <2>1
  <2> HIDE DEF go, f
  <2>4. h[k] = go[k][h[k - 1]]
    BY <1>3, <2>1
  <2> QED
    BY <2>2, <2>3, <2>4
<1>6. CountsTo(f, D, first, step, n)
  BY <1>4, <1>5 DEF CountsTo
<1> QED
  BY <1>6

Rec == [marker : Word, number : Int, at : Nat, text : Word]
Chapter == [number : Nat, markers : Seq(Rec)]
\* The headers and chapters of a document, or of a parser's state.
Shaped(d) == d.headers \in Seq(Rec) /\ d.chapters \in Seq(Chapter)

LEMMA MarkersUpToEquations ==
    ASSUME NEW d, Shaped(d)
    PROVE  /\ \A c \in 0 .. Len(d.chapters) : MarkersUpTo(d, c) \in Nat
           /\ MarkersUpTo(d, 0) = Len(d.headers)
           /\ \A c \in 1 .. Len(d.chapters) :
                  /\ d.chapters[c] \in Chapter
                  /\ Len(d.chapters[c].markers) \in Nat
                  /\ MarkersUpTo(d, c) = MarkersUpTo(d, c - 1) + Len(d.chapters[c].markers)
<1> DEFINE n == Len(d.chapters)
           Body(f) == [k \in 0 .. n |-> IF k = 0 THEN Len(d.headers) ELSE f[k - 1] + Len(d.chapters[k].markers)]
           step == [k \in 1 .. n |-> [x \in Nat |-> x + Len(d.chapters[k].markers)]]
           total == CHOOSE f : f = Body(f)
<1>1. /\ n \in Nat /\ Len(d.headers) \in Nat
      /\ \A c \in 1 .. n : d.chapters[c] \in Chapter
  BY DEF Shaped
<1>2. \A c \in 1 .. n : Len(d.chapters[c].markers) \in Nat
  BY <1>1 DEF Chapter
<1>3. step \in [1 .. n -> [Nat -> Nat]]
  BY <1>2
<1>4. PICK f \in [0 .. n -> Nat] : f[0] = Len(d.headers) /\ \A k \in 1 .. n : f[k] = step[k][f[k - 1]]
  <2> DEFINE first == Len(d.headers)
  <2>1. first \in Nat
    BY <1>1
  <2> HIDE DEF step, n, first
  <2>2. \E f \in [0 .. n -> Nat] : f[0] = first /\ \A k \in 1 .. n : f[k] = step[k][f[k - 1]]
    <3>1. n \in Nat /\ step \in [1 .. n -> [Nat -> Nat]]
      BY <1>1, <1>3
    <3>2. \E f : CountsTo(f, Nat, first, step, n)
      BY ONLY <3>1, <2>1, RecursionTo
    <3> QED
      BY <3>2 DEF CountsTo
  <2> QED
    BY <2>2 DEF first
<1>5. ASSUME NEW k \in 1 .. n PROVE f[k] = f[k - 1] + Len(d.chapters[k].markers)
  <2>1. k - 1 \in 0 .. n
    BY <1>1
  <2>2. f[k - 1] \in Nat
    BY <1>4, <2>1
  <2> DEFINE x == f[k - 1]
  <2> HIDE DEF x, n
  <2>3. step[k][x] = x + Len(d.chapters[k].markers)
    BY <2>2 DEF x
  <2> QED
    BY <1>4, <2>3 DEF x
<1>6. f = Body(f)
  <2>1. ASSUME NEW k \in 0 .. n PROVE f[k] = IF k = 0 THEN Len(d.headers) ELSE f[k - 1] + Len(d.chapters[k].markers)
    <3>1. k = 0 \/ k \in 1 .. n
      BY <1>1
    <3> QED
      BY <3>1, <1>4, <1>5
  <2> HIDE DEF n
  <2> QED
    BY <2>1, <1>4
<1>7. total = Body(total)
  <2> HIDE DEF Body
  <2> QED
    BY <1>6
<1>8. \A c : MarkersUpTo(d, c) = total[c]
  BY DEF MarkersUpTo
<1> HIDE DEF total
<1>9. \A c \in 0 .. n : total[c] = IF c = 0 THEN Len(d.headers) ELSE total[c - 1] + Len(d.chapters[c].markers)
  <2> HIDE DEF n
  <2> QED
    BY <1>7
<1>10. \A c \in 0 .. n : total[c] \in Nat
  <2> DEFINE Good == {c \in Nat : c <= n => total[c] \in Nat}
  <2>1. 0 \in Good
    BY <1>1, <1>9
  <2>2. ASSUME NEW c \in Nat, c \in Good PROVE c + 1 \in Good
    <3> SUFFICES ASSUME c + 1 <= n PROVE total[c + 1] \in Nat
      OBVIOUS
    <3>1. c + 1 \in 0 .. n /\ c + 1 \in 1 .. n /\ c + 1 # 0 /\ (c + 1) - 1 = c
      BY <1>1
    <3>2. total[c + 1] = total[c] + Len(d.chapters[c + 1].markers)
      BY <1>9, <3>1
    <3>3. total[c] \in Nat
      BY <2>2, <1>1
    <3> QED
      BY <3>1, <3>2, <3>3, <1>2
  <2>3. \A c \in Nat : c \in Good
    <3> HIDE DEF Good
    <3> QED
      BY <2>1, <2>2, Induction
  <2> QED
    BY <2>3, <1>1
<1> HIDE DEF Body, step
<1>11. MarkersUpTo(d, 0) = Len(d.headers)
  BY <1>1, <1>8, <1>9
<1>12. ASSUME NEW c \in 1 .. n PROVE MarkersUpTo(d, c) = MarkersUpTo(d, c - 1) + Len(d.chapters[c].markers)
  <2>1. c \in 0 .. n /\ c # 0
    BY <1>1
  <2> HIDE DEF n
  <2> QED
    BY <2>1, <1>8, <1>9
<1>13. \A c \in 0 .. n : MarkersUpTo(d, c) \in Nat
  BY <1>8, <1>10
<1> QED
  BY <1>1, <1>2, <1>11, <1>12, <1>13

\* A pass over as many chapters of the same lengths.
LEMMA MarkersUpToSame ==
    ASSUME NEW d, Shaped(d), NEW e, Shaped(e), Len(d.headers) = Len(e.headers),
           NEW k \in Nat, k <= Len(d.chapters), k <= Len(e.chapters),
           \A c \in 1 .. k : Len(d.chapters[c].markers) = Len(e.chapters[c].markers)
    PROVE  \A c \in 0 .. k : MarkersUpTo(d, c) = MarkersUpTo(e, c)
<1> DEFINE Good == {c \in Nat : c <= k => MarkersUpTo(d, c) = MarkersUpTo(e, c)}
<1>0. Len(d.chapters) \in Nat /\ Len(e.chapters) \in Nat
  BY DEF Shaped
<1>1. 0 \in Good
  BY MarkersUpToEquations
<1>2. ASSUME NEW c \in Nat, c \in Good PROVE c + 1 \in Good
  <2> SUFFICES ASSUME c + 1 <= k PROVE MarkersUpTo(d, c + 1) = MarkersUpTo(e, c + 1)
    OBVIOUS
  <2> DEFINE b == c + 1
  <2>1. b \in 1 .. k /\ b \in 1 .. Len(d.chapters) /\ b \in 1 .. Len(e.chapters) /\ b - 1 = c
    BY <1>0
  <2>2. MarkersUpTo(d, c) = MarkersUpTo(e, c)
    BY <1>2
  <2> HIDE DEF b
  <2>3. MarkersUpTo(d, b) = MarkersUpTo(d, b - 1) + Len(d.chapters[b].markers)
    BY <2>1, MarkersUpToEquations
  <2>4. MarkersUpTo(e, b) = MarkersUpTo(e, b - 1) + Len(e.chapters[b].markers)
    BY <2>1, MarkersUpToEquations
  <2> QED
    BY <2>1, <2>2, <2>3, <2>4 DEF b
<1>3. \A c \in Nat : c \in Good
  <2> HIDE DEF Good
  <2> QED
    BY <1>1, <1>2, Induction
<1> QED
  BY <1>3

\* Totals only grow.
LEMMA MarkersUpToGrows ==
    ASSUME NEW d, Shaped(d), NEW b \in 0 .. Len(d.chapters)
    PROVE  \A c \in b .. Len(d.chapters) : MarkersUpTo(d, b) <= MarkersUpTo(d, c)
<1> DEFINE Good == {k \in Nat : b + k <= Len(d.chapters) => MarkersUpTo(d, b) <= MarkersUpTo(d, b + k)}
<1>0. Len(d.chapters) \in Nat /\ b \in Nat
  BY DEF Shaped
<1>1. 0 \in Good
  BY <1>0, MarkersUpToEquations
<1>2. ASSUME NEW k \in Nat, k \in Good PROVE k + 1 \in Good
  <2> SUFFICES ASSUME b + (k + 1) <= Len(d.chapters) PROVE MarkersUpTo(d, b) <= MarkersUpTo(d, b + (k + 1))
    OBVIOUS
  <2> DEFINE c == b + (k + 1)
  <2>1. c \in 1 .. Len(d.chapters) /\ c - 1 = b + k /\ c - 1 \in 0 .. Len(d.chapters)
    BY <1>0
  <2>2. MarkersUpTo(d, b) <= MarkersUpTo(d, b + k)
    BY <1>2, <1>0
  <2> HIDE DEF c
  <2>3. /\ MarkersUpTo(d, c) = MarkersUpTo(d, c - 1) + Len(d.chapters[c].markers)
        /\ Len(d.chapters[c].markers) \in Nat
    BY <2>1, MarkersUpToEquations
  <2>4. MarkersUpTo(d, b) \in Nat /\ MarkersUpTo(d, c - 1) \in Nat
    BY <2>1, MarkersUpToEquations
  <2>5. MarkersUpTo(d, b) <= MarkersUpTo(d, c)
    BY <2>1, <2>2, <2>3, <2>4
  <2> QED
    BY <2>5 DEF c
<1>3. \A k \in Nat : k \in Good
  <2> HIDE DEF Good
  <2> QED
    BY <1>1, <1>2, Induction
<1> QED
  <2> SUFFICES ASSUME NEW c \in b .. Len(d.chapters) PROVE MarkersUpTo(d, b) <= MarkersUpTo(d, c)
    OBVIOUS
  <2>1. c - b \in Nat /\ b + (c - b) = c /\ c <= Len(d.chapters)
    BY <1>0
  <2> QED
    BY <2>1, <1>3

-----------------------------------------------------------------------------
(* Inline markers.                                                         *)

LEMMA NameFacts ==
    /\ Openers = {"add", "f", "rq"}
    /\ Closer["add"] = "add*" /\ Closer["f"] = "f*" /\ Closer["rq"] = "rq*"
    /\ BodyNames = {"add", "f", "rq", "add*", "f*", "rq*", "fr", "fq", "ft", "p", "v", "d"}
    /\ HeaderNames \intersect BodyNames = {}
    /\ "c" \notin HeaderNames \union BodyNames
<1>1. Openers = {"add", "f", "rq"}
  BY DEF Openers
<1>2. Closer["add"] = "add*" /\ Closer["f"] = "f*" /\ Closer["rq"] = "rq*"
  BY DEF Closer, Openers
<1>3. {Closer[kind] : kind \in Openers} = {"add*", "f*", "rq*"}
  BY <1>1, <1>2
<1>4. BodyNames = {"add", "f", "rq", "add*", "f*", "rq*", "fr", "fq", "ft", "p", "v", "d"}
  BY <1>1, <1>3 DEF BodyNames, FootnoteParts
<1>5. HeaderNames \intersect BodyNames = {}
  BY <1>4 DEF HeaderNames
<1>6. "c" \notin HeaderNames \union BodyNames
  BY <1>4 DEF HeaderNames
<1> QED
  BY <1>1, <1>2, <1>4, <1>5, <1>6

\* What is open after a marker.
Counted(b) == IF b THEN 1 ELSE 0

LEMMA OpenStep ==
    ASSUME NEW t \in Seq(Token), NEW u \in Token, NEW kind \in Openers
    PROVE  /\ \A i \in 0 .. Len(t) : OpenAt(NamesOf(Append(t, u)), kind, i) = OpenAt(NamesOf(t), kind, i)
           /\ OpenAt(NamesOf(Append(t, u)), kind, Len(t) + 1)
                 = OpenAt(NamesOf(t), kind, Len(t)) + Counted(u.name = kind) - Counted(u.name = Closer[kind])
<1> DEFINE now == NamesOf(Append(t, u))
           old == NamesOf(t)
<1>0. Len(t) \in 0 .. Len(t)
  BY TextFacts
<1>1. /\ \A i \in 0 .. Len(t) : Count(now, kind, i) = Count(old, kind, i)
      /\ Count(now, kind, Len(t) + 1) = Count(old, kind, Len(t)) + Counted(u.name = kind)
      /\ Count(old, kind, Len(t)) \in Nat
  BY <1>0, CountAppended DEF Counted
<1>2. /\ \A i \in 0 .. Len(t) : Count(now, Closer[kind], i) = Count(old, Closer[kind], i)
      /\ Count(now, Closer[kind], Len(t) + 1) = Count(old, Closer[kind], Len(t)) + Counted(u.name = Closer[kind])
      /\ Count(old, Closer[kind], Len(t)) \in Nat
  BY <1>0, CountAppended DEF Counted
<1>3. Counted(u.name = kind) \in Nat /\ Counted(u.name = Closer[kind]) \in Nat
  BY DEF Counted
<1> HIDE DEF now, old
<1> QED
  BY <1>1, <1>2, <1>3, OpenAtIsCount DEF now, old

\* open holds exactly the kinds that the text so far has left open.
OpenIn(t, open) ==
    /\ open \subseteq Openers
    /\ \A kind \in Openers : OpenAt(NamesOf(t), kind, Len(t)) = Counted(kind \in open)

LEMMA NestingStep ==
    ASSUME NEW t \in Seq(Token), NEW u \in Token, NEW open, OpenIn(t, open)
    PROVE  /\ WellNested(NamesOf(t)) => (WellNested(NamesOf(Append(t, u))) <=> Nests(u.name, open))
           /\ Nests(u.name, open) => OpenIn(Append(t, u), StillOpen(u.name, open))
<1> DEFINE now == NamesOf(Append(t, u))
           old == NamesOf(t)
           n == Len(t)
<1>0. /\ n \in Nat /\ DOMAIN old = 1 .. n /\ DOMAIN now = 1 .. n + 1 /\ Len(Append(t, u)) = n + 1
      /\ \A i \in 1 .. n : now[i] = old[i]
      /\ now[n + 1] = u.name
  BY TextFacts, AppendedFacts DEF Listed
<1>1. ASSUME NEW kind \in Openers, NEW i \in 1 .. n PROVE OpenAt(now, kind, i) = OpenAt(old, kind, i)
  BY <1>0, OpenStep
<1>2. ASSUME NEW kind \in Openers
      PROVE  OpenAt(now, kind, n + 1)
               = Counted(kind \in open) + Counted(u.name = kind) - Counted(u.name = Closer[kind])
  BY OpenStep DEF OpenIn
<1>3. "f" \in Openers
  BY DEF Openers
<1> HIDE DEF now, old, n
<1>4. ASSUME NEW kind \in Openers
      PROVE  /\ OpenAt(now, kind, n + 1) \in {0, 1} <=>
                    /\ u.name = kind => kind \notin open
                    /\ u.name = Closer[kind] => kind \in open
             /\ kind # Closer[kind]
  <2>1. kind # Closer[kind]
    BY NameFacts
  <2> QED
    BY <2>1, <1>2 DEF Counted
<1>5. Nests(u.name, open) <=>
          /\ \A kind \in Openers : OpenAt(now, kind, n + 1) \in {0, 1}
          /\ u.name \in FootnoteParts => "f" \in open
  BY <1>4 DEF Nests
<1>6. u.name \in FootnoteParts => OpenAt(now, "f", n + 1) = Counted("f" \in open)
  <2>1. u.name \in FootnoteParts => u.name # "f" /\ u.name # Closer["f"]
    BY NameFacts DEF FootnoteParts
  <2> QED
    BY <2>1, <1>2, <1>3 DEF Counted
<1>7. ASSUME WellNested(old) PROVE WellNested(now) <=> Nests(u.name, open)
  <2>1. /\ \A kind \in Openers, i \in 1 .. n : OpenAt(old, kind, i) \in {0, 1}
        /\ \A i \in 1 .. n : old[i] \in FootnoteParts => OpenAt(old, "f", i) = 1
    BY <1>0, <1>7 DEF WellNested
  <2>2. WellNested(now) <=>
            /\ \A kind \in Openers, i \in 1 .. n + 1 : OpenAt(now, kind, i) \in {0, 1}
            /\ \A i \in 1 .. n + 1 : now[i] \in FootnoteParts => OpenAt(now, "f", i) = 1
    BY <1>0 DEF WellNested
  <2>3. n + 1 \in 1 .. n + 1 /\ \A i \in 1 .. n + 1 : i \in 1 .. n \/ i = n + 1
    BY <1>0
  <2>4. WellNested(now) <=>
            /\ \A kind \in Openers : OpenAt(now, kind, n + 1) \in {0, 1}
            /\ u.name \in FootnoteParts => OpenAt(now, "f", n + 1) = 1
    BY <1>0, <1>1, <1>3, <2>1, <2>2, <2>3
  <2> QED
    BY <2>4, <1>5, <1>6 DEF Counted
<1>8. ASSUME Nests(u.name, open) PROVE OpenIn(Append(t, u), StillOpen(u.name, open))
  <2>1. StillOpen(u.name, open) \subseteq Openers
    BY DEF OpenIn, StillOpen
  <2>2. ASSUME NEW kind \in Openers
        PROVE  OpenAt(now, kind, n + 1) = Counted(kind \in StillOpen(u.name, open))
    <3>1. kind \in StillOpen(u.name, open) <=> (kind \in open \/ u.name = kind) /\ u.name # Closer[kind]
      BY DEF StillOpen
    <3>2. (u.name = kind => kind \notin open) /\ (u.name = Closer[kind] => kind \in open)
      BY <1>8 DEF Nests
    <3> QED
      BY <3>1, <3>2, <1>2, <1>4 DEF Counted
  <2> QED
    BY <1>0, <2>1, <2>2 DEF OpenIn, now
<1> QED
  BY <1>7, <1>8 DEF now, old

-----------------------------------------------------------------------------
(* What a marker more does to the grammar.                                 *)

\* The names of a text, and its first seven.
LEMMA NamesAreStrings ==
    ASSUME NEW t \in Seq(Token)
    PROVE  /\ NamesOf(t) \in Seq(Word)
           /\ Len(NamesOf(t)) = Len(t)
           /\ Len(t) >= 7 => /\ SubSeq(NamesOf(t), 1, 7) \in Seq(Word)
                             /\ Len(SubSeq(NamesOf(t), 1, 7)) = 7
                             /\ \A i \in 1 .. 7 : SubSeq(NamesOf(t), 1, 7)[i] = NamesOf(t)[i]
<1>1. /\ Len(t) \in Nat /\ DOMAIN NamesOf(t) = 1 .. Len(t)
      /\ \A i \in 1 .. Len(t) : NamesOf(t)[i] \in Word
  BY TextFacts DEF Listed, Token
<1>2. NamesOf(t) \in Seq(Word) /\ Len(NamesOf(t)) = Len(t)
  <2>1. NamesOf(t) \in [1 .. Len(t) -> Word]
    BY <1>1 DEF NamesOf
  <2> QED
    BY <1>1, <2>1
<1>3. ASSUME Len(t) >= 7
      PROVE  /\ SubSeq(NamesOf(t), 1, 7) \in Seq(Word)
             /\ Len(SubSeq(NamesOf(t), 1, 7)) = 7
             /\ \A i \in 1 .. 7 : SubSeq(NamesOf(t), 1, 7)[i] = NamesOf(t)[i]
  <2> DEFINE names == NamesOf(t)
  <2>1. \A i \in 1 .. 7 : names[i] \in Word
    BY <1>1, <1>3
  <2> HIDE DEF names
  <2>2. /\ SubSeq(names, 1, 7) \in Seq(Word)
        /\ Len(SubSeq(names, 1, 7)) = 7
        /\ \A i \in 1 .. 7 - 1 + 1 : SubSeq(names, 1, 7)[i] = names[1 + i - 1]
    BY <2>1, SubSeqProperties
  <2> QED
    BY <2>2 DEF names
<1> QED
  BY <1>2, <1>3

\* Texts that agree on their first seven markers begin alike.
LEMMA SameHead ==
    ASSUME NEW t \in Seq(Token), NEW u \in Token, Len(t) >= 7
    PROVE  SubSeq(NamesOf(Append(t, u)), 1, 7) = SubSeq(NamesOf(t), 1, 7)
<1> DEFINE a == SubSeq(NamesOf(Append(t, u)), 1, 7)
           b == SubSeq(NamesOf(t), 1, 7)
<1>1. b \in Seq(Word) /\ Len(b) = 7 /\ \A i \in 1 .. 7 : b[i] = NamesOf(t)[i]
  BY NamesAreStrings
<1>2. a \in Seq(Word) /\ Len(a) = 7 /\ \A i \in 1 .. 7 : a[i] = NamesOf(Append(t, u))[i]
  <2>1. Append(t, u) \in Seq(Token) /\ Len(Append(t, u)) >= 7
    BY AppendedFacts, TextFacts
  <2> QED
    BY <2>1, NamesAreStrings
<1>3. \A i \in 1 .. 7 : NamesOf(Append(t, u))[i] = NamesOf(t)[i]
  BY AppendedFacts, TextFacts
<1> HIDE DEF a, b
<1>4. a = b
  <2>1. Len(a) = Len(b) /\ \A i \in 1 .. Len(a) : a[i] = b[i]
    BY <1>1, <1>2, <1>3
  <2> QED
    BY ONLY <1>1, <1>2, <2>1, SeqEqual
<1> QED
  BY <1>4 DEF a, b

\* The part of Viable about which markers there are.
Structured(t) ==
    LET names == NamesOf(t) IN
    IF Positions(names, "c") = {} THEN \A i \in DOMAIN t : names[i] \in HeaderNames
    ELSE /\ Len(t) >= 8 /\ SubSeq(names, 1, 7) \in CanonicalHeaders /\ names[8] = "c"
         /\ \A i \in 9 .. Len(t) : names[i] \in BodyNames \union {"c"}
\* The part about chapters, about verses, and about every marker.
Numbered(t) ==
    \A i \in Positions(NamesOf(t), "c") :
        t[i].number = Count(NamesOf(t), "c", i) /\ AllClosed(NamesOf(t), i)
Versed(t) == \A i \in Positions(NamesOf(t), "v") : t[i].number # 0 /\ t[i].text # "none"
Plain(t) == \A i \in DOMAIN t : t[i].text # "cr"

LEMMA ViableParts ==
    ASSUME NEW t
    PROVE  Viable(t) <=> /\ Len(t) <= MAX_MARKERS_PER_BOOK /\ Plain(t) /\ Structured(t)
                         /\ Numbered(t) /\ Versed(t) /\ WellNested(NamesOf(t))
BY DEF Viable, Structured, Numbered, Versed, Plain, Count

LEMMA StructuredStep ==
    ASSUME NEW t \in Seq(Token), NEW u \in Token, Structured(t)
    PROVE  Structured(Append(t, u)) <=>
               IF Positions(NamesOf(t), "c") = {}
               THEN \/ u.name \in HeaderNames
                    \/ u.name = "c" /\ Len(t) = 7 /\ SubSeq(NamesOf(t), 1, 7) \in CanonicalHeaders
               ELSE u.name \in BodyNames \union {"c"}
<1> DEFINE now == NamesOf(Append(t, u))
           old == NamesOf(t)
           n == Len(t)
<1>0. /\ n \in Nat /\ DOMAIN old = 1 .. n /\ DOMAIN now = 1 .. n + 1 /\ Len(Append(t, u)) = n + 1
      /\ DOMAIN t = 1 .. n /\ DOMAIN Append(t, u) = 1 .. n + 1
      /\ \A i \in 1 .. n : now[i] = old[i]
      /\ now[n + 1] = u.name
  BY TextFacts, AppendedFacts DEF Listed
<1>1. n >= 7 => SubSeq(now, 1, 7) = SubSeq(old, 1, 7)
  BY SameHead
<1>2. Positions(now, "c") = Positions(old, "c") \union (IF u.name = "c" THEN {n + 1} ELSE {})
  BY <1>0 DEF Positions
<1>3. \A i \in 1 .. n + 1 : i \in 1 .. n \/ i = n + 1
  BY <1>0
<1> HIDE DEF now, old, n
<1>4. CASE Positions(old, "c") = {} /\ u.name # "c"
  <2>1. Positions(now, "c") = {}
    BY <1>2, <1>4
  <2>2. \A i \in 1 .. n : old[i] \in HeaderNames
    BY <1>0, <1>4 DEF Structured, old, n
  <2>3. Structured(Append(t, u)) <=> \A i \in 1 .. n + 1 : now[i] \in HeaderNames
    BY <1>0, <2>1 DEF Structured, now
  <2>4. n + 1 \in 1 .. n + 1
    BY <1>0
  <2> QED
    BY <1>0, <1>3, <1>4, <2>2, <2>3, <2>4 DEF old
<1>5. CASE Positions(old, "c") = {} /\ u.name = "c"
  <2>1. Positions(now, "c") # {}
    BY <1>2, <1>5
  <2>2. \A i \in 1 .. n : now[i] # "c"
    BY <1>0, <1>5 DEF Positions
  <2>3. Structured(Append(t, u)) <=>
            /\ n + 1 >= 8 /\ SubSeq(now, 1, 7) \in CanonicalHeaders /\ now[8] = "c"
            /\ \A i \in 9 .. n + 1 : now[i] \in BodyNames \union {"c"}
    BY <1>0, <2>1 DEF Structured, now
  <2>4. n + 1 >= 8 /\ now[8] = "c" <=> n = 7
    BY <1>0, <1>5, <2>2
  <2>5. "c" \notin HeaderNames
    BY NameFacts
  <2>6. n = 7 => 9 .. n + 1 = {}
    BY <1>0
  <2>7. Structured(Append(t, u)) <=> n = 7 /\ SubSeq(old, 1, 7) \in CanonicalHeaders
    <3>1. CASE n = 7
      <4>1. SubSeq(now, 1, 7) = SubSeq(old, 1, 7)
        BY <1>1, <3>1
      <4> QED
        BY <2>3, <2>4, <2>6, <3>1, <4>1
    <3>2. CASE n # 7
      BY <2>3, <2>4, <3>2
    <3> QED
      BY <3>1, <3>2
  <2> QED
    BY <1>5, <2>5, <2>7 DEF old, n
<1>6. CASE Positions(old, "c") # {}
  <2>1. Positions(now, "c") # {}
    BY <1>2, <1>6
  <2>2. /\ n >= 8 /\ SubSeq(old, 1, 7) \in CanonicalHeaders /\ old[8] = "c"
        /\ \A i \in 9 .. n : old[i] \in BodyNames \union {"c"}
    BY <1>6 DEF Structured, old, n
  <2>3. Structured(Append(t, u)) <=>
            /\ n + 1 >= 8 /\ SubSeq(now, 1, 7) \in CanonicalHeaders /\ now[8] = "c"
            /\ \A i \in 9 .. n + 1 : now[i] \in BodyNames \union {"c"}
    BY <1>0, <2>1 DEF Structured, now
  <2>4. now[8] = old[8] /\ n + 1 >= 8 /\ n + 1 \in 9 .. n + 1
    BY <1>0, <2>2
  <2>5. \A i \in 9 .. n + 1 : i \in 9 .. n \/ i = n + 1
    BY <1>0
  <2>6. \A i \in 9 .. n : now[i] = old[i]
    BY <1>0
  <2>7. SubSeq(now, 1, 7) = SubSeq(old, 1, 7)
    BY <1>0, <1>1, <2>2
  <2>8. Structured(Append(t, u)) <=> \A i \in 9 .. n + 1 : now[i] \in BodyNames \union {"c"}
    BY <2>2, <2>3, <2>4, <2>7
  <2>9. Structured(Append(t, u)) <=> u.name \in BodyNames \union {"c"}
    BY <1>0, <2>2, <2>4, <2>5, <2>6, <2>8
  <2> QED
    BY <1>6, <2>9 DEF old
<1> QED
  BY <1>4, <1>5, <1>6 DEF old

LEMMA NumberedStep ==
    ASSUME NEW t \in Seq(Token), NEW u \in Token, Numbered(t)
    PROVE  Numbered(Append(t, u)) <=>
               (u.name = "c" => /\ u.number = Count(NamesOf(t), "c", Len(t)) + 1
                                /\ AllClosed(NamesOf(t), Len(t)))
<1> DEFINE now == NamesOf(Append(t, u))
           old == NamesOf(t)
           n == Len(t)
           after == Append(t, u)
<1>0. /\ n \in Nat /\ DOMAIN old = 1 .. n /\ DOMAIN now = 1 .. n + 1
      /\ \A i \in 1 .. n : now[i] = old[i] /\ after[i] = t[i]
      /\ now[n + 1] = u.name /\ after[n + 1] = u
  BY TextFacts, AppendedFacts DEF Listed
<1>1. \A i \in 0 .. n : Count(now, "c", i) = Count(old, "c", i)
  BY CountAppended
<1>2. u.name = "c" => Count(now, "c", n + 1) = Count(old, "c", n) + 1
  BY CountAppended
<1>3. ASSUME NEW i \in 0 .. n PROVE AllClosed(now, i) <=> AllClosed(old, i)
  BY OpenStep DEF AllClosed
<1>4. ASSUME u.name = "c" PROVE AllClosed(now, n + 1) <=> AllClosed(old, n)
  <2>1. ASSUME NEW kind \in Openers PROVE OpenAt(now, kind, n + 1) = OpenAt(old, kind, n)
    <3>1. u.name # kind /\ u.name # Closer[kind]
      BY <1>4, NameFacts
    <3>2. OpenAt(now, kind, n + 1) = OpenAt(old, kind, n) + 0 - 0
      BY <3>1, OpenStep DEF Counted
    <3>3. OpenAt(old, kind, n) \in Int
      <4>1. n \in 0 .. n
        BY <1>0
      <4>2. Count(old, kind, n) \in Nat /\ Count(old, Closer[kind], n) \in Nat
        BY <4>1, CountAppended
      <4> QED
        BY <4>2, OpenAtIsCount
    <3> QED
      BY <3>2, <3>3
  <2> QED
    BY <2>1 DEF AllClosed
<1>5. Positions(now, "c") = Positions(old, "c") \union (IF u.name = "c" THEN {n + 1} ELSE {})
  BY <1>0 DEF Positions
<1>6. \A i \in Positions(old, "c") : i \in 1 .. n /\ i \in 0 .. n
  BY <1>0 DEF Positions
<1>7. \A i \in Positions(old, "c") : t[i].number = Count(old, "c", i) /\ AllClosed(old, i)
  BY DEF Numbered
<1>8. Numbered(after) <=>
          \A i \in Positions(now, "c") : after[i].number = Count(now, "c", i) /\ AllClosed(now, i)
  BY DEF Numbered
<1> HIDE DEF now, old, n, after
<1>9. \A i \in Positions(old, "c") : after[i].number = Count(now, "c", i) /\ AllClosed(now, i)
  BY <1>0, <1>1, <1>3, <1>6, <1>7
<1>10. Numbered(after) <=>
           (u.name = "c" => u.number = Count(old, "c", n) + 1 /\ AllClosed(old, n))
  <2>1. CASE u.name = "c"
    <3>1. Positions(now, "c") = Positions(old, "c") \union {n + 1}
      BY <1>5, <2>1
    <3>2. Numbered(after) <=> after[n + 1].number = Count(now, "c", n + 1) /\ AllClosed(now, n + 1)
      BY <1>8, <1>9, <3>1
    <3> QED
      BY <2>1, <3>2, <1>0, <1>2, <1>4
  <2>2. CASE u.name # "c"
    <3>1. Positions(now, "c") = Positions(old, "c")
      BY <1>5, <2>2
    <3> QED
      BY <1>8, <1>9, <2>2, <3>1
  <2> QED
    BY <2>1, <2>2
<1> QED
  BY <1>10 DEF old, n, after

LEMMA VersedStep ==
    ASSUME NEW t \in Seq(Token), NEW u \in Token, Versed(t)
    PROVE  Versed(Append(t, u)) <=> (u.name = "v" => u.number # 0 /\ u.text # "none")
<1> DEFINE now == NamesOf(Append(t, u))
           old == NamesOf(t)
           n == Len(t)
           after == Append(t, u)
<1>0. /\ n \in Nat /\ DOMAIN old = 1 .. n /\ DOMAIN now = 1 .. n + 1
      /\ \A i \in 1 .. n : now[i] = old[i] /\ after[i] = t[i]
      /\ now[n + 1] = u.name /\ after[n + 1] = u
  BY TextFacts, AppendedFacts DEF Listed
<1>1. Positions(now, "v") = Positions(old, "v") \union (IF u.name = "v" THEN {n + 1} ELSE {})
  BY <1>0 DEF Positions
<1>2. \A i \in Positions(old, "v") : after[i].number # 0 /\ after[i].text # "none"
  <2>1. \A i \in Positions(old, "v") : t[i].number # 0 /\ t[i].text # "none" /\ i \in 1 .. n
    BY <1>0 DEF Versed, Positions
  <2> QED
    BY <2>1, <1>0
<1>3. Versed(after) <=> \A i \in Positions(now, "v") : after[i].number # 0 /\ after[i].text # "none"
  BY DEF Versed
<1> HIDE DEF now, old, n, after
<1>4. Versed(after) <=> (u.name = "v" => u.number # 0 /\ u.text # "none")
  BY <1>0, <1>1, <1>2, <1>3
<1> QED
  BY <1>4 DEF after

LEMMA PlainStep ==
    ASSUME NEW t \in Seq(Token), NEW u \in Token, Plain(t)
    PROVE  Plain(Append(t, u)) <=> u.text # "cr"
<1> DEFINE n == Len(t)
           after == Append(t, u)
<1>0. /\ n \in Nat /\ DOMAIN t = 1 .. n /\ DOMAIN after = 1 .. n + 1
      /\ \A i \in 1 .. n : after[i] = t[i]
      /\ after[n + 1] = u
  BY TextFacts, AppendedFacts
<1>1. n + 1 \in 1 .. n + 1 /\ \A i \in 1 .. n + 1 : i \in 1 .. n \/ i = n + 1
  BY <1>0
<1>2. \A i \in 1 .. n : t[i].text # "cr"
  BY <1>0 DEF Plain
<1>3. Plain(after) <=> \A i \in 1 .. n + 1 : after[i].text # "cr"
  BY <1>0 DEF Plain
<1> HIDE DEF n, after
<1>4. Plain(after) <=> u.text # "cr"
  BY <1>0, <1>1, <1>2, <1>3
<1> QED
  BY <1>4 DEF after

\* What a marker must be for a viable text to go on.
GoesOn(t, u, open) ==
    /\ Len(t) # MAX_MARKERS_PER_BOOK
    /\ u.text # "cr"
    /\ IF Positions(NamesOf(t), "c") = {}
       THEN \/ u.name \in HeaderNames
            \/ u.name = "c" /\ Len(t) = 7 /\ SubSeq(NamesOf(t), 1, 7) \in CanonicalHeaders
       ELSE u.name \in BodyNames \union {"c"}
    /\ u.name = "c" => u.number = Count(NamesOf(t), "c", Len(t)) + 1 /\ open = {}
    /\ u.name = "v" => u.number # 0 /\ u.text # "none"
    /\ Nests(u.name, open)

LEMMA ViableStep ==
    ASSUME NEW t \in Seq(Token), NEW u \in Token, NEW open, OpenIn(t, open), Viable(t)
    PROVE  Viable(Append(t, u)) <=> GoesOn(t, u, open)
<1>1. /\ Len(t) <= MAX_MARKERS_PER_BOOK /\ Plain(t) /\ Structured(t)
      /\ Numbered(t) /\ Versed(t) /\ WellNested(NamesOf(t))
  BY ViableParts
<1>2. MAX_MARKERS_PER_BOOK \in Nat /\ Len(t) \in Nat /\ Len(Append(t, u)) = Len(t) + 1
  BY ConstantsAssumption, TextFacts, AppendedFacts
<1>3. Len(Append(t, u)) <= MAX_MARKERS_PER_BOOK <=> Len(t) # MAX_MARKERS_PER_BOOK
  BY <1>1, <1>2
<1>4. AllClosed(NamesOf(t), Len(t)) <=> open = {}
  <2>1. \A kind \in Openers : OpenAt(NamesOf(t), kind, Len(t)) = 0 <=> kind \notin open
    BY DEF OpenIn, Counted
  <2> QED
    BY <2>1 DEF OpenIn, AllClosed
<1>5. Plain(Append(t, u)) <=> u.text # "cr"
  BY <1>1, PlainStep
<1>6. Versed(Append(t, u)) <=> (u.name = "v" => u.number # 0 /\ u.text # "none")
  BY <1>1, VersedStep
<1>7. WellNested(NamesOf(Append(t, u))) <=> Nests(u.name, open)
  BY <1>1, NestingStep
<1>8. Numbered(Append(t, u)) <=>
          (u.name = "c" => u.number = Count(NamesOf(t), "c", Len(t)) + 1 /\ open = {})
  BY <1>1, <1>4, NumberedStep
<1>9. Structured(Append(t, u)) <=>
          IF Positions(NamesOf(t), "c") = {}
          THEN \/ u.name \in HeaderNames
               \/ u.name = "c" /\ Len(t) = 7 /\ SubSeq(NamesOf(t), 1, 7) \in CanonicalHeaders
          ELSE u.name \in BodyNames \union {"c"}
  BY <1>1, StructuredStep
<1> QED
  BY <1>3, <1>5, <1>6, <1>7, <1>8, <1>9, ViableParts DEF GoesOn

-----------------------------------------------------------------------------
(* What the parser keeps of a text.                                        *)

\* The record of the marker at position i of t.
Recorded(t, i) ==
    [marker |-> t[i].name, number |-> IF t[i].name = "v" THEN t[i].number ELSE NoNumber,
     at |-> i, text |-> t[i].text]
\* The position of the marker that opens chapter c of d.
Place(d, c) == MarkersUpTo(d, c - 1) + c

LaidChapter(d, t, c) ==
    /\ d.chapters[c].number = c
    /\ t[Place(d, c)].name = "c"
    /\ t[Place(d, c)].number = c
    /\ \A i \in 1 .. Len(d.chapters[c].markers) :
           /\ d.chapters[c].markers[i] = Recorded(t, Place(d, c) + i)
           /\ t[Place(d, c) + i].name \in BodyNames
LaidHeaders(d, t) ==
    /\ Len(d.headers) = IF d.chapters = <<>> THEN Len(t) ELSE 7
    /\ \A i \in 1 .. Len(d.headers) : /\ d.headers[i] = Recorded(t, i)
                                      /\ t[i].name \in HeaderNames
\* The records of d are those of t, each in its chapter.
LaidOut(d, t) ==
    /\ Shaped(d)
    /\ LaidHeaders(d, t)
    /\ Len(t) = MarkersUpTo(d, Len(d.chapters)) + Len(d.chapters)
    /\ \A c \in 1 .. Len(d.chapters) : LaidChapter(d, t, c)

ParseState == [bom : BOOLEAN, headers : Seq(Rec), chapters : Seq(Chapter),
               open : SUBSET Openers, markers : Nat, verses : Nat]
Parsing(p, t) ==
    /\ p \in ParseState
    /\ LaidOut(p, t)
    /\ OpenIn(t, p.open)
    /\ p.markers = Len(t)
    /\ p.verses = Count(NamesOf(t), "v", Len(t))
    /\ Len(p.chapters) = Count(NamesOf(t), "c", Len(t))

LEMMA ShapedFacts ==
    ASSUME NEW d, Shaped(d)
    PROVE  /\ Len(d.chapters) \in Nat /\ DOMAIN d.chapters = 1 .. Len(d.chapters)
           /\ Len(d.headers) \in Nat /\ DOMAIN d.headers = 1 .. Len(d.headers)
           /\ d.chapters = <<>> <=> Len(d.chapters) = 0
           /\ \A c \in 1 .. Len(d.chapters) :
                  /\ d.chapters[c] \in Chapter
                  /\ Len(d.chapters[c].markers) \in Nat
                  /\ DOMAIN d.chapters[c].markers = 1 .. Len(d.chapters[c].markers)
                  /\ d.chapters[c].markers \in Seq(Rec)
                  /\ \A i \in 1 .. Len(d.chapters[c].markers) : d.chapters[c].markers[i] \in Rec
           /\ \A i \in 1 .. Len(d.headers) : d.headers[i] \in Rec
<1>1. d.headers \in Seq(Rec) /\ d.chapters \in Seq(Chapter)
  BY DEF Shaped
<1>2. /\ Len(d.chapters) \in Nat /\ DOMAIN d.chapters = 1 .. Len(d.chapters)
      /\ Len(d.headers) \in Nat /\ DOMAIN d.headers = 1 .. Len(d.headers)
      /\ d.chapters = <<>> <=> Len(d.chapters) = 0
      /\ \A i \in 1 .. Len(d.headers) : d.headers[i] \in Rec
  BY <1>1
<1>3. ASSUME NEW c \in 1 .. Len(d.chapters)
      PROVE  /\ d.chapters[c] \in Chapter
             /\ Len(d.chapters[c].markers) \in Nat
             /\ DOMAIN d.chapters[c].markers = 1 .. Len(d.chapters[c].markers)
             /\ d.chapters[c].markers \in Seq(Rec)
             /\ \A i \in 1 .. Len(d.chapters[c].markers) : d.chapters[c].markers[i] \in Rec
  <2>1. d.chapters[c] \in Chapter
    BY <1>1
  <2>2. d.chapters[c].markers \in Seq(Rec)
    BY <2>1 DEF Chapter
  <2> QED
    BY <2>1, <2>2
<1> QED
  BY <1>2, <1>3

\* Where the chapters of a text lie.
LEMMA PlacesInText ==
    ASSUME NEW d, NEW t \in Seq(Token), LaidOut(d, t), NEW c \in 1 .. Len(d.chapters)
    PROVE  /\ Place(d, c) \in 8 .. Len(t)
           /\ Place(d, c) + Len(d.chapters[c].markers) = MarkersUpTo(d, c) + c
           /\ Place(d, c) + Len(d.chapters[c].markers) <= Len(t)
           /\ Len(t) \in Nat
<1> DEFINE k == Len(d.chapters)
<1>1. Shaped(d) /\ Len(t) = MarkersUpTo(d, k) + k /\ Len(d.headers) = 7 /\ k \in Nat /\ Len(t) \in Nat
  <2>1. Shaped(d)
    BY DEF LaidOut
  <2>2. d.chapters # <<>> /\ k \in Nat
    BY <2>1, ShapedFacts
  <2> QED
    BY <2>1, <2>2, TextFacts DEF LaidOut, LaidHeaders
<1> HIDE DEF k
<1>2. c \in 1 .. k /\ c - 1 \in 0 .. k /\ c \in 0 .. k /\ k \in c .. k /\ c - 1 \in 0 .. k /\ 0 \in 0 .. k
  BY <1>1 DEF k
<1>3. /\ MarkersUpTo(d, c) = MarkersUpTo(d, c - 1) + Len(d.chapters[c].markers)
      /\ MarkersUpTo(d, c - 1) \in Nat /\ MarkersUpTo(d, c) \in Nat /\ MarkersUpTo(d, k) \in Nat
      /\ Len(d.chapters[c].markers) \in Nat
      /\ MarkersUpTo(d, 0) = 7
  <2>1. /\ \A b \in 0 .. k : MarkersUpTo(d, b) \in Nat
        /\ MarkersUpTo(d, 0) = Len(d.headers)
        /\ \A b \in 1 .. k : /\ Len(d.chapters[b].markers) \in Nat
                            /\ MarkersUpTo(d, b) = MarkersUpTo(d, b - 1) + Len(d.chapters[b].markers)
    BY <1>1, MarkersUpToEquations DEF k
  <2> QED
    BY <1>1, <1>2, <2>1
<1>4. MarkersUpTo(d, c) <= MarkersUpTo(d, k)
  BY <1>1, <1>2, MarkersUpToGrows DEF k
<1>5. 7 <= MarkersUpTo(d, c - 1)
  BY <1>1, <1>2, <1>3, MarkersUpToGrows DEF k
<1> DEFINE before == MarkersUpTo(d, c - 1)
           upto == MarkersUpTo(d, c)
           all == MarkersUpTo(d, k)
           size == Len(d.chapters[c].markers)
<1>6. /\ Place(d, c) = before + c /\ upto = before + size /\ Len(t) = all + k
      /\ before \in Nat /\ size \in Nat /\ all \in Nat /\ upto <= all /\ 7 <= before
      /\ c \in 1 .. k /\ k \in Nat /\ Len(t) \in Nat
  BY <1>1, <1>2, <1>3, <1>4, <1>5 DEF Place
<1> HIDE DEF before, upto, all, size
<1>7. /\ Place(d, c) \in 8 .. Len(t)
      /\ Place(d, c) + size = upto + c
      /\ Place(d, c) + size <= Len(t)
      /\ Len(t) \in Nat
  BY ONLY <1>6
<1> QED
  BY <1>7 DEF size, upto

\* A chapter that stays as it is stays laid out.
LEMMA LaidChapterKept ==
    ASSUME NEW d, NEW t \in Seq(Token), LaidOut(d, t), NEW c \in 1 .. Len(d.chapters),
           NEW e, e.chapters[c] = d.chapters[c], Place(e, c) = Place(d, c), NEW u \in Token
    PROVE  LaidChapter(e, Append(t, u), c)
<1>1. /\ Place(d, c) \in 8 .. Len(t) /\ Len(t) \in Nat
      /\ Place(d, c) + Len(d.chapters[c].markers) <= Len(t)
  BY PlacesInText
<1>2. Len(d.chapters[c].markers) \in Nat
  BY ShapedFacts DEF LaidOut
<1>3. \A i \in 1 .. Len(t) : Append(t, u)[i] = t[i]
  BY AppendedFacts
<1>4. LaidChapter(d, t, c)
  BY DEF LaidOut
<1>5. ASSUME NEW i \in 1 .. Len(d.chapters[c].markers)
      PROVE  Append(t, u)[Place(d, c) + i] = t[Place(d, c) + i]
  <2>1. Place(d, c) + i \in 1 .. Len(t)
    BY <1>1, <1>2
  <2> QED
    BY <2>1, <1>3
<1>6. Append(t, u)[Place(d, c)] = t[Place(d, c)]
  BY <1>1, <1>3
<1> QED
  BY <1>4, <1>5, <1>6 DEF LaidChapter, Recorded

LEMMA CanonicalIsSeven ==
    ASSUME NEW h \in CanonicalHeaders
    PROVE  DOMAIN h = 1 .. 7
<1>1. PICK title \in {"mt", "mt1"} : h = <<"id", "ide", "h", "toc1", "toc2", "toc3", title>>
  BY DEF CanonicalHeaders
<1>2. DOMAIN <<"id", "ide", "h", "toc1", "toc2", "toc3", title>> = 1 .. 7
  OBVIOUS
<1> QED
  BY <1>1, <1>2

\* The headers kept are the first markers of the text.
LEMMA HeadersKept ==
    ASSUME NEW d, NEW t \in Seq(Token), LaidOut(d, t)
    PROVE  Names(d.headers) \in CanonicalHeaders <=>
               Len(d.headers) = 7 /\ Len(t) >= 7 /\ SubSeq(NamesOf(t), 1, 7) \in CanonicalHeaders
<1>1. /\ Shaped(d) /\ Len(d.headers) \in Nat /\ DOMAIN d.headers = 1 .. Len(d.headers)
      /\ \A i \in 1 .. Len(d.headers) : d.headers[i] = Recorded(t, i)
  BY ShapedFacts DEF LaidOut, LaidHeaders
<1>2. DOMAIN Names(d.headers) = 1 .. Len(d.headers)
  BY <1>1 DEF Names
<1>3. ASSUME NEW i \in 1 .. Len(d.headers) PROVE Names(d.headers)[i] = t[i].name
  <2>1. Names(d.headers)[i] = d.headers[i].marker
    BY <1>1 DEF Names
  <2>2. Recorded(t, i).marker = t[i].name
    BY DEF Recorded
  <2> QED
    BY <1>1, <2>1, <2>2
<1>4. Names(d.headers) \in CanonicalHeaders => Len(d.headers) = 7
  <2> SUFFICES ASSUME Names(d.headers) \in CanonicalHeaders PROVE Len(d.headers) = 7
    OBVIOUS
  <2>1. 1 .. Len(d.headers) = 1 .. 7
    BY <1>2, CanonicalIsSeven
  <2>2. 7 \in 1 .. Len(d.headers)
    BY <2>1
  <2>3. Len(d.headers) \in 1 .. Len(d.headers)
    BY <1>1, <2>2
  <2>4. Len(d.headers) \in 1 .. 7
    BY <2>1, <2>3
  <2> QED
    BY <1>1, <2>2, <2>4
<1>5. ASSUME Len(d.headers) = 7
      PROVE  Len(t) >= 7 /\ Names(d.headers) = SubSeq(NamesOf(t), 1, 7)
  <2>1. Len(t) >= 7
    <3>1. CASE d.chapters = <<>>
      <4>1. LaidHeaders(d, t)
        BY DEF LaidOut
      <4> DEFINE a == Len(d.headers)
                 b == Len(t)
      <4>2. a = b /\ a = 7
        BY <1>5, <3>1, <4>1 DEF LaidHeaders
      <4> HIDE DEF a, b
      <4>3. b >= 7
        BY ONLY <4>2
      <4> QED
        BY <4>3 DEF b
    <3>2. CASE d.chapters # <<>>
      <4>1. 1 \in 1 .. Len(d.chapters)
        BY <1>1, <3>2, ShapedFacts
      <4>2. Place(d, 1) \in 8 .. Len(t) /\ Len(t) \in Nat
        BY <4>1, PlacesInText
      <4> QED
        BY <4>2
    <3> QED
      BY <3>1, <3>2
  <2> DEFINE a == Names(d.headers)
             b == SubSeq(NamesOf(t), 1, 7)
  <2>2. b \in Seq(Word) /\ Len(b) = 7 /\ \A i \in 1 .. 7 : b[i] = NamesOf(t)[i]
    BY <2>1, NamesAreStrings
  <2>3. ASSUME NEW i \in 1 .. 7 PROVE NamesOf(t)[i] = t[i].name /\ t[i].name \in Word
    <3>1. i \in 1 .. Len(t)
      BY <2>1, TextFacts
    <3>2. NamesOf(t)[i] = t[i].name /\ t[i] \in Token
      BY <3>1, TextFacts
    <3> QED
      BY <3>2 DEF Token
  <2>4. \A i \in 1 .. 7 : a[i] = t[i].name
    BY <1>3, <1>5
  <2>5. a \in Seq(Word) /\ Len(a) = 7
    <3>1. DOMAIN a = 1 .. 7
      BY <1>2, <1>5
    <3>2. a = [i \in 1 .. 7 |-> a[i]]
      BY <3>1 DEF Names
    <3> HIDE DEF a
    <3>3. \A i \in 1 .. 7 : a[i] \in Word
      BY <2>3, <2>4
    <3>4. a \in [1 .. 7 -> Word]
      BY ONLY <3>2, <3>3
    <3>5. \A m \in Nat : \A x \in [1 .. m -> Word] : x \in Seq(Word) /\ Len(x) = m
      OBVIOUS
    <3> QED
      BY ONLY <3>4, <3>5
  <2> HIDE DEF a, b
  <2>6. Len(a) = Len(b) /\ \A i \in 1 .. Len(a) : a[i] = b[i]
    BY <2>2, <2>3, <2>4, <2>5
  <2>7. a = b
    BY ONLY <2>2, <2>5, <2>6, SeqEqual
  <2> QED
    BY <2>1, <2>7 DEF a, b
<1> QED
  BY <1>4, <1>5

LEMMA NoChapterYet ==
    ASSUME NEW p, NEW t \in Seq(Token), Parsing(p, t)
    PROVE  p.chapters = <<>> <=> Positions(NamesOf(t), "c") = {}
<1>1. Len(p.chapters) = Cardinality(Positions(NamesOf(t), "c")) /\ Shaped(p)
  <2>1. Listed(NamesOf(t), Len(t))
    BY TextFacts
  <2> QED
    BY <2>1, CountStep DEF Parsing, LaidOut
<1>2. IsFiniteSet(Positions(NamesOf(t), "c"))
  <2>1. Positions(NamesOf(t), "c") \subseteq 1 .. Len(t)
    BY TextFacts DEF Positions, Listed
  <2>2. IsFiniteSet(1 .. Len(t))
    BY TextFacts, FS_Interval
  <2> QED
    BY <2>1, <2>2, FS_Subset
<1>3. Cardinality(Positions(NamesOf(t), "c")) = 0 <=> Positions(NamesOf(t), "c") = {}
  BY <1>2, FS_EmptySet
<1> QED
  BY <1>1, <1>3, ShapedFacts

\* The errors of the parser's loop.
MarkerErrors == {<<"MalformedUsfm">>, <<"UnsupportedMarker">>, <<"TooManyMarkers">>}

\* The parser's checks are the conditions of the grammar, in another order.
LEMMA MarkerErrorIsGrammar ==
    ASSUME text \in Seq(Token), Parsing(parse, text), Viable(text), NEW u \in Token
    PROVE  /\ MarkerError(u) = <<>> <=> GoesOn(text, u, parse.open)
           /\ MarkerError(u) # <<>> => MarkerError(u) \in MarkerErrors
<1>1. parse.markers = Len(text) /\ LaidOut(parse, text)
  BY DEF Parsing
<1>2. parse.chapters = <<>> <=> Positions(NamesOf(text), "c") = {}
  BY NoChapterYet
<1>3. Names(parse.headers) \in CanonicalHeaders <=>
          (parse.chapters = <<>> => Len(text) = 7 /\ SubSeq(NamesOf(text), 1, 7) \in CanonicalHeaders)
  <2>1. Names(parse.headers) \in CanonicalHeaders <=>
            Len(parse.headers) = 7 /\ Len(text) >= 7 /\ SubSeq(NamesOf(text), 1, 7) \in CanonicalHeaders
    BY <1>1, HeadersKept
  <2>2. CASE parse.chapters = <<>>
    <3>1. Len(parse.headers) = Len(text) /\ Len(text) \in Nat
      BY <1>1, <2>2, TextFacts DEF LaidOut, LaidHeaders
    <3> DEFINE a == Len(parse.headers)
               b == Len(text)
    <3>2. a = b /\ b \in Nat
      BY <3>1
    <3> HIDE DEF a, b
    <3>3. a = 7 /\ b >= 7 <=> b = 7
      BY ONLY <3>2
    <3>4. Len(parse.headers) = 7 /\ Len(text) >= 7 <=> Len(text) = 7
      BY <3>3 DEF a, b
    <3> QED
      BY <2>1, <2>2, <3>4
  <2>3. CASE parse.chapters # <<>>
    <3>1. Len(parse.headers) = 7
      BY <1>1, <2>3 DEF LaidOut, LaidHeaders
    <3>2. Structured(text)
      BY ViableParts
    <3>3. Len(text) >= 8 /\ SubSeq(NamesOf(text), 1, 7) \in CanonicalHeaders
      BY <2>3, <1>2, <3>2 DEF Structured
    <3> QED
      BY <2>1, <2>3, <3>1, <3>3, TextFacts
  <2> QED
    BY <2>2, <2>3
<1>4. OpensChapter(u) <=>
          /\ parse.open = {}
          /\ u.number = Count(NamesOf(text), "c", Len(text)) + 1
          /\ parse.chapters = <<>> => Len(text) = 7 /\ SubSeq(NamesOf(text), 1, 7) \in CanonicalHeaders
  BY <1>3 DEF OpensChapter, Parsing
<1>5. u.name = "c" => Nests(u.name, parse.open) /\ u.name # "v"
  BY NameFacts DEF Nests, FootnoteParts
<1>6. MarkerError(u) = <<>> <=>
          /\ parse.markers # MAX_MARKERS_PER_BOOK
          /\ u.text # "cr"
          /\ u.name = "c" => OpensChapter(u)
          /\ u.name # "c" => /\ u.name \in HeaderNames \union BodyNames
                             /\ parse.chapters = <<>> <=> u.name \in HeaderNames
                             /\ Nests(u.name, parse.open)
                             /\ u.name = "v" => u.text # "none" /\ u.number # 0
  <2>1. \A x : <<x>> # <<>>
    OBVIOUS
  <2> QED
    BY <2>1 DEF MarkerError
<1>7. MarkerError(u) # <<>> => MarkerError(u) \in MarkerErrors
  BY DEF MarkerError, MarkerErrors
<1>8. MarkerError(u) = <<>> <=> GoesOn(text, u, parse.open)
  <2>1. HeaderNames \intersect BodyNames = {} /\ "c" \notin HeaderNames \union BodyNames
    BY NameFacts
  <2>2. CASE u.name = "c"
    BY <2>1, <2>2, <1>1, <1>2, <1>4, <1>5, <1>6 DEF GoesOn
  <2>3. CASE u.name # "c"
    BY <2>1, <2>3, <1>1, <1>2, <1>6 DEF GoesOn
  <2> QED
    BY <2>2, <2>3
<1> QED
  BY <1>7, <1>8

-----------------------------------------------------------------------------
(* A marker more in what the parser keeps.                                 *)

LEMMA RecordedIsRec ==
    ASSUME NEW t \in Seq(Token), NEW i \in 1 .. Len(t)
    PROVE  Recorded(t, i) \in Rec
<1>1. t[i] \in Token /\ i \in Nat
  BY TextFacts
<1>2. t[i].name \in Word /\ t[i].number \in Nat /\ t[i].text \in Word
  BY <1>1 DEF Token
<1> QED
  BY <1>1, <1>2 DEF Recorded, Rec, NoNumber

LEMMA HeaderLaid ==
    ASSUME NEW t \in Seq(Token), NEW u \in Token, u.name \in HeaderNames,
           NEW d, LaidOut(d, t), d.chapters = <<>>,
           NEW e, e.chapters = <<>>,
           e.headers = Append(d.headers, Recorded(Append(t, u), Len(t) + 1))
    PROVE  LaidOut(e, Append(t, u))
<1> DEFINE after == Append(t, u)
           n == Len(t)
           r == Recorded(after, n + 1)
<1>1. /\ n \in Nat /\ after \in Seq(Token) /\ Len(after) = n + 1
      /\ \A i \in 1 .. n : after[i] = t[i]
      /\ after[n + 1] = u
  BY TextFacts, AppendedFacts
<1>2. r \in Rec
  <2>1. n + 1 \in 1 .. Len(after)
    BY <1>1
  <2> QED
    BY <1>1, <2>1, RecordedIsRec
<1>3. /\ d.headers \in Seq(Rec) /\ Len(d.headers) = n
      /\ \A i \in 1 .. n : d.headers[i] = Recorded(t, i) /\ t[i].name \in HeaderNames
  BY DEF LaidOut, LaidHeaders, Shaped
<1> HIDE DEF after, r, n
<1>4. /\ e.headers \in Seq(Rec) /\ Len(e.headers) = n + 1
      /\ \A i \in 1 .. n : e.headers[i] = d.headers[i]
      /\ e.headers[n + 1] = r
  <2>1. e.headers = Append(d.headers, r)
    BY DEF after, n, r
  <2> QED
    BY <1>2, <1>3, <2>1, AppendProperties
<1>5. Shaped(e)
  BY <1>4 DEF Shaped
<1>6. ASSUME NEW i \in 1 .. n + 1
      PROVE  e.headers[i] = Recorded(after, i) /\ after[i].name \in HeaderNames
  <2>1. CASE i \in 1 .. n
    BY <2>1, <1>1, <1>3, <1>4 DEF Recorded
  <2>2. CASE i = n + 1
    BY <2>2, <1>1, <1>4 DEF r
  <2>3. i \in 1 .. n \/ i = n + 1
    BY <1>1
  <2> QED
    BY <2>1, <2>2, <2>3
<1>7. Len(e.chapters) = 0 /\ MarkersUpTo(e, 0) = n + 1
  BY <1>4, <1>5, MarkersUpToEquations
<1>8. LaidHeaders(e, after)
  BY <1>1, <1>4, <1>6 DEF LaidHeaders
<1>9. LaidOut(e, after)
  BY <1>1, <1>5, <1>7, <1>8 DEF LaidOut
<1> QED
  BY <1>9 DEF after

\* The headers of a book with chapters are its first seven markers still.
LEMMA HeadersStay ==
    ASSUME NEW t \in Seq(Token), NEW u \in Token, NEW d, LaidOut(d, t), Len(d.headers) = 7,
           NEW e, e.headers = d.headers, e.chapters # <<>>
    PROVE  LaidHeaders(e, Append(t, u)) /\ 7 <= Len(t)
<1>1. /\ Len(t) \in Nat
      /\ \A i \in 1 .. Len(t) : Append(t, u)[i] = t[i]
  BY TextFacts, AppendedFacts
<1>2. \A i \in 1 .. 7 : d.headers[i] = Recorded(t, i) /\ t[i].name \in HeaderNames
  BY DEF LaidOut, LaidHeaders
<1>3. 7 <= Len(t)
  <2>1. CASE d.chapters = <<>>
    <3>1. Len(d.headers) = Len(t)
      BY <2>1 DEF LaidOut, LaidHeaders
    <3> DEFINE a == Len(d.headers)
               b == Len(t)
    <3>2. a = 7 /\ a = b
      BY <3>1
    <3> HIDE DEF a, b
    <3>3. 7 <= b
      BY ONLY <3>2
    <3> QED
      BY <3>3 DEF b
  <2>2. CASE d.chapters # <<>>
    <3>1. 1 \in 1 .. Len(d.chapters)
      BY <2>2, ShapedFacts DEF LaidOut
    <3>2. Place(d, 1) \in 8 .. Len(t)
      BY <3>1, PlacesInText
    <3> QED
      BY <3>2, <1>1
  <2> QED
    BY <2>1, <2>2
<1>4. ASSUME NEW i \in 1 .. 7
      PROVE  e.headers[i] = Recorded(Append(t, u), i) /\ Append(t, u)[i].name \in HeaderNames
  <2>1. Append(t, u)[i] = t[i]
    BY <1>1, <1>3
  <2> QED
    BY <1>2, <2>1 DEF Recorded
<1> QED
  BY <1>3, <1>4 DEF LaidHeaders

LEMMA ChapterLaid ==
    ASSUME NEW t \in Seq(Token), NEW u \in Token, u.name = "c",
           NEW d, LaidOut(d, t), Len(d.headers) = 7, u.number = Len(d.chapters) + 1,
           NEW e, e.headers = d.headers,
           e.chapters = Append(d.chapters, [number |-> u.number, markers |-> <<>>])
    PROVE  LaidOut(e, Append(t, u))
<1> DEFINE after == Append(t, u)
           n == Len(t)
           k == Len(d.chapters)
           last == [number |-> u.number, markers |-> <<>>]
<1>1. /\ n \in Nat /\ after \in Seq(Token) /\ Len(after) = n + 1
      /\ after[n + 1] = u
  BY TextFacts, AppendedFacts
<1>2. Shaped(d) /\ k \in Nat /\ d.chapters \in Seq(Chapter) /\ d.headers \in Seq(Rec)
  BY ShapedFacts DEF LaidOut, Shaped
<1>3. last \in Chapter /\ Len(last.markers) = 0 /\ last.number = u.number
  BY DEF Token, Chapter
<1> HIDE DEF after, n, last
<1>4. /\ e.chapters \in Seq(Chapter) /\ Len(e.chapters) = k + 1
      /\ \A c \in 1 .. k : e.chapters[c] = d.chapters[c]
      /\ e.chapters[k + 1] = last
  <2>1. e.chapters = Append(d.chapters, last)
    BY DEF last
  <2> QED
    BY <1>2, <1>3, <2>1, AppendProperties
<1> HIDE DEF k
<1>5. Shaped(e)
  BY <1>2, <1>4 DEF Shaped
<1>6. e.chapters # <<>>
  <2>1. Len(<<>>) = 0 /\ k + 1 # 0
    BY <1>2
  <2> QED
    BY <1>4, <2>1
<1>7. LaidHeaders(e, after)
  BY <1>6, HeadersStay DEF after
<1>8. \A c \in 0 .. k : MarkersUpTo(e, c) = MarkersUpTo(d, c)
  <2>1. /\ Len(d.headers) = Len(e.headers) /\ k <= Len(d.chapters) /\ k <= Len(e.chapters)
        /\ \A c \in 1 .. k : Len(d.chapters[c].markers) = Len(e.chapters[c].markers)
    BY <1>2, <1>4 DEF k
  <2> QED
    BY <1>2, <1>5, <2>1, MarkersUpToSame
<1>9. /\ MarkersUpTo(d, k) \in Nat /\ n = MarkersUpTo(d, k) + k
      /\ MarkersUpTo(e, k) = MarkersUpTo(d, k)
      /\ MarkersUpTo(e, k + 1) = MarkersUpTo(e, k)
  <2>1. k \in 0 .. k /\ k + 1 \in 1 .. Len(e.chapters) /\ (k + 1) - 1 = k
    BY <1>2, <1>4
  <2>2. MarkersUpTo(d, k) \in Nat /\ n = MarkersUpTo(d, k) + k
    BY <1>2, <2>1, MarkersUpToEquations DEF LaidOut, k, n
  <2>3. MarkersUpTo(e, k + 1) = MarkersUpTo(e, (k + 1) - 1) + Len(e.chapters[k + 1].markers)
    <3> DEFINE c == k + 1
    <3>1. c \in 1 .. Len(e.chapters)
      BY <2>1
    <3> HIDE DEF c
    <3>2. MarkersUpTo(e, c) = MarkersUpTo(e, c - 1) + Len(e.chapters[c].markers)
      BY <3>1, <1>5, MarkersUpToEquations
    <3> QED
      BY <3>2 DEF c
  <2>4. MarkersUpTo(e, k + 1) = MarkersUpTo(e, k) + 0
    BY <2>1, <2>3, <1>3, <1>4
  <2> QED
    BY <2>1, <2>2, <2>4, <1>8
<1>10. ASSUME NEW c \in 1 .. k PROVE LaidChapter(e, after, c)
  <2>1. c - 1 \in 0 .. k
    BY <1>2
  <2>2. Place(e, c) = Place(d, c) /\ e.chapters[c] = d.chapters[c] /\ c \in 1 .. Len(d.chapters)
    BY <2>1, <1>4, <1>8 DEF Place, k
  <2> QED
    BY <2>2, LaidChapterKept DEF after
<1>11. LaidChapter(e, after, k + 1)
  <2>1. Place(e, k + 1) = n + 1
    <3>1. (k + 1) - 1 = k
      BY <1>2
    <3> QED
      BY <3>1, <1>2, <1>9 DEF Place
  <2>2. e.chapters[k + 1].number = k + 1 /\ Len(e.chapters[k + 1].markers) = 0
    BY <1>3, <1>4 DEF k
  <2>3. after[n + 1].name = "c" /\ after[n + 1].number = k + 1
    BY <1>1 DEF k
  <2>4. 1 .. Len(e.chapters[k + 1].markers) = {}
    <3> DEFINE m == Len(e.chapters[k + 1].markers)
    <3>1. m = 0
      BY <2>2
    <3> HIDE DEF m
    <3>2. 1 .. m = {}
      BY ONLY <3>1
    <3> QED
      BY <3>2 DEF m
  <2> QED
    BY <2>1, <2>2, <2>3, <2>4 DEF LaidChapter
<1>12. Len(after) = MarkersUpTo(e, Len(e.chapters)) + Len(e.chapters)
  <2> DEFINE m == MarkersUpTo(d, k)
  <2>1. MarkersUpTo(e, Len(e.chapters)) = m /\ m \in Nat /\ n = m + k /\ Len(e.chapters) = k + 1
    BY <1>4, <1>9
  <2> HIDE DEF m
  <2> QED
    BY <1>1, <1>2, <2>1
<1>13. \A c \in 1 .. Len(e.chapters) : LaidChapter(e, after, c)
  <2>1. \A c \in 1 .. k + 1 : c \in 1 .. k \/ c = k + 1
    BY <1>2
  <2> QED
    BY <2>1, <1>4, <1>10, <1>11
<1> QED
  BY <1>5, <1>7, <1>12, <1>13 DEF LaidOut, after

LEMMA MarkerLaid ==
    ASSUME NEW t \in Seq(Token), NEW u \in Token, u.name \in BodyNames,
           NEW d, LaidOut(d, t), d.chapters # <<>>,
           NEW e, e.headers = d.headers,
           e.chapters = [d.chapters EXCEPT ![Len(d.chapters)].markers =
                             Append(@, Recorded(Append(t, u), Len(t) + 1))]
    PROVE  LaidOut(e, Append(t, u))
<1> DEFINE after == Append(t, u)
           n == Len(t)
           k == Len(d.chapters)
           r == Recorded(after, n + 1)
           old == d.chapters[k]
           last == [old EXCEPT !.markers = Append(@, r)]
<1>1. /\ n \in Nat /\ after \in Seq(Token) /\ Len(after) = n + 1
      /\ \A i \in 1 .. n : after[i] = t[i]
      /\ after[n + 1] = u
  BY TextFacts, AppendedFacts
<1>2. /\ Shaped(d) /\ k \in Nat /\ k \in 1 .. k /\ d.chapters \in Seq(Chapter) /\ d.headers \in Seq(Rec)
      /\ DOMAIN d.chapters = 1 .. k
      /\ old \in Chapter /\ old.markers \in Seq(Rec) /\ Len(old.markers) \in Nat
  <2>1. /\ Shaped(d) /\ k \in Nat /\ k # 0 /\ d.chapters \in Seq(Chapter) /\ d.headers \in Seq(Rec)
        /\ DOMAIN d.chapters = 1 .. k
    BY ShapedFacts DEF LaidOut, Shaped
  <2>2. k \in 1 .. k
    BY <2>1
  <2> QED
    BY <2>1, <2>2, ShapedFacts
<1>3. r \in Rec
  <2>1. n + 1 \in 1 .. Len(after)
    BY <1>1
  <2> QED
    BY <1>1, <2>1, RecordedIsRec
<1>4. e.chapters = [d.chapters EXCEPT ![k] = last]
  OBVIOUS
<1> HIDE DEF after, n, r, old
<1>5. /\ last \in Chapter /\ last.number = old.number
      /\ Len(last.markers) = Len(old.markers) + 1
      /\ \A i \in 1 .. Len(old.markers) : last.markers[i] = old.markers[i]
      /\ last.markers[Len(old.markers) + 1] = r
  <2>1. last.markers = Append(old.markers, r) /\ last.number = old.number
    BY <1>2 DEF Chapter
  <2>2. /\ Append(old.markers, r) \in Seq(Rec)
        /\ Len(Append(old.markers, r)) = Len(old.markers) + 1
        /\ \A i \in 1 .. Len(old.markers) : Append(old.markers, r)[i] = old.markers[i]
        /\ Append(old.markers, r)[Len(old.markers) + 1] = r
    BY <1>2, <1>3, AppendProperties
  <2>4. last \in Chapter
    <3> DEFINE m == Append(old.markers, r)
    <3>1. m \in Seq(Rec) /\ last = [old EXCEPT !.markers = m]
      BY <2>2
    <3> HIDE DEF m, last
    <3> QED
      BY ONLY <3>1, <1>2 DEF Chapter
  <2> HIDE DEF last
  <2> QED
    BY <2>1, <2>2, <2>4
<1> HIDE DEF last
<1>6. /\ e.chapters \in Seq(Chapter) /\ Len(e.chapters) = k
      /\ \A c \in 1 .. k : c # k => e.chapters[c] = d.chapters[c]
      /\ e.chapters[k] = last
  <2>1. k \in 1 .. Len(d.chapters) /\ d.chapters \in Seq(Chapter) /\ last \in Chapter
    BY <1>2, <1>5 DEF k
  <2>2. /\ e.chapters \in Seq(Chapter)
        /\ Len(e.chapters) = Len(d.chapters)
        /\ \A c \in 1 .. Len(d.chapters) : e.chapters[c] = IF c = k THEN last ELSE d.chapters[c]
    BY ONLY <2>1, <1>4, ExceptSeq
  <2> HIDE DEF k
  <2>3. Len(d.chapters) = k /\ k \in 1 .. k
    BY <2>1 DEF k
  <2> QED
    BY ONLY <2>2, <2>3
<1> HIDE DEF k
<1>7. Shaped(e) /\ e.chapters # <<>>
  BY <1>2, <1>6 DEF Shaped
<1>8. LaidHeaders(e, after)
  <2>1. Len(d.headers) = 7
    BY DEF LaidOut, LaidHeaders
  <2> QED
    BY <1>7, <2>1, HeadersStay DEF after
<1>9. \A c \in 0 .. k - 1 : MarkersUpTo(e, c) = MarkersUpTo(d, c)
  <2>1. /\ Len(d.headers) = Len(e.headers) /\ k - 1 \in Nat
        /\ k - 1 <= Len(d.chapters) /\ k - 1 <= Len(e.chapters)
    BY <1>2, <1>6 DEF k
  <2>2. \A c \in 1 .. k - 1 : Len(d.chapters[c].markers) = Len(e.chapters[c].markers)
    BY <1>2, <1>6
  <2> DEFINE m == k - 1
  <2>3. /\ m \in Nat /\ m <= Len(d.chapters) /\ m <= Len(e.chapters)
        /\ \A c \in 1 .. m : Len(d.chapters[c].markers) = Len(e.chapters[c].markers)
    BY <2>1, <2>2
  <2> HIDE DEF m
  <2>4. \A c \in 0 .. m : MarkersUpTo(d, c) = MarkersUpTo(e, c)
    <3>1. Shaped(d) /\ Shaped(e) /\ Len(d.headers) = Len(e.headers)
      BY <1>2, <1>7
    <3> QED
      BY ONLY <3>1, <2>3, MarkersUpToSame
  <2> QED
    BY <2>4 DEF m
<1>10. ASSUME NEW c \in 1 .. k PROVE Place(e, c) = Place(d, c)
  <2>1. c - 1 \in 0 .. k - 1
    BY <1>2
  <2> QED
    BY <2>1, <1>9 DEF Place
<1> DEFINE before == MarkersUpTo(d, k - 1)
           size == Len(old.markers)
<1>11. /\ before \in Nat /\ size \in Nat /\ n = before + size + k
       /\ Place(d, k) = before + k
       /\ MarkersUpTo(e, k) = before + size + 1
  <2>1. k - 1 \in 0 .. k - 1 /\ k - 1 \in 0 .. Len(d.chapters) /\ k \in 1 .. Len(d.chapters)
        /\ k \in 1 .. Len(e.chapters)
    BY <1>2, <1>6 DEF k
  <2>2. before \in Nat /\ MarkersUpTo(d, k) = before + size
    BY <1>2, <2>1, MarkersUpToEquations DEF old
  <2>3. MarkersUpTo(e, k) = MarkersUpTo(e, k - 1) + Len(e.chapters[k].markers)
    BY <1>7, <2>1, MarkersUpToEquations
  <2>4. MarkersUpTo(e, k - 1) = before
    BY <2>1, <1>9
  <2>5. n = MarkersUpTo(d, k) + k
    BY DEF LaidOut, n, k
  <2> HIDE DEF before
  <2> QED
    BY <1>2, <1>5, <1>6, <2>2, <2>3, <2>4, <2>5 DEF Place, before
<1> HIDE DEF before, size
<1>12. ASSUME NEW c \in 1 .. k, c # k PROVE LaidChapter(e, after, c)
  <2>1. Place(e, c) = Place(d, c) /\ e.chapters[c] = d.chapters[c] /\ c \in 1 .. Len(d.chapters)
    BY <1>6, <1>10, <1>12 DEF k
  <2> QED
    BY <2>1, LaidChapterKept DEF after
<1>13. LaidChapter(e, after, k)
  <2> DEFINE p == Place(d, k)
  <2>1. /\ LaidChapter(d, t, k) /\ Place(e, k) = p /\ p \in 1 .. n /\ p + size = n
    <3>1. k \in 1 .. Len(d.chapters)
      BY <1>2 DEF k
    <3> QED
      <4>1. LaidChapter(d, t, k)
        BY <3>1 DEF LaidOut
      <4>2. Place(e, k) = p
        BY <1>2, <1>10
      <4>3. p = before + k
        BY <1>11
      <4>4. n = before + size + k /\ before \in Nat /\ size \in Nat /\ k \in 1 .. k /\ k \in Nat
        BY <1>2, <1>11
      <4> HIDE DEF p
      <4>5. p \in 1 .. n /\ p + size = n
        BY ONLY <4>3, <4>4
      <4> QED
        BY <4>1, <4>2, <4>5
  <2>2. /\ old.number = k /\ t[p].name = "c" /\ t[p].number = k
        /\ \A i \in 1 .. size : old.markers[i] = Recorded(t, p + i) /\ t[p + i].name \in BodyNames
    BY <2>1 DEF LaidChapter, old, size
  <2> HIDE DEF p
  <2>3. after[p] = t[p]
    BY <2>1, <1>1
  <2>4. ASSUME NEW i \in 1 .. size + 1
        PROVE  last.markers[i] = Recorded(after, p + i) /\ after[p + i].name \in BodyNames
    <3>1. CASE i \in 1 .. size
      <4>1. p + i \in 1 .. n
        BY ONLY <2>1, <3>1, <1>1, <1>11
      <4>2. last.markers[i] = Recorded(t, p + i) /\ t[p + i].name \in BodyNames
        BY <2>2, <3>1, <1>5 DEF size
      <4>3. after[p + i] = t[p + i]
        BY <4>1, <1>1
      <4> QED
        BY <4>2, <4>3 DEF Recorded
    <3>2. CASE i = size + 1
      <4>1. p + i = n + 1
        BY <2>1, <3>2, <1>1, <1>11
      <4>2. last.markers[i] = r
        BY <3>2, <1>5 DEF size
      <4> QED
        BY <4>1, <4>2, <1>1 DEF r
    <3> QED
      BY <3>1, <3>2, <1>11
  <2>5. Len(e.chapters[k].markers) = size + 1 /\ e.chapters[k].number = k
    BY <1>5, <1>6, <2>2 DEF size
  <2> QED
    BY <1>6, <2>1, <2>2, <2>3, <2>4, <2>5 DEF LaidChapter
<1>14. Len(after) = MarkersUpTo(e, Len(e.chapters)) + Len(e.chapters)
  BY <1>1, <1>2, <1>6, <1>11
<1>15. \A c \in 1 .. Len(e.chapters) : LaidChapter(e, after, c)
  BY <1>6, <1>12, <1>13
<1> QED
  BY <1>7, <1>8, <1>14, <1>15 DEF LaidOut, after

LEMMA LenOfAppended ==
    ASSUME NEW S, NEW s \in Seq(S), NEW x
    PROVE  Len(Append(s, x)) = Len(s) + 1
OBVIOUS

LEMMA LenOfExcept ==
    ASSUME NEW S, NEW s \in Seq(S), NEW i, NEW x
    PROVE  Len([s EXCEPT ![i] = x]) = Len(s)
OBVIOUS

LEMMA ParsedFields ==
    ASSUME text \in Seq(Token), parse \in ParseState, parse.markers = Len(text), NEW u \in Token
    PROVE  LET e == Parsed(u)
               r == Recorded(Append(text, u), Len(text) + 1) IN
           /\ e.markers = Len(text) + 1
           /\ e.verses = (IF u.name = "v" THEN parse.verses + 1 ELSE parse.verses)
           /\ e.open = StillOpen(u.name, parse.open)
           /\ e.bom = parse.bom
           /\ e.headers = IF u.name \in HeaderNames THEN Append(parse.headers, r) ELSE parse.headers
           /\ e.chapters = IF u.name = "c" THEN Append(parse.chapters, [number |-> u.number, markers |-> <<>>])
                           ELSE IF u.name \in HeaderNames THEN parse.chapters
                           ELSE AddMarker(parse.chapters, r)
           /\ e = [bom |-> e.bom, headers |-> e.headers, chapters |-> e.chapters, open |-> e.open,
                   markers |-> e.markers, verses |-> e.verses]
<1> DEFINE r == Record(u)
           headers == IF u.name \in HeaderNames THEN Append(parse.headers, r) ELSE parse.headers
           chapters == IF u.name = "c" THEN Append(parse.chapters, [number |-> u.number, markers |-> <<>>])
                       ELSE IF u.name \in HeaderNames THEN parse.chapters
                       ELSE AddMarker(parse.chapters, r)
           open == StillOpen(u.name, parse.open)
           markers == parse.markers + 1
           verses == IF u.name = "v" THEN parse.verses + 1 ELSE parse.verses
<1>1. Append(text, u)[Len(text) + 1] = u
  BY AppendedFacts
<1>2. r = Recorded(Append(text, u), Len(text) + 1)
  <2>1. parse.markers + 1 = Len(text) + 1
    OBVIOUS
  <2> QED
    BY <2>1, <1>1 DEF Record, Recorded
<1>3. Parsed(u) = [parse EXCEPT !.markers = markers, !.verses = verses, !.open = open,
                                !.headers = headers, !.chapters = chapters]
  BY DEF Parsed
<1>4. markers = Len(text) + 1
  OBVIOUS
<1> HIDE DEF headers, chapters, open, markers, verses
<1>5. Parsed(u) = [bom |-> parse.bom, headers |-> headers, chapters |-> chapters, open |-> open,
                   markers |-> markers, verses |-> verses]
  BY <1>3 DEF ParseState
<1>6. /\ Parsed(u).markers = markers /\ Parsed(u).verses = verses /\ Parsed(u).open = open
      /\ Parsed(u).bom = parse.bom /\ Parsed(u).headers = headers /\ Parsed(u).chapters = chapters
  BY <1>5
<1>7. Parsed(u) = [bom |-> Parsed(u).bom, headers |-> Parsed(u).headers, chapters |-> Parsed(u).chapters,
                   open |-> Parsed(u).open, markers |-> Parsed(u).markers, verses |-> Parsed(u).verses]
  BY <1>5, <1>6
<1> QED
  BY <1>2, <1>4, <1>6, <1>7 DEF headers, chapters, open, verses

LEMMA IsParseState ==
    ASSUME NEW e,
           e = [bom |-> e.bom, headers |-> e.headers, chapters |-> e.chapters, open |-> e.open,
                markers |-> e.markers, verses |-> e.verses],
           e.bom \in BOOLEAN, e.headers \in Seq(Rec), e.chapters \in Seq(Chapter),
           e.open \in SUBSET Openers, e.markers \in Nat, e.verses \in Nat
    PROVE  e \in ParseState
<1> DEFINE b == e.bom
           h == e.headers
           c == e.chapters
           o == e.open
           m == e.markers
           v == e.verses
<1>1. /\ e = [bom |-> b, headers |-> h, chapters |-> c, open |-> o, markers |-> m, verses |-> v]
      /\ b \in BOOLEAN /\ h \in Seq(Rec) /\ c \in Seq(Chapter) /\ o \in SUBSET Openers
      /\ m \in Nat /\ v \in Nat
  OBVIOUS
<1> HIDE DEF b, h, c, o, m, v
<1>2. [bom |-> b, headers |-> h, chapters |-> c, open |-> o, markers |-> m, verses |-> v] \in ParseState
  BY ONLY <1>1 DEF ParseState
<1> QED
  BY ONLY <1>1, <1>2

\* A marker the parser accepts leaves it with the longer text.
LEMMA ParsingStep ==
    ASSUME text \in Seq(Token), Parsing(parse, text), Viable(text), NEW u \in Token,
           MarkerError(u) = <<>>
    PROVE  Parsing(Parsed(u), Append(text, u)) /\ Viable(Append(text, u))
<1> DEFINE after == Append(text, u)
           n == Len(text)
           e == Parsed(u)
           r == Recorded(after, n + 1)
<1>1. /\ n \in Nat /\ n \in 0 .. n /\ after \in Seq(Token) /\ Len(after) = n + 1
      /\ after[n + 1] = u
  BY TextFacts, AppendedFacts
<1>2. /\ parse \in ParseState /\ LaidOut(parse, text) /\ OpenIn(text, parse.open)
      /\ parse.markers = n
      /\ parse.verses = Count(NamesOf(text), "v", n)
      /\ Len(parse.chapters) = Count(NamesOf(text), "c", n)
  BY DEF Parsing
<1>3. GoesOn(text, u, parse.open)
  BY MarkerErrorIsGrammar
<1>4. Viable(after)
  BY <1>2, <1>3, ViableStep
<1>5. OpenIn(after, StillOpen(u.name, parse.open))
  BY <1>2, <1>3, NestingStep DEF GoesOn
<1>6. Record(u) = r
  <2>1. parse.markers + 1 = n + 1
    BY <1>2
  <2> QED
    BY <2>1, <1>1 DEF Record, Recorded
<1>7. parse.chapters = <<>> <=> Positions(NamesOf(text), "c") = {}
  BY NoChapterYet
<1>8. /\ parse.headers \in Seq(Rec) /\ parse.chapters \in Seq(Chapter) /\ parse.verses \in Nat
      /\ parse.markers \in Nat /\ parse.open \in SUBSET Openers /\ parse.bom \in BOOLEAN
      /\ Len(parse.chapters) \in Nat
  BY <1>2 DEF ParseState
<1>9. /\ e.markers = n + 1
      /\ e.verses = (IF u.name = "v" THEN parse.verses + 1 ELSE parse.verses)
      /\ e.open = StillOpen(u.name, parse.open)
      /\ e.bom = parse.bom
      /\ e.headers = IF u.name \in HeaderNames THEN Append(parse.headers, r) ELSE parse.headers
      /\ e.chapters = IF u.name = "c" THEN Append(parse.chapters, [number |-> u.number, markers |-> <<>>])
                      ELSE IF u.name \in HeaderNames THEN parse.chapters
                      ELSE AddMarker(parse.chapters, r)
      /\ e = [bom |-> e.bom, headers |-> e.headers, chapters |-> e.chapters, open |-> e.open,
              markers |-> e.markers, verses |-> e.verses]
  BY <1>2, ParsedFields
<1>10. /\ Count(NamesOf(after), "v", n + 1) = parse.verses + (IF u.name = "v" THEN 1 ELSE 0)
       /\ Count(NamesOf(after), "c", n + 1) = Len(parse.chapters) + (IF u.name = "c" THEN 1 ELSE 0)
  BY <1>2, CountAppended
<1>11. HeaderNames \intersect BodyNames = {} /\ "c" \notin HeaderNames \union BodyNames /\ "v" \notin HeaderNames
  BY NameFacts
<1> HIDE DEF e, r
<1>12. CASE u.name \in HeaderNames
  <2>1. parse.chapters = <<>> /\ u.name # "c" /\ u.name # "v"
    BY <1>3, <1>7, <1>11, <1>12 DEF GoesOn
  <2>2. e.chapters = <<>> /\ e.headers = Append(parse.headers, r)
    BY <2>1, <1>9, <1>12
  <2>3. LaidOut(e, after)
    BY <2>1, <2>2, <1>2, <1>12, HeaderLaid DEF r
  <2>4. Len(e.chapters) = Len(parse.chapters)
    BY <2>1, <2>2
  <2> HIDE DEF after, n
  <2>5. e \in ParseState
    <3>1. e.headers \in Seq(Rec) /\ e.chapters \in Seq(Chapter)
      BY <2>3 DEF LaidOut, Shaped
    <3>2. e.verses \in Nat /\ e.markers \in Nat /\ e.open \in SUBSET Openers /\ e.bom \in BOOLEAN
      BY <1>1, <1>5, <1>8, <1>9 DEF OpenIn
    <3> QED
      BY <3>1, <3>2, <1>9, IsParseState
  <2>6. e.verses = Count(NamesOf(after), "v", n + 1) /\ Len(e.chapters) = Count(NamesOf(after), "c", n + 1)
    BY <2>1, <2>4, <1>8, <1>9, <1>10
  <2> QED
    BY <2>3, <2>5, <2>6, <1>1, <1>4, <1>5, <1>9 DEF Parsing, after, e
<1>13. CASE u.name = "c"
  <2>1. u.name \notin HeaderNames /\ u.name # "v" /\ u.number = Len(parse.chapters) + 1
    BY <1>2, <1>3, <1>11, <1>13 DEF GoesOn
  <2>2. Len(parse.headers) = 7
    BY <1>2, <1>3, <1>7, <1>11, <1>13 DEF GoesOn, LaidOut, LaidHeaders
  <2>3. /\ e.headers = parse.headers
        /\ e.chapters = Append(parse.chapters, [number |-> u.number, markers |-> <<>>])
    BY <2>1, <1>9, <1>13
  <2>4. LaidOut(e, after)
    BY <2>1, <2>2, <2>3, <1>2, <1>13, ChapterLaid
  <2>5. Len(e.chapters) = Len(parse.chapters) + 1
    BY <1>8, <2>3, LenOfAppended
  <2> HIDE DEF after, n
  <2>6. e \in ParseState
    <3>1. e.headers \in Seq(Rec) /\ e.chapters \in Seq(Chapter)
      BY <2>4 DEF LaidOut, Shaped
    <3>2. e.verses \in Nat /\ e.markers \in Nat /\ e.open \in SUBSET Openers /\ e.bom \in BOOLEAN
      BY <1>1, <1>5, <1>8, <1>9 DEF OpenIn
    <3> QED
      BY <3>1, <3>2, <1>9, IsParseState
  <2>7. e.verses = Count(NamesOf(after), "v", n + 1) /\ Len(e.chapters) = Count(NamesOf(after), "c", n + 1)
    BY <2>1, <2>5, <1>8, <1>9, <1>10, <1>13
  <2> QED
    BY <2>4, <2>6, <2>7, <1>1, <1>4, <1>5, <1>9 DEF Parsing, after, e
<1>14. CASE u.name \in BodyNames
  <2>1. parse.chapters # <<>> /\ u.name # "c" /\ u.name \notin HeaderNames
    BY <1>3, <1>7, <1>11, <1>14 DEF GoesOn
  <2>2. /\ e.headers = parse.headers
        /\ e.chapters = [parse.chapters EXCEPT ![Len(parse.chapters)].markers = Append(@, r)]
    BY <2>1, <1>9 DEF AddMarker
  <2>3. LaidOut(e, after)
    BY <2>1, <2>2, <1>2, <1>14, MarkerLaid DEF r
  <2>4. Len(e.chapters) = Len(parse.chapters)
    BY <1>8, <2>2, LenOfExcept
  <2> HIDE DEF after, n
  <2>5. e \in ParseState
    <3>1. e.headers \in Seq(Rec) /\ e.chapters \in Seq(Chapter)
      BY <2>3 DEF LaidOut, Shaped
    <3>2. e.verses \in Nat /\ e.markers \in Nat /\ e.open \in SUBSET Openers /\ e.bom \in BOOLEAN
      BY <1>1, <1>5, <1>8, <1>9 DEF OpenIn
    <3> QED
      BY <3>1, <3>2, <1>9, IsParseState
  <2>6. e.verses = Count(NamesOf(after), "v", n + 1) /\ Len(e.chapters) = Count(NamesOf(after), "c", n + 1)
    BY <2>1, <2>4, <1>8, <1>9, <1>10
  <2> QED
    BY <2>3, <2>5, <2>6, <1>1, <1>4, <1>5, <1>9 DEF Parsing, after, e
<1> QED
  BY <1>3, <1>12, <1>13, <1>14 DEF GoesOn

LEMMA BookFacts ==
    /\ Len(Books) \in Nat /\ DOMAIN Books = 1 .. Len(Books)
    /\ MAX_CHAPTERS \in Nat /\ MAX_MARKERS_PER_BOOK \in Nat
    /\ \A k \in DOMAIN Books : /\ Books[k].chapters \in 1 .. MAX_CHAPTERS
                               /\ Books[k].verses \in Nat \ {0}
                               /\ Books[k].size \in Nat \ {0}
    /\ \A j, k \in DOMAIN Books : Books[j].file = Books[k].file => j = k
<1> DEFINE B == [id : STRING, file : STRING, chapters : 1 .. MAX_CHAPTERS,
                 verses : Nat \ {0}, size : Nat \ {0}]
<1>1. Books \in Seq(B)
  BY ConstantsAssumption
<1>2. Len(Books) \in Nat /\ DOMAIN Books = 1 .. Len(Books) /\ \A k \in DOMAIN Books : Books[k] \in B
  <2> HIDE DEF B
  <2> QED
    BY ONLY <1>1
<1>3. MAX_CHAPTERS \in Nat /\ MAX_MARKERS_PER_BOOK \in Nat
  BY ConstantsAssumption
<1>4. \A j, k \in DOMAIN Books : Books[j].file = Books[k].file => j = k
  BY ConstantsAssumption
<1>5. \A b \in B : b.chapters \in 1 .. MAX_CHAPTERS /\ b.verses \in Nat \ {0} /\ b.size \in Nat \ {0}
  OBVIOUS
<1> HIDE DEF B
<1> QED
  BY ONLY <1>2, <1>3, <1>4, <1>5

\* What the parser has not seen to before the end of the text.
LEMMA CompleteIsGrammar ==
    ASSUME text \in Seq(Token), Parsing(parse, text), Viable(text),
           Len(artifacts) + 1 \in DOMAIN Books
    PROVE  CompleteBook <=> Complete(text, Current)
<1>1. /\ LaidOut(parse, text) /\ OpenIn(text, parse.open)
      /\ parse.verses = Count(NamesOf(text), "v", Len(text))
      /\ Len(parse.chapters) = Count(NamesOf(text), "c", Len(text))
  BY DEF Parsing
<1>2. /\ Count(NamesOf(text), "v", Len(text)) = Cardinality(Positions(NamesOf(text), "v"))
      /\ Count(NamesOf(text), "c", Len(text)) = Cardinality(Positions(NamesOf(text), "c"))
  <2>1. Listed(NamesOf(text), Len(text))
    BY TextFacts
  <2> QED
    BY <2>1, CountStep
<1>3. Current.chapters \in Nat /\ Current.chapters # 0
  <2> DEFINE k == Len(artifacts) + 1
  <2>1. k \in DOMAIN Books
    OBVIOUS
  <2> HIDE DEF k
  <2>2. Books[k].chapters \in 1 .. MAX_CHAPTERS /\ MAX_CHAPTERS \in Nat
    BY <2>1, BookFacts
  <2> QED
    BY <2>2 DEF Current, k
<1>4. AllClosed(NamesOf(text), Len(text)) <=> parse.open = {}
  <2>1. \A kind \in Openers : OpenAt(NamesOf(text), kind, Len(text)) = 0 <=> kind \notin parse.open
    BY <1>1 DEF OpenIn, Counted
  <2> QED
    BY <2>1, <1>1 DEF OpenIn, AllClosed
<1>5. Names(parse.headers) \in CanonicalHeaders <=>
          /\ Len(parse.headers) = 7
          /\ Len(text) >= 7 /\ SubSeq(NamesOf(text), 1, 7) \in CanonicalHeaders
  BY <1>1, HeadersKept
<1>6. CompleteBook <=>
          /\ parse.open = {} /\ Names(parse.headers) \in CanonicalHeaders
          /\ parse.headers[1].text # "wrong" /\ parse.headers[5].text # "wrong"
          /\ Len(parse.chapters) = Current.chapters
          /\ parse.verses = Current.verses
  BY DEF CompleteBook
<1>7. Complete(text, Current) <=>
          /\ parse.open = {}
          /\ Len(text) >= 7 /\ SubSeq(NamesOf(text), 1, 7) \in CanonicalHeaders
          /\ text[1].text # "wrong" /\ text[5].text # "wrong"
          /\ Len(parse.chapters) = Current.chapters
          /\ parse.verses = Current.verses
  BY <1>1, <1>2, <1>4 DEF Complete
<1>8. ASSUME Len(parse.chapters) = Current.chapters
      PROVE  /\ Len(parse.headers) = 7
             /\ parse.headers[1].text = text[1].text /\ parse.headers[5].text = text[5].text
  <2>1. parse.chapters # <<>>
    BY <1>3, <1>8
  <2>2. /\ Len(parse.headers) = 7
        /\ \A i \in 1 .. Len(parse.headers) : parse.headers[i] = Recorded(text, i)
    BY <1>1, <2>1 DEF LaidOut, LaidHeaders
  <2>3. parse.headers[1] = Recorded(text, 1) /\ parse.headers[5] = Recorded(text, 5)
    BY <2>2
  <2> QED
    BY <2>2, <2>3 DEF Recorded
<1> QED
  BY <1>5, <1>6, <1>7, <1>8

\* The parser begins with the empty text.
LEMMA ParsingBegins ==
    ASSUME NEW b \in BOOLEAN
    PROVE  Parsing([Fresh EXCEPT !.bom = b], <<>>) /\ Viable(<<>>)
<1> DEFINE p == [Fresh EXCEPT !.bom = b]
<1>0. <<>> \in Seq(Token) /\ <<>> \in Seq(Rec) /\ <<>> \in Seq(Chapter) /\ Len(<<>>) = 0
  OBVIOUS
<1>1. /\ p = [bom |-> b, headers |-> <<>>, chapters |-> <<>>, open |-> {}, markers |-> 0, verses |-> 0]
      /\ p \in ParseState
  <2>1. p = [bom |-> b, headers |-> <<>>, chapters |-> <<>>, open |-> {}, markers |-> 0, verses |-> 0]
    <3> DEFINE start == Fresh
    <3>1. start \in ParseState
      BY <1>0 DEF Fresh, ParseState
    <3>2. /\ start.headers = <<>> /\ start.chapters = <<>> /\ start.open = {}
          /\ start.markers = 0 /\ start.verses = 0
      BY DEF Fresh
    <3> HIDE DEF start
    <3>3. [start EXCEPT !.bom = b] = [bom |-> b, headers |-> start.headers, chapters |-> start.chapters,
                                      open |-> start.open, markers |-> start.markers, verses |-> start.verses]
      BY <3>1 DEF ParseState
    <3> QED
      BY <3>2, <3>3 DEF start
  <2> HIDE DEF p
  <2>2. p.headers \in Seq(Rec) /\ p.chapters \in Seq(Chapter) /\ p.open \in SUBSET Openers
    BY <1>0, <2>1
  <2>3. p.bom \in BOOLEAN /\ p.markers \in Nat /\ p.verses \in Nat
    BY <2>1
  <2> QED
    BY <2>1, <2>2, <2>3, IsParseState
<1>2. /\ Listed(NamesOf(<<>>), 0)
      /\ \A name : Count(NamesOf(<<>>), name, 0) = 0 /\ Positions(NamesOf(<<>>), name) = {}
  <2>1. Listed(NamesOf(<<>>), 0)
    BY DEF Listed, NamesOf
  <2>2. \A name : Positions(NamesOf(<<>>), name) = {}
    BY <2>1 DEF Listed, Positions
  <2> QED
    BY <2>1, <2>2, CountStep
<1> HIDE DEF p
<1>3. Shaped(p) /\ Len(p.chapters) = 0 /\ Len(p.headers) = 0
  BY <1>0, <1>1 DEF Shaped
<1>4. MarkersUpTo(p, 0) = 0
  BY <1>3, MarkersUpToEquations
<1>5. LaidOut(p, <<>>)
  <2>1. LaidHeaders(p, <<>>)
    BY <1>0, <1>1 DEF LaidHeaders
  <2>2. 1 .. Len(p.chapters) = {} /\ MarkersUpTo(p, Len(p.chapters)) + Len(p.chapters) = 0
    BY <1>3, <1>4
  <2> QED
    BY <1>0, <1>3, <2>1, <2>2 DEF LaidOut
<1>6. OpenIn(<<>>, p.open)
  BY <1>0, <1>1, <1>2, OpenAtIsCount DEF OpenIn, Counted
<1>7. Parsing(p, <<>>)
  BY <1>0, <1>1, <1>2, <1>3, <1>5, <1>6 DEF Parsing
<1>8. Viable(<<>>)
  <2>1. MAX_MARKERS_PER_BOOK \in Nat
    BY ConstantsAssumption
  <2>2. DOMAIN NamesOf(<<>>) = {} /\ DOMAIN <<>> = {}
    BY <1>2 DEF Listed
  <2> QED
    BY <1>0, <1>2, <2>1, <2>2 DEF Viable, WellNested
<1> QED
  BY <1>7, <1>8 DEF p

\* Books of the same headers and chapters are laid out alike.
LEMMA LaidAlike ==
    ASSUME NEW t, NEW d, LaidOut(d, t), NEW e, Shaped(e),
           e.headers = d.headers, e.chapters = d.chapters
    PROVE  LaidOut(e, t)
<1>1. \A c \in 0 .. Len(d.chapters) : MarkersUpTo(e, c) = MarkersUpTo(d, c)
  <2>1. Len(d.chapters) \in Nat /\ Shaped(d)
    BY ShapedFacts DEF LaidOut
  <2> QED
    BY <2>1, MarkersUpToSame
<1>2. LaidHeaders(e, t)
  BY DEF LaidHeaders, LaidOut
<1>3. Len(d.chapters) \in Nat /\ Len(d.chapters) \in 0 .. Len(d.chapters)
  BY ShapedFacts DEF LaidOut
<1>4. Len(t) = MarkersUpTo(e, Len(e.chapters)) + Len(e.chapters)
  BY <1>1, <1>3 DEF LaidOut
<1>5. ASSUME NEW c \in 1 .. Len(e.chapters) PROVE LaidChapter(e, t, c)
  <2>1. c - 1 \in 0 .. Len(d.chapters) /\ c \in 1 .. Len(d.chapters)
    BY <1>3
  <2>2. Place(e, c) = Place(d, c)
    BY <1>1, <2>1 DEF Place
  <2>3. LaidChapter(d, t, c)
    BY <2>1 DEF LaidOut
  <2> QED
    BY <2>2, <2>3 DEF LaidChapter
<1> QED
  BY <1>2, <1>4, <1>5 DEF LaidOut

LEMMA BookFiles ==
    ASSUME NEW k \in DOMAIN Books
    PROVE  Books[k].file \in STRING
<1> DEFINE B == [id : STRING, file : STRING, chapters : 1 .. MAX_CHAPTERS,
                 verses : Nat \ {0}, size : Nat \ {0}]
<1>1. Books \in Seq(B)
  BY ConstantsAssumption
<1>2. \A b \in B : b.file \in STRING
  OBVIOUS
<1> HIDE DEF B
<1>3. Books[k] \in B
  BY ONLY <1>1, k \in DOMAIN Books
<1> QED
  BY ONLY <1>2, <1>3

-----------------------------------------------------------------------------
(* The import.                                                             *)

Doc == [json : BOOLEAN, metadata : BOOLEAN, bom : BOOLEAN, headers : Seq(Rec), chapters : Seq(Chapter)]
Artifact == [raw : STRING, text : Seq(Token), document : Doc]

\* Every book parsed is the grammar's and keeps its text.
BookKept(a, b) ==
    /\ Viable(a.text) /\ Complete(a.text, b)
    /\ LaidOut(a.document, a.text)
    /\ a.document.json /\ a.document.metadata
    /\ Len(a.document.chapters) = b.chapters
    /\ a.raw = b.file

TextOfLast == IF Len(artifacts) = 0 THEN <<>> ELSE artifacts[Len(artifacts)].text

\* What a failed import says of the text it stopped in.
FailedRightly ==
    CASE error = <<"MalformedUsfm", "end">> -> Viable(text) /\ ~Complete(text, Current)
      [] error \in MarkerErrors -> ~Viable(text)
      [] OTHER -> Complete(text, Books[IF Len(artifacts) = Len(Books) THEN Len(Books)
                                       ELSE Len(artifacts) + 1])

ImportInv ==
    /\ text \in Seq(Token)
    /\ artifacts \in Seq(Artifact)
    /\ Len(artifacts) <= Len(Books)
    /\ \A k \in 1 .. Len(artifacts) : BookKept(artifacts[k], Books[k])
    /\ \A name \in DOMAIN decoded : decoded[name] = name
    /\ phase \notin {"archive", "entries", "failed"} => Files \subseteq DOMAIN decoded
    /\ phase \in {"archive", "entries"} => text = <<>> /\ Len(artifacts) = 0
    /\ phase = "text" => Len(artifacts) < Len(Books) /\ Viable(text) /\ Parsing(parse, text)
    /\ phase = "book" => text = TextOfLast
    /\ phase = "failed" /\ text # <<>> => FailedRightly

\* Each marker a text may hold is a token.
LEMMA TokensAreTokens ==
    ASSUME NEW u \in Tokens \union HeaderTokens
    PROVE  u \in Token
<1> DEFINE T == [name : STRING, number : Nat, text : STRING]
<1>1. Tokens \subseteq T /\ Headers \subseteq Seq(T)
  BY ConstantsAssumption
<1>2. T \subseteq Token
  BY DEF Token, Word
<1> HIDE DEF T
<1>3. u \in T
  <2>1. CASE u \in Tokens
    BY <1>1, <2>1
  <2>2. CASE u \in HeaderTokens
    <3>1. PICK h \in Headers : u \in ToSet(h)
      BY <2>2 DEF HeaderTokens
    <3>2. PICK i \in DOMAIN h : u = h[i]
      BY <3>1 DEF ToSet
    <3>3. h \in Seq(T)
      BY <1>1
    <3> QED
      BY <3>2, <3>3
  <2> QED
    BY <2>1, <2>2
<1> QED
  BY <1>2, <1>3

\* The errors a text may end with are told apart.
LEMMA ErrorsDiffer ==
    /\ <<"MalformedUsfm", "end">> \notin MarkerErrors
    /\ <<"PayloadCapacityExceeded">> \notin MarkerErrors
    /\ <<"PayloadCapacityExceeded">> # <<"MalformedUsfm", "end">>
    /\ <<"CorpusInvariant">> \notin MarkerErrors
    /\ <<"CorpusInvariant">> # <<"MalformedUsfm", "end">>
<1>1. \A x, y, z : <<x>> # <<y, z>>
  BY Len(<<1>>) = 1
<1>2. \A x, y : <<x>> = <<y>> => x = y
  OBVIOUS
<1> QED
  BY <1>1, <1>2 DEF MarkerErrors

LEMMA ImportInit == Init => ImportInv
<1> SUFFICES ASSUME Init PROVE ImportInv
  OBVIOUS
<1>1. <<>> \in Seq(Token) /\ <<>> \in Seq(Artifact) /\ Len(<<>>) = 0 /\ DOMAIN <<>> = {}
  OBVIOUS
<1>2. Len(Books) \in Nat /\ 0 <= Len(Books) /\ 1 .. 0 = {}
  BY BookFacts
<1>3. phase = "archive" /\ decoded = <<>> /\ text = <<>> /\ artifacts = <<>>
  BY DEF Init
<1>4. 1 .. Len(artifacts) = {} /\ DOMAIN decoded = {} /\ Len(artifacts) = 0
  BY <1>1, <1>2, <1>3
<1> QED
  BY <1>1, <1>2, <1>3, <1>4 DEF ImportInv

\* The steps that leave the books as they are.
LEMMA ImportKept ==
    ASSUME ImportInv, UNCHANGED bookVars,
           \A name \in DOMAIN decoded' : decoded'[name] = name,
           phase' \notin {"archive", "entries", "failed"} => Files \subseteq DOMAIN decoded',
           phase' \in {"archive", "entries"} => phase \in {"archive", "entries"},
           phase' # "text",
           phase' = "book" => text = TextOfLast,
           phase' = "failed" /\ text # <<>> => FailedRightly'
    PROVE  ImportInv'
<1>1. text' = text /\ artifacts' = artifacts /\ parse' = parse
  BY DEF bookVars
<1>2. \A k \in 1 .. Len(artifacts') : BookKept(artifacts'[k], Books[k])
  BY <1>1 DEF ImportInv
<1>3. phase' \in {"archive", "entries"} => text' = <<>> /\ Len(artifacts') = 0
  BY <1>1 DEF ImportInv
<1>4. /\ text' \in Seq(Token) /\ artifacts' \in Seq(Artifact) /\ Len(artifacts') <= Len(Books)
      /\ phase' = "book" => text' = TextOfLast'
  BY <1>1 DEF ImportInv, TextOfLast
<1> QED
  BY <1>1, <1>2, <1>3, <1>4 DEF ImportInv

LEMMA ImportStep == ImportInv /\ [Next]_vars => ImportInv'
<1> SUFFICES ASSUME ImportInv, [Next]_vars PROVE ImportInv'
  OBVIOUS
<1>0. /\ text \in Seq(Token) /\ artifacts \in Seq(Artifact) /\ Len(artifacts) <= Len(Books)
      /\ \A k \in 1 .. Len(artifacts) : BookKept(artifacts[k], Books[k])
      /\ \A name \in DOMAIN decoded : decoded[name] = name
      /\ phase \notin {"archive", "entries", "failed"} => Files \subseteq DOMAIN decoded
      /\ phase \in {"archive", "entries"} => text = <<>> /\ Len(artifacts) = 0
      /\ phase = "text" => Len(artifacts) < Len(Books) /\ Viable(text) /\ Parsing(parse, text)
      /\ phase = "book" => text = TextOfLast
      /\ phase = "failed" /\ text # <<>> => FailedRightly
      /\ Len(artifacts) \in Nat /\ Len(Books) \in Nat /\ DOMAIN Books = 1 .. Len(Books)
  BY BookFacts DEF ImportInv
<1>1. ASSUME NEW len, NEW plain \in BOOLEAN, OpenArchive(len, plain) PROVE ImportInv'
  <2>1. /\ phase = "archive" /\ phase' \in {"failed", "entries"}
        /\ UNCHANGED bookVars /\ decoded' = decoded
    BY <1>1 DEF OpenArchive, Fail, Continue, archiveVars
  <2>2. text = <<>>
    BY <2>1, <1>0
  <2> QED
    BY <2>1, <2>2, <1>0, ImportKept
<1>2. ASSUME NEW x \in Entries, ReadEntry(x) PROVE ImportInv'
  <2>1. /\ phase = "entries" /\ phase' \in {"failed", "entries"} /\ UNCHANGED bookVars
    BY <1>2 DEF ReadEntry, Fail
  <2>2. text = <<>>
    BY <2>1, <1>0
  <2>3. \A name \in DOMAIN decoded' : decoded'[name] = name
    <3>1. CASE EntryError(x) # <<>>
      <4>1. decoded' = decoded
        BY <3>1, <1>2 DEF ReadEntry, archiveVars
      <4> QED
        BY <4>1, <1>0
    <3>2. CASE EntryError(x) = <<>>
      <4>1. decoded' = [name \in DOMAIN decoded \union {x.name} |->
                            IF name = x.name THEN x.bytes ELSE decoded[name]]
        BY <3>2, <1>2 DEF ReadEntry
      <4>2. x.name \in Files /\ x.bytes = BookOf(x.name).file
        BY <3>2 DEF EntryError
      <4>3. BookOf(x.name).file = x.name
        <5>1. \E b \in {Books[k] : k \in DOMAIN Books} : b.file = x.name
          BY <4>2 DEF Files
        <5> QED
          BY <5>1 DEF BookOf
      <4> QED
        BY <4>1, <4>2, <4>3, <1>0
    <3> QED
      BY <3>1, <3>2
  <2> QED
    BY <2>1, <2>2, <2>3, <1>0, ImportKept
<1>3. ASSUME FinishEntries PROVE ImportInv'
  <2>1. /\ phase = "entries" /\ phase' \in {"failed", "book"} /\ UNCHANGED bookVars
        /\ phase' = "book" => Files \subseteq DOMAIN decoded
        /\ decoded' = decoded
    BY <1>3 DEF FinishEntries, Fail, Continue, archiveVars
  <2>2. text = <<>> /\ TextOfLast = <<>>
    BY <2>1, <1>0 DEF TextOfLast
  <2> QED
    BY <2>1, <2>2, <1>0, ImportKept
<1>4. ASSUME NEW front \in {"bom", "marker", "no marker", "text first", "long line", "not UTF-8"},
             BeginBook(front)
      PROVE  ImportInv'
  <2>1. /\ phase = "book" /\ Len(artifacts) < Len(Books)
        /\ text' = <<>> /\ parse' = [Fresh EXCEPT !.bom = front = "bom"]
        /\ artifacts' = artifacts /\ decoded' = decoded
        /\ phase' \in {"failed", "text"}
    BY <1>4 DEF BeginBook, Fail, Continue, archiveVars
  <2>2. Parsing(parse', <<>>) /\ Viable(<<>>)
    <3>1. (front = "bom") \in BOOLEAN
      OBVIOUS
    <3> QED
      BY <2>1, <3>1, ParsingBegins
  <2>3. <<>> \in Seq(Token) /\ Files \subseteq DOMAIN decoded
    <3>1. <<>> \in Seq(Token)
      BY ONLY EmptySeq
    <3>2. phase \notin {"archive", "entries", "failed"}
      BY <2>1
    <3> QED
      BY <3>1, <3>2, <1>0
  <2>4. \A k \in 1 .. Len(artifacts') : BookKept(artifacts'[k], Books[k])
    BY <2>1, <1>0
  <2> QED
    BY <2>1, <2>2, <2>3, <2>4, <1>0 DEF ImportInv
<1>5. ASSUME NEW u \in Tokens \union HeaderTokens, ReadMarker(u) PROVE ImportInv'
  <2>0. u \in Token
    BY TokensAreTokens
  <2>1. /\ phase = "text" /\ Len(artifacts) < Len(Books) /\ Viable(text) /\ Parsing(parse, text)
        /\ text' = Append(text, u) /\ artifacts' = artifacts /\ decoded' = decoded
    BY <1>5, <1>0 DEF ReadMarker, archiveVars
  <2>2. /\ text' \in Seq(Token)
        /\ \A k \in 1 .. Len(artifacts') : BookKept(artifacts'[k], Books[k])
        /\ Files \subseteq DOMAIN decoded'
        /\ \A name \in DOMAIN decoded' : decoded'[name] = name
    BY <2>0, <2>1, <1>0, AppendProperties
  <2>3. CASE MarkerError(u) = <<>>
    <3>1. phase' = phase /\ parse' = Parsed(u)
      BY <1>5, <2>3 DEF ReadMarker
    <3>2. Parsing(parse', text') /\ Viable(text')
      BY <2>0, <2>1, <2>3, <3>1, <1>0, ParsingStep
    <3> QED
      BY <2>1, <2>2, <3>1, <3>2, <1>0 DEF ImportInv
  <2>4. CASE MarkerError(u) # <<>>
    <3>1. phase' = "failed" /\ error' = MarkerError(u)
      BY <1>5, <2>4 DEF ReadMarker, Fail
    <3>2. MarkerError(u) \in MarkerErrors /\ ~GoesOn(text, u, parse.open)
      BY <2>0, <2>1, <2>4, <1>0, MarkerErrorIsGrammar
    <3>3. ~Viable(text')
      BY <2>0, <2>1, <3>2, <1>0, ViableStep DEF Parsing
    <3>4. FailedRightly'
      BY <3>1, <3>2, <3>3, ErrorsDiffer DEF FailedRightly
    <3> QED
      BY <2>1, <2>2, <3>1, <3>4, <1>0 DEF ImportInv
  <2> QED
    BY <2>3, <2>4
<1>6. ASSUME NEW fits \in BOOLEAN, EndBook(fits) PROVE ImportInv'
  <2>1. /\ phase = "text" /\ Len(artifacts) < Len(Books) /\ Viable(text) /\ Parsing(parse, text)
        /\ text' = text /\ parse' = parse /\ decoded' = decoded
        /\ Files \subseteq DOMAIN decoded
    BY <1>6, <1>0 DEF EndBook, archiveVars
  <2>2. Len(artifacts) + 1 \in DOMAIN Books /\ Len(artifacts) # Len(Books)
    BY <2>1, <1>0
  <2>3. CompleteBook <=> Complete(text, Current)
    BY <2>1, <2>2, <1>0, CompleteIsGrammar
  <2>4. CASE ~CompleteBook
    <3>1. /\ phase' = "failed" /\ error' = <<"MalformedUsfm", "end">> /\ artifacts' = artifacts
      BY <1>6, <2>4 DEF EndBook, Fail
    <3>2. Current' = Current
      BY <3>1 DEF Current
    <3>3. FailedRightly'
      BY <2>1, <2>3, <2>4, <3>1, <3>2, ErrorsDiffer DEF FailedRightly
    <3>4. \A k \in 1 .. Len(artifacts') : BookKept(artifacts'[k], Books[k])
      BY <3>1, <1>0
    <3> QED
      BY <2>1, <3>1, <3>3, <3>4, <1>0 DEF ImportInv
  <2>5. CASE CompleteBook /\ ~fits
    <3>1. /\ phase' = "failed" /\ error' = <<"PayloadCapacityExceeded">> /\ artifacts' = artifacts
      BY <1>6, <2>5 DEF EndBook, Fail
    <3>2. Complete(text', Books[IF Len(artifacts') = Len(Books) THEN Len(Books) ELSE Len(artifacts') + 1])
      BY <2>1, <2>2, <2>3, <2>5, <3>1 DEF Current
    <3>3. FailedRightly'
      BY <3>1, <3>2, ErrorsDiffer DEF FailedRightly
    <3>4. \A k \in 1 .. Len(artifacts') : BookKept(artifacts'[k], Books[k])
      BY <3>1, <1>0
    <3> QED
      BY <2>1, <3>1, <3>3, <3>4, <1>0 DEF ImportInv
  <2>6. CASE CompleteBook /\ fits
    <3> DEFINE a == [raw |-> decoded[Current.file], text |-> text, document |-> Document]
               n == Len(artifacts)
    <3>1. phase' = "book" /\ artifacts' = Append(artifacts, a)
      BY <1>6, <2>6 DEF EndBook, Continue
    <3>2. /\ Document \in Doc /\ Document.json /\ Document.metadata
          /\ Document.headers = parse.headers /\ Document.chapters = parse.chapters
      <4>1. parse.headers \in Seq(Rec) /\ parse.chapters \in Seq(Chapter) /\ parse.bom \in BOOLEAN
        BY <2>1 DEF Parsing, ParseState
      <4> QED
        BY <4>1 DEF Document, Doc
    <3>3. LaidOut(Document, text)
      <4>1. Shaped(Document) /\ Shaped(parse)
        BY <2>1, <3>2 DEF Shaped, Parsing, LaidOut
      <4>2. LaidOut(parse, text)
        BY <2>1 DEF Parsing
      <4> QED
        BY <3>2, <4>1, <4>2, LaidAlike
    <3>4. decoded[Current.file] = Current.file /\ Current.file \in STRING
      <4>1. Current.file \in Files /\ Current.file \in STRING
        BY <2>2, BookFiles DEF Current, Files
      <4> QED
        BY <4>1, <2>1, <1>0
    <3>5. a \in Artifact
      BY <3>2, <3>4, <1>0 DEF Artifact
    <3>6. BookKept(a, Current)
      <4>1. Len(parse.chapters) = Current.chapters
        BY <2>6 DEF CompleteBook
      <4> QED
        BY <2>1, <2>3, <2>6, <3>2, <3>3, <3>4, <4>1 DEF BookKept
    <3> HIDE DEF a
    <3>7. /\ artifacts' \in Seq(Artifact) /\ Len(artifacts') = n + 1
          /\ \A k \in 1 .. n : artifacts'[k] = artifacts[k]
          /\ artifacts'[n + 1] = a
      BY <3>1, <3>5, <1>0, AppendProperties
    <3>8. a.text = text
      BY DEF a
    <3> HIDE DEF n
    <3>9. n \in Nat /\ n < Len(Books) /\ Current = Books[n + 1]
      BY <2>1, <1>0 DEF n, Current
    <3>10. \A k \in 1 .. Len(artifacts') : BookKept(artifacts'[k], Books[k])
      <4>1. \A k \in 1 .. n + 1 : k \in 1 .. n \/ k = n + 1
        BY <3>9
      <4>2. \A k \in 1 .. n : BookKept(artifacts[k], Books[k])
        BY <1>0 DEF n
      <4> QED
        BY <4>1, <4>2, <3>6, <3>7, <3>9
    <3>11. text' = TextOfLast' /\ Len(artifacts') <= Len(Books)
      BY <2>1, <3>7, <3>8, <3>9, <1>0 DEF TextOfLast
    <3> QED
      BY <2>1, <3>1, <3>7, <3>10, <3>11, <1>0 DEF ImportInv
  <2> QED
    BY <2>4, <2>5, <2>6
<1>7. ASSUME NEW asPinned \in BOOLEAN, Package(asPinned) PROVE ImportInv'
  <2>1. /\ phase = "book" /\ Len(artifacts) = Len(Books) /\ UNCHANGED bookVars /\ decoded' = decoded
        /\ phase' \in {"package", "failed"}
        /\ phase' = "failed" => error' = <<"CorpusInvariant">>
    BY <1>7 DEF Package, Fail, Continue, archiveVars
  <2>2. text' = text /\ artifacts' = artifacts
    BY <2>1 DEF bookVars
  <2>3. ASSUME phase' = "failed", text # <<>> PROVE FailedRightly'
    <3> DEFINE n == Len(Books)
    <3>1. text = artifacts[n].text /\ n \in 1 .. n /\ n \in 1 .. Len(artifacts)
      BY <2>1, <2>3, <1>0 DEF TextOfLast
    <3>2. Complete(text, Books[n])
      BY <3>1, <1>0 DEF BookKept
    <3>3. Complete(text', Books[IF Len(artifacts') = Len(Books) THEN Len(Books) ELSE Len(artifacts') + 1])
      BY <2>1, <2>2, <3>2
    <3> QED
      BY <2>1, <2>3, <3>3, ErrorsDiffer DEF FailedRightly
  <2> QED
    BY <2>1, <2>3, <1>0, ImportKept
<1>8. ASSUME NEW k \in DOMAIN artifacts, Seal(k) \/ SealOther(k) PROVE ImportInv'
  <2>1. phase = "package" /\ phase' = "sealed" /\ UNCHANGED bookVars /\ decoded' = decoded
    BY <1>8 DEF Seal, SealOther, Continue, archiveVars
  <2> QED
    BY <2>1, <1>0, ImportKept
<1>9. ASSUME NEW call \in Calls, Decode(call) PROVE ImportInv'
  <2>1. phase = "sealed" /\ phase' = "shown" /\ UNCHANGED bookVars /\ decoded' = decoded
    BY <1>9 DEF Decode, Continue, archiveVars
  <2> QED
    BY <2>1, <1>0, ImportKept
<1>10. ASSUME UNCHANGED vars PROVE ImportInv'
  <2>1. /\ phase' = phase /\ error' = error /\ text' = text /\ parse' = parse /\ artifacts' = artifacts
        /\ decoded' = decoded
    BY <1>10 DEF vars, bookVars, archiveVars
  <2>2. FailedRightly' <=> FailedRightly
    BY <2>1 DEF FailedRightly, Current
  <2>3. TextOfLast' = TextOfLast
    BY <2>1 DEF TextOfLast
  <2>4. \A k \in 1 .. Len(artifacts') : BookKept(artifacts'[k], Books[k])
    BY <2>1, <1>0
  <2> QED
    BY <2>1, <2>2, <2>3, <2>4, <1>0 DEF ImportInv
<1> QED
  BY <1>1, <1>2, <1>3, <1>4, <1>5, <1>6, <1>7, <1>8, <1>9, <1>10 DEF Next

\* The parser accepts the texts of the grammar and no others, whatever the
\* books, the limits and the order of the entries: it reads on while the text
\* is viable and ends with the complete ones (usfm.rs).
THEOREM ImportTheorem == Spec => []ImportIsTheGrammar
<1>1. ImportInv => ImportIsTheGrammar
  <2> SUFFICES ASSUME ImportInv PROVE ImportIsTheGrammar
    OBVIOUS
  <2>1. phase = "text" => Viable(text)
    BY DEF ImportInv
  <2>2. ASSUME NEW k \in DOMAIN artifacts
        PROVE  Viable(artifacts[k].text) /\ Complete(artifacts[k].text, Books[k])
    <3>1. k \in 1 .. Len(artifacts)
      BY DEF ImportInv
    <3> QED
      BY <3>1 DEF ImportInv, BookKept
  <2>3. phase = "failed" /\ text # <<>> => FailedRightly
    BY DEF ImportInv
  <2> QED
    BY <2>1, <2>2, <2>3 DEF ImportIsTheGrammar, FailedRightly, MarkerErrors
<1> QED
  BY <1>1, ImportInit, ImportStep, PTL DEF Spec
-----------------------------------------------------------------------------
(* The pass over a chapter's markers.                                      *)

\* open holds the kinds the first n names leave open.
LeavesOpen(names, n, open) ==
    /\ open \subseteq Openers
    /\ \A kind \in Openers : OpenAt(names, kind, n) = Counted(kind \in open)

LEMMA NameNests ==
    ASSUME NEW names, NEW n, Listed(names, n), NEW i \in 1 .. n, NEW open, LeavesOpen(names, i - 1, open)
    PROVE  /\ Nests(names[i], open) <=>
                  /\ \A kind \in Openers : OpenAt(names, kind, i) \in {0, 1}
                  /\ names[i] \in FootnoteParts => OpenAt(names, "f", i) = 1
           /\ Nests(names[i], open) => LeavesOpen(names, i, StillOpen(names[i], open))
<1> DEFINE name == names[i]
<1>0. i \in Nat /\ i - 1 \in Nat /\ n \in Nat
  BY DEF Listed
<1>1. ASSUME NEW kind \in Openers
      PROVE  OpenAt(names, kind, i)
               = Counted(kind \in open) + Counted(name = kind) - Counted(name = Closer[kind])
  <2>1. /\ Count(names, kind, i) = Count(names, kind, i - 1) + Counted(name = kind)
        /\ Count(names, kind, i - 1) \in Nat
    BY <1>0, CountStep DEF Counted
  <2>2. /\ Count(names, Closer[kind], i) = Count(names, Closer[kind], i - 1) + Counted(name = Closer[kind])
        /\ Count(names, Closer[kind], i - 1) \in Nat
    BY <1>0, CountStep DEF Counted
  <2>3. Count(names, kind, i - 1) - Count(names, Closer[kind], i - 1) = Counted(kind \in open)
    BY OpenAtIsCount DEF LeavesOpen
  <2>4. Counted(name = kind) \in Nat /\ Counted(name = Closer[kind]) \in Nat
    BY DEF Counted
  <2>5. OpenAt(names, kind, i) = Count(names, kind, i) - Count(names, Closer[kind], i)
    BY OpenAtIsCount
  <2> DEFINE a == Count(names, kind, i - 1)
             b == Count(names, Closer[kind], i - 1)
             x == Counted(name = kind)
             y == Counted(name = Closer[kind])
             z == Counted(kind \in open)
  <2>6. OpenAt(names, kind, i) = (a + x) - (b + y) /\ a - b = z /\ a \in Nat /\ b \in Nat /\ x \in Nat /\ y \in Nat
    BY <2>1, <2>2, <2>3, <2>4, <2>5
  <2> HIDE DEF a, b, x, y, z
  <2>7. OpenAt(names, kind, i) = z + x - y
    BY ONLY <2>6
  <2> QED
    BY <2>7 DEF x, y, z
<1> HIDE DEF name
<1>2. ASSUME NEW kind \in Openers
      PROVE  /\ OpenAt(names, kind, i) \in {0, 1} <=>
                    /\ name = kind => kind \notin open
                    /\ name = Closer[kind] => kind \in open
             /\ kind # Closer[kind]
  <2>1. kind # Closer[kind]
    BY NameFacts
  <2> QED
    BY <2>1, <1>1 DEF Counted
<1>3. Nests(name, open) <=>
          /\ \A kind \in Openers : OpenAt(names, kind, i) \in {0, 1}
          /\ name \in FootnoteParts => "f" \in open
  BY <1>2 DEF Nests
<1>4. name \in FootnoteParts => OpenAt(names, "f", i) = Counted("f" \in open)
  <2>1. name \in FootnoteParts => name # "f" /\ name # Closer["f"]
    BY NameFacts DEF FootnoteParts
  <2>2. "f" \in Openers
    BY DEF Openers
  <2> QED
    BY <2>1, <2>2, <1>1 DEF Counted
<1>5. Nests(name, open) <=>
          /\ \A kind \in Openers : OpenAt(names, kind, i) \in {0, 1}
          /\ name \in FootnoteParts => OpenAt(names, "f", i) = 1
  BY <1>3, <1>4 DEF Counted
<1>6. ASSUME Nests(name, open) PROVE LeavesOpen(names, i, StillOpen(name, open))
  <2>1. StillOpen(name, open) \subseteq Openers
    BY DEF LeavesOpen, StillOpen
  <2>2. ASSUME NEW kind \in Openers
        PROVE  OpenAt(names, kind, i) = Counted(kind \in StillOpen(name, open))
    <3>1. kind \in StillOpen(name, open) <=> (kind \in open \/ name = kind) /\ name # Closer[kind]
      BY DEF StillOpen
    <3>2. (name = kind => kind \notin open) /\ (name = Closer[kind] => kind \in open)
      BY <1>6 DEF Nests
    <3> QED
      BY <3>1, <3>2, <1>1, <1>2 DEF Counted
  <2> QED
    BY <2>1, <2>2 DEF LeavesOpen
<1> QED
  BY <1>5, <1>6 DEF name

\* The body of a chapter up to marker n, as a reader states it.
RecordFine(r) ==
    /\ r.marker \in BodyNames /\ ~Controlled(r)
    /\ r.marker = "v" <=> r.number # NoNumber
VerseFine(m, i) ==
    m[i].marker = "v" =>
        m[i].number > 0 /\ \A j \in 1 .. i - 1 : m[j].marker = "v" => m[j].number < m[i].number
NestFine(names, i) ==
    /\ \A kind \in Openers : OpenAt(names, kind, i) \in {0, 1}
    /\ names[i] \in FootnoteParts => OpenAt(names, "f", i) = 1
FineTo(m, n) ==
    \A i \in 1 .. n : RecordFine(m[i]) /\ VerseFine(m, i) /\ NestFine(Names(m), i)
\* The number of the last verse among the first n markers, which is the largest.
LastVerse(m, n, last) ==
    /\ last \in Nat
    /\ \A j \in 1 .. n : m[j].marker = "v" => m[j].number <= last
    /\ last # 0 <=> \E j \in 1 .. n : m[j].marker = "v"
    /\ last # 0 => \E j \in 1 .. n : m[j].marker = "v" /\ m[j].number = last

PassState == [valid : BOOLEAN, open : SUBSET Openers, last : Int]
Passed(m, n, s) ==
    /\ s \in PassState
    /\ s.valid <=> FineTo(m, n)
    /\ s.valid => LeavesOpen(Names(m), n, s.open) /\ LastVerse(m, n, s.last)

LEMMA NamesListed ==
    ASSUME NEW m \in Seq(Rec)
    PROVE  /\ Len(m) \in Nat /\ DOMAIN m = 1 .. Len(m) /\ Listed(Names(m), Len(m))
           /\ \A i \in 1 .. Len(m) : m[i] \in Rec /\ Names(m)[i] = m[i].marker
BY DEF Names, Listed

LEMMA PassStep ==
    ASSUME NEW m \in Seq(Rec), NEW n \in Nat, n + 1 <= Len(m), NEW s, Passed(m, n, s)
    PROVE  Passed(m, n + 1, BodyStep(s, m[n + 1]))
<1> DEFINE i == n + 1
           r == m[i]
           names == Names(m)
           e == BodyStep(s, r)
<1>1. /\ i \in 1 .. Len(m) /\ i - 1 = n /\ Len(m) \in Nat /\ r \in Rec /\ names[i] = r.marker
      /\ Listed(names, Len(m)) /\ i \in Nat
      /\ \A j \in 1 .. i : j \in 1 .. n \/ j = i
      /\ \A j \in 1 .. n : j \in 1 .. i
      /\ i \in 1 .. i
  <2>1. /\ i \in 1 .. Len(m) /\ i - 1 = n /\ i \in Nat /\ i \in 1 .. i
        /\ \A j \in 1 .. i : j \in 1 .. n \/ j = i
        /\ \A j \in 1 .. n : j \in 1 .. i
    BY NamesListed
  <2> HIDE DEF i
  <2> QED
    BY <2>1, NamesListed
<1>2. /\ s.valid \in BOOLEAN /\ s.open \subseteq Openers /\ s.last \in Int
      /\ s.valid <=> FineTo(m, n)
      /\ s.valid => LeavesOpen(names, n, s.open) /\ LastVerse(m, n, s.last)
  BY DEF Passed, PassState
<1>3. r.marker \in Word /\ r.number \in Int
  BY <1>1 DEF Rec
<1>4. /\ e.valid <=> /\ s.valid /\ ~Controlled(r) /\ r.marker \in BodyNames
                     /\ r.marker = "v" => r.number # NoNumber /\ r.number > s.last
                     /\ Nests(r.marker, s.open)
                     /\ r.marker # "v" => r.number = NoNumber
      /\ e.valid \in BOOLEAN
      /\ e.open = StillOpen(r.marker, s.open)
      /\ e.last = IF r.marker = "v" THEN r.number ELSE s.last
      /\ e = [valid |-> e.valid, open |-> e.open, last |-> e.last]
  BY DEF BodyStep, Ascends
<1> HIDE DEF i, r, names, e
<1>5. e \in PassState
  <2>1. e.open \in SUBSET Openers
    BY <1>2, <1>4 DEF StillOpen
  <2>2. e.last \in Int
    BY <1>2, <1>3, <1>4
  <2> DEFINE a == e.valid
             b == e.open
             c == e.last
  <2>3. e = [valid |-> a, open |-> b, last |-> c] /\ a \in BOOLEAN /\ b \in SUBSET Openers /\ c \in Int
    BY <1>4, <2>1, <2>2
  <2> HIDE DEF a, b, c
  <2>4. [valid |-> a, open |-> b, last |-> c] \in PassState
    BY ONLY <2>3 DEF PassState
  <2> QED
    BY ONLY <2>3, <2>4
<1>6. FineTo(m, i) <=> FineTo(m, n) /\ RecordFine(r) /\ VerseFine(m, i) /\ NestFine(names, i)
  BY <1>1 DEF FineTo, r, names
<1>7. ASSUME s.valid
      PROVE  /\ RecordFine(r) /\ VerseFine(m, i) <=>
                    /\ ~Controlled(r) /\ r.marker \in BodyNames
                    /\ r.marker = "v" => r.number # NoNumber /\ r.number > s.last
                    /\ r.marker # "v" => r.number = NoNumber
  <2>1. LastVerse(m, n, s.last)
    BY <1>2, <1>7
  <2>2. /\ s.last \in Nat
        /\ \A j \in 1 .. n : m[j].marker = "v" => m[j].number <= s.last
        /\ s.last # 0 => \E j \in 1 .. n : m[j].marker = "v" /\ m[j].number = s.last
    BY <2>1 DEF LastVerse
  <2>3. \A j \in 1 .. n : m[j].number \in Int
    <3>1. \A j \in 1 .. n : j \in 1 .. Len(m)
      BY <1>1
    <3> QED
      BY <3>1, NamesListed DEF Rec
  <2>4. VerseFine(m, i) <=> (r.marker = "v" =>
            r.number > 0 /\ \A j \in 1 .. n : m[j].marker = "v" => m[j].number < r.number)
    BY <1>1 DEF VerseFine, r
  <2>5. VerseFine(m, i) <=> (r.marker = "v" => r.number > s.last)
    <3>1. ASSUME r.number > s.last
          PROVE  r.number > 0 /\ \A j \in 1 .. n : m[j].marker = "v" => m[j].number < r.number
      BY ONLY <3>1, <2>2, <2>3, <1>3
    <3>2. ASSUME r.number > 0, \A j \in 1 .. n : m[j].marker = "v" => m[j].number < r.number
          PROVE  r.number > s.last
      <4>1. CASE s.last = 0
        BY <4>1, <3>2
      <4>2. CASE s.last # 0
        <5>1. PICK j \in 1 .. n : m[j].marker = "v" /\ m[j].number = s.last
          BY <2>2, <4>2
        <5> QED
          BY <5>1, <3>2, <2>2, <1>3
      <4> QED
        BY <4>1, <4>2
    <3> QED
      BY <2>4, <3>1, <3>2
  <2>6. RecordFine(r) <=> /\ ~Controlled(r) /\ r.marker \in BodyNames
                          /\ r.marker = "v" => r.number # NoNumber
                          /\ r.marker # "v" => r.number = NoNumber
    BY DEF RecordFine
  <2> QED
    BY <2>5, <2>6
<1>8. ASSUME s.valid
      PROVE  /\ NestFine(names, i) <=> Nests(r.marker, s.open)
             /\ Nests(r.marker, s.open) => LeavesOpen(names, i, e.open)
  <2>1. LeavesOpen(names, i - 1, s.open)
    BY <1>1, <1>2, <1>8
  <2>2. i \in 1 .. Len(m) /\ Listed(names, Len(m)) /\ names[i] = r.marker
    BY <1>1
  <2>3. /\ Nests(names[i], s.open) <=> NestFine(names, i)
        /\ Nests(names[i], s.open) => LeavesOpen(names, i, StillOpen(names[i], s.open))
    BY ONLY <2>1, <2>2, NameNests DEF NestFine
  <2> QED
    BY <2>2, <2>3, <1>4
<1>9. e.valid <=> FineTo(m, i)
  BY <1>2, <1>4, <1>6, <1>7, <1>8
<1>10. ASSUME e.valid PROVE LastVerse(m, i, e.last)
  <2>1. LastVerse(m, n, s.last) /\ (r.marker = "v" => r.number > s.last)
    BY <1>2, <1>4, <1>10
  <2>2. /\ s.last \in Nat
        /\ \A j \in 1 .. n : m[j].marker = "v" => m[j].number <= s.last
        /\ s.last # 0 <=> \E j \in 1 .. n : m[j].marker = "v"
        /\ s.last # 0 => \E j \in 1 .. n : m[j].marker = "v" /\ m[j].number = s.last
    BY <2>1 DEF LastVerse
  <2>3. \A j \in 1 .. n : m[j].number \in Int
    <3>1. \A j \in 1 .. n : j \in 1 .. Len(m)
      BY <1>1
    <3> QED
      BY <3>1, NamesListed DEF Rec
  <2>4. m[i] = r
    BY DEF r
  <2>5. CASE r.marker = "v"
    <3>1. e.last = r.number /\ e.last \in Nat /\ e.last # 0 /\ e.last > s.last
      BY <2>1, <2>2, <2>5, <1>3, <1>4
    <3>2. \A j \in 1 .. i : m[j].marker = "v" => m[j].number <= e.last
      BY <3>1, <2>2, <2>3, <2>4, <1>1
    <3>3. \E j \in 1 .. i : m[j].marker = "v" /\ m[j].number = e.last
      BY <3>1, <2>4, <2>5, <1>1
    <3> QED
      BY <3>1, <3>2, <3>3 DEF LastVerse
  <2>6. CASE r.marker # "v"
    <3>1. e.last = s.last
      BY <2>6, <1>4
    <3>2. \A j \in 1 .. i : m[j].marker = "v" => j \in 1 .. n
      BY <2>4, <2>6, <1>1
    <3>3. \A j \in 1 .. n : j \in 1 .. i
      BY <1>1
    <3> QED
      BY <3>1, <3>2, <3>3, <2>2 DEF LastVerse
  <2> QED
    BY <2>5, <2>6
<1>11. Passed(m, i, e)
  BY <1>2, <1>4, <1>5, <1>8, <1>9, <1>10 DEF Passed, names
<1> QED
  BY <1>11 DEF i, r, e

LEMMA BodyStepState ==
    ASSUME NEW s \in PassState, NEW r \in Rec
    PROVE  BodyStep(s, r) \in PassState
<1> DEFINE e == BodyStep(s, r)
<1>1. s.open \subseteq Openers /\ s.last \in Int /\ r.number \in Int
  BY DEF PassState, Rec
<1>2. /\ e.valid \in BOOLEAN
      /\ e.open = StillOpen(r.marker, s.open)
      /\ e.last = IF r.marker = "v" THEN r.number ELSE s.last
      /\ e = [valid |-> e.valid, open |-> e.open, last |-> e.last]
  BY DEF BodyStep
<1> HIDE DEF e
<1>3. e.open \in SUBSET Openers /\ e.last \in Int
  BY <1>1, <1>2 DEF StillOpen
<1> DEFINE a == e.valid
           b == e.open
           c == e.last
<1>4. e = [valid |-> a, open |-> b, last |-> c] /\ a \in BOOLEAN /\ b \in SUBSET Openers /\ c \in Int
  BY <1>2, <1>3
<1> HIDE DEF a, b, c
<1>5. [valid |-> a, open |-> b, last |-> c] \in PassState
  BY ONLY <1>4 DEF PassState
<1> QED
  BY <1>4, <1>5 DEF e

LEMMA PassBegins ==
    ASSUME NEW m \in Seq(Rec)
    PROVE  Passed(m, 0, [valid |-> TRUE, open |-> {}, last |-> 0])
<1> DEFINE s == [valid |-> TRUE, open |-> {}, last |-> 0]
<1>1. s \in PassState /\ s.valid /\ s.open = {} /\ s.last = 0
  BY DEF PassState
<1> HIDE DEF s
<1>2. FineTo(m, 0)
  BY DEF FineTo
<1>3. LeavesOpen(Names(m), 0, {})
  <2>1. \A name : Count(Names(m), name, 0) = 0
    BY NamesListed, CountStep
  <2> QED
    BY <2>1, OpenAtIsCount DEF LeavesOpen, Counted
<1>4. LastVerse(m, 0, 0)
  BY DEF LastVerse
<1>5. Passed(m, 0, s)
  BY <1>1, <1>2, <1>3, <1>4 DEF Passed
<1> QED
  BY <1>5 DEF s

LEMMA ValidBodyIsFine ==
    ASSUME NEW m \in Seq(Rec)
    PROVE  ValidBody(m) <=> /\ FineTo(m, Len(m))
                            /\ Positions(Names(m), "v") # {}
                            /\ AllClosed(Names(m), Len(m))
<1> DEFINE n == Len(m)
           start == [valid |-> TRUE, open |-> {}, last |-> 0]
           Body(f) == [k \in 0 .. n |-> IF k = 0 THEN start ELSE BodyStep(f[k - 1], m[k])]
           step == [k \in 1 .. n |-> [x \in PassState |-> BodyStep(x, m[k])]]
           after == CHOOSE f : f = Body(f)
<1>1. n \in Nat /\ \A k \in 1 .. n : m[k] \in Rec
  BY NamesListed
<1>2. step \in [1 .. n -> [PassState -> PassState]]
  <2>1. \A k \in 1 .. n : \A x \in PassState : BodyStep(x, m[k]) \in PassState
    BY <1>1, BodyStepState
  <2> QED
    BY <2>1
<1>3. start \in PassState /\ Passed(m, 0, start)
  BY PassBegins DEF Passed
<1>4. ValidBody(m) <=> after[n].valid /\ after[n].open = {} /\ after[n].last # 0
  BY DEF ValidBody
<1> HIDE DEF n, start
<1>5. PICK f : CountsTo(f, PassState, start, step, n)
  <2> HIDE DEF step
  <2> QED
    BY <1>1, <1>2, <1>3, RecursionTo
<1>6. /\ f \in [0 .. n -> PassState] /\ f[0] = start
      /\ \A k \in 1 .. n : f[k] = step[k][f[k - 1]]
  BY <1>5 DEF CountsTo
<1>7. ASSUME NEW k \in 1 .. n PROVE f[k] = BodyStep(f[k - 1], m[k])
  <2>1. k - 1 \in 0 .. n
    BY <1>1
  <2>2. f[k - 1] \in PassState
    BY <1>6, <2>1
  <2> DEFINE x == f[k - 1]
  <2> HIDE DEF x
  <2>3. step[k][x] = BodyStep(x, m[k])
    BY <2>2 DEF x
  <2> QED
    BY <1>6, <2>3 DEF x
<1>8. f = Body(f)
  <2>1. ASSUME NEW k \in 0 .. n PROVE f[k] = IF k = 0 THEN start ELSE BodyStep(f[k - 1], m[k])
    <3>1. k = 0 \/ k \in 1 .. n
      BY <1>1
    <3> QED
      BY <3>1, <1>6, <1>7
  <2> QED
    BY <2>1, <1>6
<1>9. after = Body(after)
  <2> HIDE DEF Body
  <2> QED
    BY <1>8
<1> HIDE DEF after, step
<1>10. \A k \in 0 .. n : after[k] = IF k = 0 THEN start ELSE BodyStep(after[k - 1], m[k])
  BY <1>9
<1> HIDE DEF Body
<1>11. \A k \in Nat : k <= n => Passed(m, k, after[k])
  <2> DEFINE Good == {k \in Nat : k <= n => Passed(m, k, after[k])}
  <2>1. 0 \in Good
    BY <1>1, <1>3, <1>10
  <2>2. ASSUME NEW k \in Nat, k \in Good PROVE k + 1 \in Good
    <3> SUFFICES ASSUME k + 1 <= n PROVE Passed(m, k + 1, after[k + 1])
      OBVIOUS
    <3>1. k + 1 \in 0 .. n /\ k + 1 # 0 /\ (k + 1) - 1 = k /\ k + 1 <= n
      BY <1>1
    <3>2. after[k + 1] = BodyStep(after[k], m[k + 1])
      BY <1>10, <3>1
    <3>3. Passed(m, k, after[k])
      BY <2>2, <1>1
    <3> QED
      BY <3>1, <3>2, <3>3, PassStep DEF n
  <2>3. \A k \in Nat : k \in Good
    <3> HIDE DEF Good
    <3> QED
      BY <2>1, <2>2, Induction
  <2> QED
    BY <2>3
<1> DEFINE end == after[n]
<1>12. Passed(m, n, end)
  BY <1>1, <1>11
<1> HIDE DEF end
<1>13. /\ end.valid <=> FineTo(m, n)
       /\ end.valid => LeavesOpen(Names(m), n, end.open) /\ LastVerse(m, n, end.last)
  BY <1>12 DEF Passed
<1>14. ASSUME end.valid
       PROVE  /\ end.open = {} <=> AllClosed(Names(m), n)
              /\ end.last # 0 <=> Positions(Names(m), "v") # {}
  <2>1. end.open \subseteq Openers /\ \A kind \in Openers : OpenAt(Names(m), kind, n) = 0 <=> kind \notin end.open
    BY <1>13, <1>14 DEF LeavesOpen, Counted
  <2>2. end.last # 0 <=> \E j \in 1 .. n : m[j].marker = "v"
    BY <1>13, <1>14 DEF LastVerse
  <2>3. Positions(Names(m), "v") # {} <=> \E j \in 1 .. n : m[j].marker = "v"
    <3>1. DOMAIN Names(m) = 1 .. n /\ \A j \in 1 .. n : Names(m)[j] = m[j].marker
      BY NamesListed DEF Listed, n
    <3> QED
      BY ONLY <3>1 DEF Positions
  <2> QED
    BY <2>1, <2>2, <2>3 DEF AllClosed
<1> QED
  BY <1>4, <1>13, <1>14 DEF end, n

\* A total the last chapter keeps, every chapter keeps.
LEMMA TotalsKept ==
    ASSUME NEW d, Shaped(d), MarkersUpTo(d, Len(d.chapters)) <= MAX_MARKERS_PER_BOOK,
           NEW c \in 1 .. Len(d.chapters)
    PROVE  MarkersUpTo(d, c) <= MAX_MARKERS_PER_BOOK
<1> DEFINE k == Len(d.chapters)
<1>1. k \in Nat /\ c \in 0 .. k /\ k \in c .. k /\ k \in 0 .. k
  BY ShapedFacts
<1>2. MarkersUpTo(d, c) <= MarkersUpTo(d, k)
  BY <1>1, MarkersUpToGrows
<1>3. MarkersUpTo(d, c) \in Nat /\ MarkersUpTo(d, k) \in Nat /\ MAX_MARKERS_PER_BOOK \in Nat
  BY <1>1, MarkersUpToEquations, BookFacts
<1> DEFINE x == MarkersUpTo(d, c)
           y == MarkersUpTo(d, k)
<1>4. x <= y /\ x \in Nat /\ y \in Nat /\ y <= MAX_MARKERS_PER_BOOK /\ MAX_MARKERS_PER_BOOK \in Nat
  BY <1>2, <1>3
<1> HIDE DEF x, y
<1>5. x <= MAX_MARKERS_PER_BOOK
  BY ONLY <1>4
<1> QED
  BY <1>5 DEF x

\* A chapter's markers as Readable states them.
LEMMA FineIsReadable ==
    ASSUME NEW m \in Seq(Rec)
    PROVE  FineTo(m, Len(m)) <=>
               LET verses == Positions(Names(m), "v") IN
               /\ \A i \in DOMAIN m : /\ m[i].marker \in BodyNames /\ m[i].text # "control"
                                      /\ i \in verses <=> m[i].number # NoNumber
               /\ \A i \in verses : m[i].number > 0 /\ \A j \in verses : i < j => m[i].number < m[j].number
               /\ WellNested(Names(m))
<1> DEFINE n == Len(m)
           names == Names(m)
           verses == Positions(names, "v")
<1>1. /\ n \in Nat /\ DOMAIN m = 1 .. n /\ DOMAIN names = 1 .. n
      /\ \A i \in 1 .. n : names[i] = m[i].marker
  BY NamesListed DEF Listed
<1> HIDE DEF n, names
<1>2. \A i \in 1 .. n : i \in verses <=> m[i].marker = "v"
  BY <1>1 DEF Positions
<1>3. verses \subseteq 1 .. n
  BY <1>1 DEF Positions
<1>4. (\A i \in 1 .. n : RecordFine(m[i])) <=>
          \A i \in DOMAIN m : /\ m[i].marker \in BodyNames /\ m[i].text # "control"
                              /\ i \in verses <=> m[i].number # NoNumber
  BY <1>1, <1>2 DEF RecordFine, Controlled
<1>5. (\A i \in 1 .. n : VerseFine(m, i)) <=>
          \A i \in verses : m[i].number > 0 /\ \A j \in verses : i < j => m[i].number < m[j].number
  <2> HIDE DEF verses
  <2>1. ASSUME \A i \in 1 .. n : VerseFine(m, i), NEW i \in verses
        PROVE  m[i].number > 0 /\ \A j \in verses : i < j => m[i].number < m[j].number
    <3>1. m[i].marker = "v" /\ i \in 1 .. n
      BY <1>2, <1>3
    <3>2. m[i].number > 0
      BY <2>1, <3>1 DEF VerseFine
    <3>3. ASSUME NEW j \in verses, i < j PROVE m[i].number < m[j].number
      <4>1. j \in 1 .. n /\ m[j].marker = "v" /\ i \in 1 .. j - 1
        BY <1>1, <1>2, <1>3, <3>1, <3>3
      <4> QED
        BY <2>1, <3>1, <4>1 DEF VerseFine
    <3> QED
      BY <3>2, <3>3
  <2>2. ASSUME \A i \in verses : m[i].number > 0 /\ \A j \in verses : i < j => m[i].number < m[j].number,
               NEW i \in 1 .. n, m[i].marker = "v"
        PROVE  m[i].number > 0 /\ \A j \in 1 .. i - 1 : m[j].marker = "v" => m[j].number < m[i].number
    <3>1. i \in verses
      BY <1>2, <2>2
    <3>2. ASSUME NEW j \in 1 .. i - 1, m[j].marker = "v" PROVE m[j].number < m[i].number
      <4>1. j \in verses /\ j < i
        BY <1>1, <1>2, <3>2
      <4> QED
        BY <2>2, <3>1, <4>1
    <3> QED
      BY <2>2, <3>1, <3>2
  <2> QED
    BY <2>1, <2>2 DEF VerseFine
<1>6. (\A i \in 1 .. n : NestFine(names, i)) <=> WellNested(names)
  BY <1>1 DEF NestFine, WellNested
<1>7. FineTo(m, n) <=> /\ \A i \in 1 .. n : RecordFine(m[i])
                       /\ \A i \in 1 .. n : VerseFine(m, i)
                       /\ \A i \in 1 .. n : NestFine(names, i)
  BY DEF FineTo, names
<1> QED
  BY <1>4, <1>5, <1>6, <1>7 DEF n, names, verses

\* The bridge shows exactly the readable documents: its one pass over the
\* markers of a chapter with its running total comes to the same
\* (validate_document, validate_body_markers in zion-android).
THEOREM ValidateIsReadable ==
    ASSUME NEW d \in Doc
    PROVE  validate_document(d) <=> Readable(d)
<1>1. Shaped(d)
  BY DEF Doc, Shaped
<1>2. /\ Len(d.chapters) \in Nat /\ DOMAIN d.chapters = 1 .. Len(d.chapters)
      /\ \A c \in 1 .. Len(d.chapters) : d.chapters[c].markers \in Seq(Rec)
      /\ MAX_CHAPTERS \in Nat
  BY <1>1, ShapedFacts, BookFacts
<1>3. ValidHeaders(d) <=>
          /\ Names(d.headers) \in CanonicalHeaders
          /\ \A i \in DOMAIN d.headers : d.headers[i].number = NoNumber /\ d.headers[i].text # "control"
  BY DEF ValidHeaders, Controlled
<1> DEFINE ChapterFine(c) ==
               LET m == d.chapters[c].markers
                   verses == Positions(Names(m), "v") IN
               /\ d.chapters[c].number = c
               /\ verses # {}
               /\ \A i \in DOMAIN m : /\ m[i].marker \in BodyNames /\ m[i].text # "control"
                                      /\ i \in verses <=> m[i].number # NoNumber
               /\ \A i \in verses : m[i].number > 0 /\ \A j \in verses : i < j => m[i].number < m[j].number
               /\ WellNested(Names(m)) /\ AllClosed(Names(m), Len(m))
           ChapterValid(c) ==
               /\ d.chapters[c].number = c
               /\ d.chapters[c].markers # <<>>
               /\ ValidBody(d.chapters[c].markers)
<1>4. ASSUME NEW c \in 1 .. Len(d.chapters) PROVE ChapterFine(c) <=> ChapterValid(c)
  <2> DEFINE m == d.chapters[c].markers
  <2>1. m \in Seq(Rec)
    BY <1>2
  <2> HIDE DEF m
  <2>2. ValidBody(m) <=> /\ FineTo(m, Len(m))
                         /\ Positions(Names(m), "v") # {}
                         /\ AllClosed(Names(m), Len(m))
    BY <2>1, ValidBodyIsFine
  <2>3. FineTo(m, Len(m)) <=>
               LET verses == Positions(Names(m), "v") IN
               /\ \A i \in DOMAIN m : /\ m[i].marker \in BodyNames /\ m[i].text # "control"
                                      /\ i \in verses <=> m[i].number # NoNumber
               /\ \A i \in verses : m[i].number > 0 /\ \A j \in verses : i < j => m[i].number < m[j].number
               /\ WellNested(Names(m))
    BY <2>1, FineIsReadable
  <2>4. Positions(Names(m), "v") # {} => m # <<>>
    <3>1. m = <<>> => Len(m) = 0
      OBVIOUS
    <3>2. Len(m) = 0 => Positions(Names(m), "v") = {}
      <4> DEFINE n == Len(m)
      <4>1. DOMAIN Names(m) = 1 .. n
        BY <2>1, NamesListed DEF Listed
      <4> HIDE DEF n
      <4>2. n = 0 => Positions(Names(m), "v") = {}
        BY ONLY <4>1 DEF Positions
      <4> QED
        BY <4>2 DEF n
    <3> QED
      BY <3>1, <3>2
  <2> QED
    BY <2>2, <2>3, <2>4 DEF m
<1> DEFINE total == MarkersUpTo(d, Len(d.chapters))
<1>5. \/ (\A c \in 1 .. Len(d.chapters) : MarkersUpTo(d, c) <= MAX_MARKERS_PER_BOOK)
         <=> total <= MAX_MARKERS_PER_BOOK
      \/ Len(d.chapters) = 0
  <2>1. Len(d.chapters) # 0 => Len(d.chapters) \in 1 .. Len(d.chapters)
    BY <1>2
  <2>2. total <= MAX_MARKERS_PER_BOOK => \A c \in 1 .. Len(d.chapters) : MarkersUpTo(d, c) <= MAX_MARKERS_PER_BOOK
    BY <1>1, TotalsKept
  <2>3. Len(d.chapters) = 0 => 1 .. Len(d.chapters) = {}
    OBVIOUS
  <2> HIDE DEF total
  <2> QED
    BY <2>1, <2>2, <2>3 DEF total
<1>6. Readable(d) <=>
          /\ d.json /\ d.metadata /\ d.bom
          /\ ValidHeaders(d)
          /\ Len(d.chapters) \in 1 .. MAX_CHAPTERS
          /\ total <= MAX_MARKERS_PER_BOOK
          /\ \A c \in 1 .. Len(d.chapters) : ChapterFine(c)
  BY <1>2, <1>3 DEF Readable
<1>7. validate_document(d) <=>
          /\ d.json /\ d.metadata /\ d.bom
          /\ ValidHeaders(d)
          /\ Len(d.chapters) \in 1 .. MAX_CHAPTERS
          /\ \A c \in 1 .. Len(d.chapters) : MarkersUpTo(d, c) <= MAX_MARKERS_PER_BOOK
          /\ \A c \in 1 .. Len(d.chapters) : ChapterValid(c)
  BY <1>2 DEF validate_document
<1>8. Len(d.chapters) \in 1 .. MAX_CHAPTERS => Len(d.chapters) # 0
  BY <1>2
<1> HIDE DEF ChapterFine, ChapterValid, total
<1> QED
  BY <1>4, <1>5, <1>6, <1>7, <1>8

-----------------------------------------------------------------------------
(* Where the chapters of a whole text lie.                                 *)

\* A viable text with chapters, and the document made of it.
LaidBook(d, t) == t \in Seq(Token) /\ d \in Doc /\ LaidOut(d, t) /\ Viable(t) /\ d.chapters # <<>>

Size(d, c) == Len(d.chapters[c].markers)

LEMMA LaidFacts ==
    ASSUME NEW d, NEW t, LaidBook(d, t)
    PROVE  /\ Shaped(d) /\ Len(t) \in Nat /\ Len(d.chapters) \in Nat \ {0} /\ Len(d.headers) = 7
           /\ MarkersUpTo(d, 0) = 7
           /\ Len(t) = MarkersUpTo(d, Len(d.chapters)) + Len(d.chapters)
           /\ \A c \in 0 .. Len(d.chapters) : MarkersUpTo(d, c) \in Nat
           /\ \A i \in 1 .. 7 : d.headers[i] = Recorded(t, i) /\ t[i].name \in HeaderNames
           /\ \A c \in 1 .. Len(d.chapters) :
                  /\ Place(d, c) \in 8 .. Len(t) /\ Size(d, c) \in Nat
                  /\ Place(d, c) = MarkersUpTo(d, c - 1) + c
                  /\ Place(d, c) + Size(d, c) = MarkersUpTo(d, c) + c
                  /\ Place(d, c) + Size(d, c) <= Len(t)
                  /\ d.chapters[c].number = c /\ d.chapters[c].markers \in Seq(Rec)
                  /\ t[Place(d, c)].name = "c" /\ t[Place(d, c)].number = c
                  /\ \A i \in 1 .. Size(d, c) :
                         /\ d.chapters[c].markers[i] = Recorded(t, Place(d, c) + i)
                         /\ t[Place(d, c) + i].name \in BodyNames
<1>1. /\ t \in Seq(Token) /\ LaidOut(d, t) /\ d.chapters # <<>> /\ Shaped(d) /\ LaidHeaders(d, t)
      /\ Len(t) = MarkersUpTo(d, Len(d.chapters)) + Len(d.chapters)
      /\ \A c \in 1 .. Len(d.chapters) : LaidChapter(d, t, c)
  BY DEF LaidBook, LaidOut
<1>2. Len(t) \in Nat /\ Len(d.chapters) \in Nat \ {0}
  BY <1>1, TextFacts, ShapedFacts
<1>3. Len(d.headers) = 7 /\ \A i \in 1 .. 7 : d.headers[i] = Recorded(t, i) /\ t[i].name \in HeaderNames
  BY <1>1 DEF LaidHeaders
<1>4. /\ MarkersUpTo(d, 0) = 7
      /\ \A c \in 0 .. Len(d.chapters) : MarkersUpTo(d, c) \in Nat
  BY <1>1, <1>3, MarkersUpToEquations
<1>5. ASSUME NEW c \in 1 .. Len(d.chapters)
      PROVE  /\ Place(d, c) \in 8 .. Len(t) /\ Size(d, c) \in Nat
             /\ Place(d, c) = MarkersUpTo(d, c - 1) + c
             /\ Place(d, c) + Size(d, c) = MarkersUpTo(d, c) + c
             /\ Place(d, c) + Size(d, c) <= Len(t)
             /\ d.chapters[c].number = c /\ d.chapters[c].markers \in Seq(Rec)
             /\ t[Place(d, c)].name = "c" /\ t[Place(d, c)].number = c
             /\ \A i \in 1 .. Size(d, c) :
                    /\ d.chapters[c].markers[i] = Recorded(t, Place(d, c) + i)
                    /\ t[Place(d, c) + i].name \in BodyNames
  <2>1. LaidChapter(d, t, c)
    BY <1>1
  <2>2. /\ Place(d, c) \in 8 .. Len(t)
        /\ Place(d, c) + Len(d.chapters[c].markers) = MarkersUpTo(d, c) + c
        /\ Place(d, c) + Len(d.chapters[c].markers) <= Len(t)
    BY <1>1, PlacesInText
  <2>3. Len(d.chapters[c].markers) \in Nat /\ d.chapters[c].markers \in Seq(Rec)
    BY <1>1, ShapedFacts
  <2>4. Place(d, c) = MarkersUpTo(d, c - 1) + c
    BY DEF Place
  <2> QED
    BY <2>1, <2>2, <2>3, <2>4 DEF LaidChapter, Size
<1> QED
  BY <1>1, <1>2, <1>3, <1>4, <1>5

\* A chapter ends before the next begins.
LEMMA PlacesOrdered ==
    ASSUME NEW d, NEW t, LaidBook(d, t),
           NEW b \in 1 .. Len(d.chapters), NEW c \in 1 .. Len(d.chapters), b < c
    PROVE  Place(d, b) + Size(d, b) < Place(d, c)
<1> DEFINE k == Len(d.chapters)
<1>1. k \in Nat /\ Shaped(d)
  BY LaidFacts
<1>2. b \in 0 .. k /\ c - 1 \in 0 .. k /\ c - 1 \in b .. k
  BY <1>1
<1>3. MarkersUpTo(d, b) <= MarkersUpTo(d, c - 1)
  BY <1>1, <1>2, MarkersUpToGrows
<1> DEFINE x == MarkersUpTo(d, b)
           y == MarkersUpTo(d, c - 1)
<1>4. x \in Nat /\ y \in Nat /\ x <= y /\ Place(d, b) + Size(d, b) = x + b /\ Place(d, c) = y + c
  BY <1>2, <1>3, LaidFacts
<1> HIDE DEF x, y, k
<1>5. b \in Nat /\ c \in Nat
  BY <1>1
<1>6. Place(d, b) + Size(d, b) < Place(d, c)
  BY ONLY <1>4, <1>5, b < c
<1> QED
  BY <1>6

\* What comes after the headers is in one of the chapters.
LEMMA PlacesCover ==
    ASSUME NEW d, NEW t, LaidBook(d, t), NEW i \in 8 .. Len(t)
    PROVE  \E c \in 1 .. Len(d.chapters) : \E x \in 0 .. Size(d, c) : i = Place(d, c) + x
<1> DEFINE k == Len(d.chapters)
           In(c) == \E x \in 0 .. Size(d, c) : i = Place(d, c) + x
           End(c) == MarkersUpTo(d, c) + c
           Good == {b \in Nat : b <= k /\ i <= End(b) => \E c \in 1 .. k : In(c)}
<1>0. k \in Nat /\ i \in Nat /\ Len(t) \in Nat /\ i >= 8
  BY LaidFacts
<1>1. 0 \in Good
  <2>1. End(0) = 7
    BY LaidFacts
  <2> HIDE DEF End
  <2> QED
    BY <1>0, <2>1
<1>2. ASSUME NEW b \in Nat, b \in Good PROVE b + 1 \in Good
  <2> SUFFICES ASSUME b + 1 <= k, i <= End(b + 1) PROVE \E c \in 1 .. k : In(c)
    OBVIOUS
  <2>1. CASE i <= End(b)
    BY <2>1, <1>0, <1>2
  <2>2. CASE ~(i <= End(b))
    <3> DEFINE c == b + 1
    <3>1. c \in 1 .. k /\ b \in 0 .. k /\ c - 1 = b
      BY <1>0
    <3> HIDE DEF c
    <3>2. /\ Place(d, c) = MarkersUpTo(d, b) + c /\ Size(d, c) \in Nat
          /\ Place(d, c) + Size(d, c) = End(c) /\ MarkersUpTo(d, b) \in Nat
      BY <3>1, LaidFacts
    <3> DEFINE m == MarkersUpTo(d, b)
               x == i - Place(d, c)
    <3>3. m \in Nat /\ i > m + b /\ i <= Place(d, c) + Size(d, c) /\ Place(d, c) = m + c /\ c = b + 1
          /\ Size(d, c) \in Nat /\ i \in Nat /\ b \in Nat
      BY <3>1, <3>2, <2>2, <1>0 DEF c
    <3> HIDE DEF m, End
    <3>4. x \in 0 .. Size(d, c) /\ i = Place(d, c) + x
      BY ONLY <3>3
    <3> HIDE DEF x
    <3> QED
      BY <3>1, <3>4
  <2> QED
    BY <2>1, <2>2
<1>3. \A b \in Nat : b \in Good
  <2> HIDE DEF Good
  <2> QED
    BY <1>1, <1>2, Induction
<1>4. i <= End(k)
  BY <1>0, LaidFacts
<1>5. k <= k
  BY <1>0
<1> HIDE DEF End
<1>6. \E c \in 1 .. k : In(c)
  BY <1>0, <1>3, <1>4, <1>5
<1> QED
  BY <1>6

\* The marker of a chapter is at its place and nowhere else.
LEMMA ChaptersArePlaces ==
    ASSUME NEW d, NEW t, LaidBook(d, t), NEW i \in 1 .. Len(t)
    PROVE  /\ i \in Positions(NamesOf(t), "c") <=> \E c \in 1 .. Len(d.chapters) : i = Place(d, c)
           /\ i \in Positions(NamesOf(t), "v") => i \in 8 .. Len(t)
<1>1. /\ DOMAIN NamesOf(t) = 1 .. Len(t) /\ NamesOf(t)[i] = t[i].name /\ Len(t) \in Nat
  BY TextFacts DEF LaidBook, Listed
<1>2. \A name : i \in Positions(NamesOf(t), name) <=> t[i].name = name
  BY <1>1 DEF Positions
<1>3. CASE i \in 1 .. 7
  <2>1. t[i].name # "c" /\ t[i].name # "v"
    BY <1>3, LaidFacts, NameFacts
  <2>2. ASSUME NEW c \in 1 .. Len(d.chapters) PROVE i # Place(d, c)
    <3>1. Place(d, c) \in 8 .. Len(t)
      BY LaidFacts
    <3> QED
      BY <3>1, <1>3
  <2> QED
    BY <2>1, <2>2, <1>2
<1>4. CASE i \in 8 .. Len(t)
  <2>1. PICK c \in 1 .. Len(d.chapters) : \E x \in 0 .. Size(d, c) : i = Place(d, c) + x
    BY <1>4, PlacesCover
  <2>2. PICK x \in 0 .. Size(d, c) : i = Place(d, c) + x
    BY <2>1
  <2>3. Place(d, c) \in Nat /\ Size(d, c) \in Nat
    <3>1. Place(d, c) \in 8 .. Len(t) /\ Size(d, c) \in Nat
      BY ONLY LaidBook(d, t), c \in 1 .. Len(d.chapters), LaidFacts
    <3> QED
      BY ONLY <3>1
  <2>4. CASE x = 0
    <3>1. i = Place(d, c) /\ t[i].name = "c"
      BY <2>2, <2>3, <2>4, LaidFacts
    <3> QED
      BY <3>1, <1>2, <1>4
  <2>5. CASE x # 0
    <3>1. x \in 1 .. Size(d, c)
      BY <2>3, <2>5
    <3>2. t[i].name \in BodyNames
      BY <3>1, <2>2, LaidFacts
    <3>3. t[i].name # "c"
      BY <3>2, NameFacts
    <3>4. ASSUME NEW b \in 1 .. Len(d.chapters) PROVE t[Place(d, b)].name = "c"
      BY ONLY LaidBook(d, t), b \in 1 .. Len(d.chapters), LaidFacts
    <3> QED
      BY <3>3, <3>4, <1>2, <1>4
  <2> QED
    BY <2>4, <2>5
<1> QED
  BY <1>1, <1>3, <1>4

\* Two markers with no chapter between them are of one chapter.
OneChapter(t, i, j) == i < j /\ Positions(NamesOf(t), "c") \intersect (i + 1 .. j) = {}

LEMMA TogetherInChapter ==
    ASSUME NEW d, NEW t, LaidBook(d, t), NEW c \in 1 .. Len(d.chapters), NEW x \in 0 .. Size(d, c),
           NEW j \in 1 .. Len(t)
    PROVE  OneChapter(t, Place(d, c) + x, j) <=> \E y \in x + 1 .. Size(d, c) : j = Place(d, c) + y
<1> DEFINE chapters == Positions(NamesOf(t), "c")
           p == Place(d, c)
           i == p + x
           size == Size(d, c)
<1>0. /\ p \in 8 .. Len(t) /\ size \in Nat /\ p + size <= Len(t) /\ Len(t) \in Nat
      /\ x \in 0 .. size /\ p \in Nat /\ x \in Nat
  BY LaidFacts
<1>1. ASSUME NEW y \in x + 1 .. size, j = p + y PROVE i < j /\ chapters \intersect (i + 1 .. j) = {}
  <2>1. ASSUME NEW q \in chapters, q \in i + 1 .. j PROVE FALSE
    <3> DEFINE z == q - p
    <3>1. z \in 1 .. size /\ q = p + z /\ q \in 1 .. Len(t)
      BY <1>0, <1>1, <2>1
    <3> HIDE DEF z
    <3>2. t[q].name \in BodyNames
      BY <3>1, LaidFacts
    <3>3. t[q].name = "c"
      <4>1. t[q].name = NamesOf(t)[q]
        BY <3>1, TextFacts DEF LaidBook
      <4> QED
        BY <4>1, <2>1 DEF Positions
    <3> QED
      BY <3>2, <3>3, NameFacts
  <2> HIDE DEF chapters
  <2> QED
    BY <1>0, <1>1, <2>1
<1>2. ASSUME i < j, chapters \intersect (i + 1 .. j) = {} PROVE \E y \in x + 1 .. size : j = p + y
  <2>0. j \in 8 .. Len(t)
    BY <1>0, <1>2
  <2>1. PICK e \in 1 .. Len(d.chapters) : \E y \in 0 .. Size(d, e) : j = Place(d, e) + y
    BY <2>0, PlacesCover
  <2>2. PICK y \in 0 .. Size(d, e) : j = Place(d, e) + y
    BY <2>1
  <2>3. Place(d, e) \in 8 .. Len(t) /\ Size(d, e) \in Nat
    BY LaidFacts
  <2>4. CASE e = c
    <3>1. y \in x + 1 .. size /\ j = p + y
      BY <1>0, <1>2, <2>2, <2>3, <2>4
    <3> QED
      BY <3>1
  <2>5. CASE e < c
    <3>1. Place(d, e) + Size(d, e) < p
      BY <2>5, PlacesOrdered
    <3> QED
      BY <3>1, <1>0, <1>2, <2>2, <2>3
  <2>6. CASE c < e
    <3>1. p + size < Place(d, e)
      BY <2>6, PlacesOrdered
    <3>2. Place(d, e) \in i + 1 .. j
      BY <3>1, <1>0, <2>2, <2>3
    <3>3. Place(d, e) \in chapters
      BY <2>3, ChaptersArePlaces, <1>0
    <3> QED
      BY <3>2, <3>3, <1>2
  <2> QED
    BY <2>4, <2>5, <2>6
<1> QED
  BY <1>1, <1>2 DEF OneChapter

-----------------------------------------------------------------------------
(* What the reader asks of a chapter, asked of the text.                   *)

LEMMA ChapterNests ==
    ASSUME NEW d, NEW t, LaidBook(d, t), AllClosed(NamesOf(t), Len(t)), NEW c \in 1 .. Len(d.chapters)
    PROVE  LET m == d.chapters[c].markers IN WellNested(Names(m)) /\ AllClosed(Names(m), Len(m))
<1> DEFINE m == d.chapters[c].markers
           names == NamesOf(t)
           part == Names(m)
           s == Place(d, c)
           size == Size(d, c)
           n == Len(t)
           k == Len(d.chapters)
<1>1. /\ n \in Nat /\ Listed(names, n) /\ \A i \in 1 .. n : names[i] = t[i].name
      /\ WellNested(names) /\ \A i \in Positions(names, "c") : AllClosed(names, i)
  BY TextFacts DEF LaidBook, Viable
<1>2. /\ s \in 8 .. n /\ size \in Nat /\ s + size <= n /\ m \in Seq(Rec)
      /\ t[s].name = "c"
      /\ \A i \in 1 .. size : m[i] = Recorded(t, s + i)
      /\ size = Len(m)
  <2>1. /\ s \in 8 .. n /\ size \in Nat /\ s + size <= n /\ m \in Seq(Rec)
        /\ t[s].name = "c"
        /\ \A i \in 1 .. size : m[i] = Recorded(t, s + i)
    BY ONLY LaidBook(d, t), c \in 1 .. Len(d.chapters), LaidFacts
  <2> QED
    BY <2>1 DEF Size
<1>3. Listed(part, size) /\ \A i \in 1 .. size : part[i] = m[i].marker
  BY <1>2, NamesListed
<1>4. AllClosed(names, n)
  OBVIOUS
<1>5. \A q \in 1 .. n : t[q].name = "c" => AllClosed(names, q)
  <2>1. \A q \in 1 .. n : t[q].name = "c" => q \in Positions(names, "c")
    BY <1>1 DEF Positions, Listed
  <2> QED
    BY <1>1, <2>1
<1>6. /\ s + size = MarkersUpTo(d, c) + c
      /\ c < k => c + 1 \in 1 .. k /\ Place(d, c + 1) = s + size + 1
      /\ c = k \/ c < k
      /\ n = MarkersUpTo(d, k) + k
  <2>1. s + size = MarkersUpTo(d, c) + c /\ n = MarkersUpTo(d, k) + k /\ k \in Nat /\ MarkersUpTo(d, c) \in Nat
    <3>1. k \in Nat
      BY LaidFacts
    <3>2. c \in 0 .. k
      BY <3>1
    <3> QED
      BY <3>1, <3>2, LaidFacts
  <2>2. ASSUME c < k PROVE c + 1 \in 1 .. k /\ Place(d, c + 1) = s + size + 1
    <3> DEFINE e == c + 1
    <3>1. e \in 1 .. k /\ e - 1 = c /\ c \in Nat
      BY <2>1, <2>2
    <3> HIDE DEF e
    <3>2. Place(d, e) = MarkersUpTo(d, e - 1) + e
      BY <3>1, LaidFacts
    <3> DEFINE x == MarkersUpTo(d, c)
    <3>3. Place(d, e) = x + e /\ x \in Nat /\ s + size = x + c /\ e = c + 1
      BY <3>1, <3>2, <2>1 DEF e
    <3> HIDE DEF x, s, size
    <3>4. Place(d, e) = s + size + 1
      BY <3>1, <3>3
    <3> QED
      BY <3>1, <3>4 DEF e
  <2> QED
    BY <2>1, <2>2
<1> HIDE DEF m, names, part, s, size, n, k
<1>11. Listed(names, n)
  BY <1>1
<1>12. Listed(part, size)
  BY <1>3
<1>10. \A j \in 1 .. size : part[j] = names[s + j]
  <2> SUFFICES ASSUME NEW j \in 1 .. size PROVE part[j] = names[s + j]
    OBVIOUS
  <2>1. s + j \in 1 .. n
    BY <1>1, <1>2
  <2>0. m[j] = Recorded(t, s + j)
    BY <1>2
  <2>2. m[j].marker = t[s + j].name
    BY ONLY <2>0 DEF Recorded
  <2> QED
    BY <2>1, <2>2, <1>1, <1>3
<1>7. ASSUME NEW kind \in Openers, NEW i \in 0 .. size
      PROVE  OpenAt(part, kind, i) = OpenAt(names, kind, s + i)
  <2>2. s \in Nat /\ s + size <= n /\ s \in 1 .. n
    BY <1>1, <1>2
  <2>3. ASSUME NEW name \in {kind, Closer[kind]}
        PROVE  Count(names, name, s + i) = Count(names, name, s) + Count(part, name, i)
    <3>1. \A j \in 0 .. size : Count(names, name, s + j) = Count(names, name, s) + Count(part, name, j)
      BY ONLY <1>11, <1>12, <1>10, <2>2, CountOn
    <3> QED
      BY <3>1
  <2>4. OpenAt(names, kind, s) = 0
    BY <2>2, <1>2, <1>5 DEF AllClosed
  <2>5. \A name : Count(names, name, s) \in Nat /\ Count(part, name, i) \in Nat
    <3>1. i \in Nat
      BY <1>2
    <3> QED
      BY <2>2, <3>1, <1>1, <1>3, CountStep
  <2> DEFINE a == Count(names, kind, s)
             b == Count(names, Closer[kind], s)
             x == Count(part, kind, i)
             y == Count(part, Closer[kind], i)
  <2>6. /\ OpenAt(names, kind, s + i) = (a + x) - (b + y) /\ OpenAt(part, kind, i) = x - y /\ a - b = 0
        /\ a \in Nat /\ b \in Nat /\ x \in Nat /\ y \in Nat
    BY <2>3, <2>4, <2>5, OpenAtIsCount
  <2> HIDE DEF a, b, x, y
  <2> QED
    BY ONLY <2>6
<1>8. WellNested(part)
  <2>1. \A i \in 1 .. size : s + i \in 1 .. n /\ i \in 0 .. size
    BY <1>1, <1>2
  <2>2. DOMAIN names = 1 .. n /\ DOMAIN part = 1 .. size
    BY <1>1, <1>3 DEF Listed
  <2>3. \A i \in 1 .. size : part[i] = names[s + i]
    BY <1>10
  <2>4. "f" \in Openers
    BY DEF Openers
  <2> QED
    BY <2>1, <2>2, <2>3, <2>4, <1>1, <1>7 DEF WellNested
<1>9. AllClosed(part, size)
  <2> SUFFICES ASSUME NEW kind \in Openers PROVE OpenAt(part, kind, size) = 0
    BY DEF AllClosed
  <2>1. size \in 0 .. size
    BY <1>2
  <2>2. OpenAt(part, kind, size) = OpenAt(names, kind, s + size)
    BY <2>1, <1>7
  <2>3. CASE c = k
    <3>1. s + size = n
      BY <1>6, <2>3
    <3> QED
      BY <3>1, <2>2, <1>4 DEF AllClosed
  <2>4. CASE c < k
    <3> DEFINE e == c + 1
               q == Place(d, e)
    <3>1. e \in 1 .. k /\ q = s + size + 1
      BY <1>6, <2>4
    <3> HIDE DEF e
    <3>2. q \in 8 .. n /\ t[q].name = "c"
      <4>1. e \in 1 .. Len(d.chapters)
        BY <3>1 DEF k
      <4> QED
        BY ONLY LaidBook(d, t), <4>1, LaidFacts DEF n
    <3> HIDE DEF q
    <3>3. q \in 1 .. n /\ q - 1 = s + size /\ q \in Nat
      BY <3>1, <3>2, <1>1, <1>2
    <3>4. OpenAt(names, kind, q) = 0
      BY <3>2, <3>3, <1>5 DEF AllClosed
    <3>5. names[q] # kind /\ names[q] # Closer[kind]
      BY <3>2, <3>3, <1>1, NameFacts
    <3>6. /\ Count(names, kind, q) = Count(names, kind, q - 1)
          /\ Count(names, Closer[kind], q) = Count(names, Closer[kind], q - 1)
      BY ONLY <1>11, <3>3, <3>5, CountNext
    <3>7. \A name : Count(names, name, q - 1) \in Nat
      <4>1. q - 1 \in Nat
        BY <3>3, <1>2
      <4> QED
        BY <4>1, <1>1, CountStep
    <3>8. OpenAt(names, kind, q - 1) = OpenAt(names, kind, q)
      BY <3>6, <3>7, OpenAtIsCount
    <3> QED
      BY <3>3, <3>4, <3>8, <2>2
  <2> QED
    BY <2>3, <2>4, <1>6
<1> QED
  BY <1>2, <1>8, <1>9 DEF part, m, size

\* A chapter of a laid out book as the reader sees it, in terms of the text.
ChapterShows(d, t, c) ==
    /\ \E x \in 1 .. Size(d, c) : t[Place(d, c) + x].name = "v"
    /\ \A x \in 1 .. Size(d, c) : t[Place(d, c) + x].text # "control"
    /\ \A x, y \in 1 .. Size(d, c) :
           t[Place(d, c) + x].name = "v" /\ t[Place(d, c) + y].name = "v" /\ x < y =>
               t[Place(d, c) + x].number < t[Place(d, c) + y].number

LEMMA ChapterIsReadable ==
    ASSUME NEW d, NEW t, LaidBook(d, t), AllClosed(NamesOf(t), Len(t)), NEW c \in 1 .. Len(d.chapters)
    PROVE  (LET m == d.chapters[c].markers
                verses == Positions(Names(m), "v") IN
            /\ d.chapters[c].number = c
            /\ verses # {}
            /\ \A i \in DOMAIN m : /\ m[i].marker \in BodyNames /\ m[i].text # "control"
                                   /\ i \in verses <=> m[i].number # NoNumber
            /\ \A i \in verses : m[i].number > 0 /\ \A j \in verses : i < j => m[i].number < m[j].number
            /\ WellNested(Names(m)) /\ AllClosed(Names(m), Len(m)))
           <=> ChapterShows(d, t, c)
<1> DEFINE m == d.chapters[c].markers
           s == Place(d, c)
           size == Size(d, c)
           verses == Positions(Names(m), "v")
<1>1. /\ s \in 8 .. Len(t) /\ size \in Nat /\ s + size <= Len(t) /\ m \in Seq(Rec) /\ Len(t) \in Nat
      /\ d.chapters[c].number = c
      /\ \A i \in 1 .. size : m[i] = Recorded(t, s + i) /\ t[s + i].name \in BodyNames
      /\ size = Len(m)
  BY LaidFacts DEF Size
<1>2. WellNested(Names(m)) /\ AllClosed(Names(m), Len(m))
  BY ChapterNests
<1> HIDE DEF size, s, m
<1>3. DOMAIN m = 1 .. size /\ DOMAIN Names(m) = 1 .. size /\ \A i \in 1 .. size : Names(m)[i] = m[i].marker
  BY <1>1, NamesListed DEF Listed
<1>4. ASSUME NEW i \in 1 .. size
      PROVE  /\ s + i \in 1 .. Len(t) /\ m[i].marker = t[s + i].name /\ m[i].text = t[s + i].text
             /\ i \in verses <=> t[s + i].name = "v"
             /\ t[s + i].name = "v" => m[i].number = t[s + i].number /\ m[i].number > 0
             /\ t[s + i].name # "v" => m[i].number = NoNumber
             /\ m[i].marker \in BodyNames
             /\ i \in verses <=> m[i].number # NoNumber
  <2>1. s + i \in 1 .. Len(t)
    BY <1>1
  <2>2. m[i] = Recorded(t, s + i) /\ t[s + i].name \in BodyNames
    BY <1>1
  <2>3. m[i].marker = t[s + i].name /\ m[i].text = t[s + i].text
    BY <2>2 DEF Recorded
  <2>4. i \in verses <=> t[s + i].name = "v"
    BY <1>3, <2>3 DEF Positions
  <2>5. t[s + i].number \in Nat
    BY <2>1, TextFacts DEF LaidBook, Token
  <2>6. t[s + i].name = "v" => t[s + i].number # 0
    <3>1. t[s + i].name = "v" => s + i \in Positions(NamesOf(t), "v")
      BY <2>1, TextFacts DEF LaidBook, Positions, Listed
    <3> QED
      BY <3>1 DEF LaidBook, Viable
  <2>7. t[s + i].name = "v" => m[i].number = t[s + i].number
    BY <2>2 DEF Recorded
  <2>8. t[s + i].name # "v" => m[i].number = NoNumber
    BY <2>2 DEF Recorded
  <2>9. i \in verses <=> m[i].number # NoNumber
    BY <2>4, <2>5, <2>7, <2>8 DEF NoNumber
  <2>10. t[s + i].name = "v" => m[i].number > 0
    BY <2>5, <2>6, <2>7
  <2> QED
    BY <2>1, <2>2, <2>3, <2>4, <2>7, <2>8, <2>9, <2>10
<1>5. verses \subseteq 1 .. size
  BY <1>3 DEF Positions
<1> HIDE DEF verses
<1>6. verses # {} <=> \E x \in 1 .. size : t[s + x].name = "v"
  BY <1>4, <1>5
<1>7. (\A i \in DOMAIN m : /\ m[i].marker \in BodyNames /\ m[i].text # "control"
                           /\ i \in verses <=> m[i].number # NoNumber)
      <=> \A x \in 1 .. size : t[s + x].text # "control"
  BY <1>3, <1>4
<1>8. (\A i \in verses : m[i].number > 0 /\ \A j \in verses : i < j => m[i].number < m[j].number)
      <=> \A x, y \in 1 .. size :
              t[s + x].name = "v" /\ t[s + y].name = "v" /\ x < y => t[s + x].number < t[s + y].number
  BY <1>4, <1>5
<1> QED
  BY <1>1, <1>2, <1>6, <1>7, <1>8 DEF ChapterShows, verses, m, s, size

\* Control characters outside the chapter markers are those the records hold.
LEMMA ControlsAreKept ==
    ASSUME NEW d, NEW t, LaidBook(d, t)
    PROVE  (\A i \in DOMAIN t \ Positions(NamesOf(t), "c") : t[i].text # "control") <=>
               /\ \A i \in 1 .. 7 : t[i].text # "control"
               /\ \A c \in 1 .. Len(d.chapters) :
                      \A x \in 1 .. Size(d, c) : t[Place(d, c) + x].text # "control"
<1> DEFINE chapters == Positions(NamesOf(t), "c")
           k == Len(d.chapters)
<1>0. /\ DOMAIN t = 1 .. Len(t) /\ Len(t) \in Nat
      /\ \A i \in 1 .. Len(t) : i \in chapters <=> t[i].name = "c"
  BY TextFacts DEF LaidBook, Positions, Listed
<1>1. \A i \in 1 .. 7 : t[i].name \in HeaderNames
  BY LaidFacts
<1>2. ASSUME NEW c \in 1 .. k
      PROVE  /\ Place(d, c) \in 8 .. Len(t) /\ Size(d, c) \in Nat /\ Place(d, c) + Size(d, c) <= Len(t)
             /\ t[Place(d, c)].name = "c"
             /\ \A x \in 1 .. Size(d, c) : t[Place(d, c) + x].name \in BodyNames
  BY LaidFacts
<1>3. 7 <= Len(t)
  <2>1. 1 \in 1 .. k
    BY LaidFacts
  <2> QED
    BY <2>1, <1>2, <1>0
<1>4. ASSUME \A i \in DOMAIN t \ chapters : t[i].text # "control"
      PROVE  /\ \A i \in 1 .. 7 : t[i].text # "control"
             /\ \A c \in 1 .. k : \A x \in 1 .. Size(d, c) : t[Place(d, c) + x].text # "control"
  <2>1. ASSUME NEW i \in 1 .. 7 PROVE t[i].text # "control"
    <3>1. i \in 1 .. Len(t) /\ t[i].name # "c"
      BY <1>0, <1>1, <1>3, NameFacts
    <3> QED
      BY <3>1, <1>0, <1>4
  <2>2. ASSUME NEW c \in 1 .. k, NEW x \in 1 .. Size(d, c) PROVE t[Place(d, c) + x].text # "control"
    <3> DEFINE i == Place(d, c) + x
    <3>1. i \in 1 .. Len(t)
      BY <1>0, <1>2
    <3>2. t[i].name # "c"
      BY <1>2, NameFacts
    <3> QED
      BY <3>1, <3>2, <1>0, <1>4
  <2> QED
    BY <2>1, <2>2
<1>5. ASSUME /\ \A i \in 1 .. 7 : t[i].text # "control"
             /\ \A c \in 1 .. k : \A x \in 1 .. Size(d, c) : t[Place(d, c) + x].text # "control",
             NEW i \in DOMAIN t \ chapters
      PROVE  t[i].text # "control"
  <2>1. CASE i \in 1 .. 7
    BY <2>1, <1>5
  <2>2. CASE i \notin 1 .. 7
    <3>1. i \in 8 .. Len(t)
      BY <2>2, <1>0
    <3>2. PICK c \in 1 .. k : \E x \in 0 .. Size(d, c) : i = Place(d, c) + x
      BY <3>1, PlacesCover
    <3>3. PICK x \in 0 .. Size(d, c) : i = Place(d, c) + x
      BY <3>2
    <3>4. x # 0
      <4>1. t[i].name # "c"
        BY <1>0
      <4>2. x = 0 => i = Place(d, c)
        BY <3>3, <1>2
      <4> QED
        BY <4>1, <4>2, <1>2
    <3>5. x \in 1 .. Size(d, c)
      BY <3>4, <1>2
    <3> QED
      BY <3>3, <3>5, <1>5
  <2> QED
    BY <2>1, <2>2
<1> QED
  BY <1>4, <1>5

\* Every chapter of the text has a verse when every chapter of the book has.
LEMMA VersesAreKept ==
    ASSUME NEW d, NEW t, LaidBook(d, t)
    PROVE  (\A i \in Positions(NamesOf(t), "c") : \E j \in Positions(NamesOf(t), "v") : OneChapter(t, i, j))
           <=> \A c \in 1 .. Len(d.chapters) : \E x \in 1 .. Size(d, c) : t[Place(d, c) + x].name = "v"
<1> DEFINE chapters == Positions(NamesOf(t), "c")
           verses == Positions(NamesOf(t), "v")
           k == Len(d.chapters)
<1>0. /\ Len(t) \in Nat /\ chapters \subseteq 1 .. Len(t)
      /\ \A j \in 1 .. Len(t) : j \in verses <=> t[j].name = "v"
      /\ verses \subseteq 1 .. Len(t)
  BY TextFacts DEF LaidBook, Positions, Listed
<1>1. ASSUME NEW i \in 1 .. Len(t)
      PROVE  i \in chapters <=> \E c \in 1 .. k : i = Place(d, c)
  BY ChaptersArePlaces
<1>2. ASSUME NEW c \in 1 .. k
      PROVE  /\ Place(d, c) \in 1 .. Len(t) /\ Size(d, c) \in Nat
             /\ \A y \in 1 .. Size(d, c) : Place(d, c) + y \in 1 .. Len(t)
             /\ 0 \in 0 .. Size(d, c) /\ Place(d, c) + 0 = Place(d, c)
  <2>1. Place(d, c) \in 8 .. Len(t) /\ Size(d, c) \in Nat /\ Place(d, c) + Size(d, c) <= Len(t)
    BY LaidFacts
  <2> QED
    BY <2>1, <1>0
<1>3. ASSUME NEW c \in 1 .. k, NEW j \in 1 .. Len(t)
      PROVE  OneChapter(t, Place(d, c), j) <=> \E y \in 1 .. Size(d, c) : j = Place(d, c) + y
  <2>1. OneChapter(t, Place(d, c) + 0, j) <=> \E y \in 0 + 1 .. Size(d, c) : j = Place(d, c) + y
    BY <1>2, TogetherInChapter
  <2>2. 0 + 1 = 1
    OBVIOUS
  <2> QED
    BY <2>1, <2>2, <1>2
<1> HIDE DEF chapters, verses, k
<1>4. ASSUME \A i \in chapters : \E j \in verses : OneChapter(t, i, j), NEW c \in 1 .. k
      PROVE  \E x \in 1 .. Size(d, c) : t[Place(d, c) + x].name = "v"
  <2>1. Place(d, c) \in chapters
    BY <1>1, <1>2
  <2>2. PICK j \in verses : OneChapter(t, Place(d, c), j)
    BY <2>1, <1>4
  <2>3. j \in 1 .. Len(t) /\ t[j].name = "v"
    BY <1>0
  <2> QED
    BY <2>2, <2>3, <1>3
<1>5. ASSUME \A c \in 1 .. k : \E x \in 1 .. Size(d, c) : t[Place(d, c) + x].name = "v", NEW i \in chapters
      PROVE  \E j \in verses : OneChapter(t, i, j)
  <2>1. PICK c \in 1 .. k : i = Place(d, c)
    BY <1>0, <1>1
  <2>2. PICK x \in 1 .. Size(d, c) : t[Place(d, c) + x].name = "v"
    BY <1>5
  <2> DEFINE j == Place(d, c) + x
  <2>3. j \in 1 .. Len(t) /\ j \in verses
    BY <2>2, <1>0, <1>2
  <2>4. \E y \in 1 .. Size(d, c) : j = Place(d, c) + y
    OBVIOUS
  <2> HIDE DEF j
  <2> QED
    BY <2>1, <2>3, <2>4, <1>3
<1> QED
  BY <1>4, <1>5 DEF chapters, verses, k

\* The verses of a text ascend in their chapters when the book's do.
LEMMA AscentIsKept ==
    ASSUME NEW d, NEW t, LaidBook(d, t)
    PROVE  (\A i, j \in Positions(NamesOf(t), "v") : OneChapter(t, i, j) => t[i].number < t[j].number)
           <=> \A c \in 1 .. Len(d.chapters) : \A x, y \in 1 .. Size(d, c) :
                   t[Place(d, c) + x].name = "v" /\ t[Place(d, c) + y].name = "v" /\ x < y =>
                       t[Place(d, c) + x].number < t[Place(d, c) + y].number
<1> DEFINE verses == Positions(NamesOf(t), "v")
           k == Len(d.chapters)
<1>0. /\ Len(t) \in Nat /\ verses \subseteq 1 .. Len(t)
      /\ \A j \in 1 .. Len(t) : j \in verses <=> t[j].name = "v"
  BY TextFacts DEF LaidBook, Positions, Listed
<1>1. ASSUME NEW c \in 1 .. k
      PROVE  /\ Size(d, c) \in Nat /\ Place(d, c) \in Nat /\ t[Place(d, c)].name = "c"
             /\ \A y \in 1 .. Size(d, c) : Place(d, c) + y \in 1 .. Len(t)
  <2>1. /\ Place(d, c) \in 8 .. Len(t) /\ Size(d, c) \in Nat /\ Place(d, c) + Size(d, c) <= Len(t)
        /\ t[Place(d, c)].name = "c"
    BY LaidFacts
  <2> QED
    BY <2>1, <1>0
<1>2. ASSUME NEW c \in 1 .. k, NEW x \in 1 .. Size(d, c), NEW j \in 1 .. Len(t)
      PROVE  OneChapter(t, Place(d, c) + x, j) <=> \E y \in x + 1 .. Size(d, c) : j = Place(d, c) + y
  <2>1. x \in 0 .. Size(d, c)
    BY <1>1
  <2> QED
    BY <2>1, TogetherInChapter
<1>3. ASSUME NEW i \in verses
      PROVE  \E c \in 1 .. k : \E x \in 1 .. Size(d, c) : i = Place(d, c) + x
  <2>1. i \in 8 .. Len(t) /\ t[i].name = "v"
    BY <1>0, ChaptersArePlaces
  <2>2. PICK c \in 1 .. k : \E x \in 0 .. Size(d, c) : i = Place(d, c) + x
    BY <2>1, PlacesCover
  <2>3. PICK x \in 0 .. Size(d, c) : i = Place(d, c) + x
    BY <2>2
  <2>4. x # 0
    <3>1. x = 0 => i = Place(d, c)
      BY <2>3, <1>1
    <3> QED
      BY <3>1, <2>1, <1>1
  <2>5. x \in 1 .. Size(d, c)
    BY <2>4, <1>1
  <2> QED
    BY <2>3, <2>5
<1> HIDE DEF verses, k
<1>4. ASSUME \A i, j \in verses : OneChapter(t, i, j) => t[i].number < t[j].number,
             NEW c \in 1 .. k, NEW x \in 1 .. Size(d, c), NEW y \in 1 .. Size(d, c),
             t[Place(d, c) + x].name = "v", t[Place(d, c) + y].name = "v", x < y
      PROVE  t[Place(d, c) + x].number < t[Place(d, c) + y].number
  <2> DEFINE i == Place(d, c) + x
             j == Place(d, c) + y
  <2>1. i \in 1 .. Len(t) /\ j \in 1 .. Len(t) /\ i \in verses /\ j \in verses
    BY <1>0, <1>1, <1>4
  <2>2. y \in x + 1 .. Size(d, c)
    BY <1>1, <1>4
  <2>3. OneChapter(t, i, j)
    BY <2>1, <2>2, <1>2
  <2> QED
    BY <2>1, <2>3, <1>4
<1>5. ASSUME \A c \in 1 .. k : \A x, y \in 1 .. Size(d, c) :
                 t[Place(d, c) + x].name = "v" /\ t[Place(d, c) + y].name = "v" /\ x < y =>
                     t[Place(d, c) + x].number < t[Place(d, c) + y].number,
             NEW i \in verses, NEW j \in verses, OneChapter(t, i, j)
      PROVE  t[i].number < t[j].number
  <2>1. PICK c \in 1 .. k : \E x \in 1 .. Size(d, c) : i = Place(d, c) + x
    BY <1>3
  <2>2. PICK x \in 1 .. Size(d, c) : i = Place(d, c) + x
    BY <2>1
  <2>3. j \in 1 .. Len(t) /\ t[i].name = "v" /\ t[j].name = "v"
    BY <1>0
  <2>4. PICK y \in x + 1 .. Size(d, c) : j = Place(d, c) + y
    BY <2>2, <2>3, <1>2, <1>5
  <2>5. y \in 1 .. Size(d, c) /\ x < y
    BY <1>1
  <2> QED
    BY <2>2, <2>3, <2>4, <2>5, <1>5
<1> QED
  BY <1>4, <1>5 DEF verses, k

\* Of the books the importer makes, the reader shows the legible ones.
LEMMA LegibleIsReadable ==
    ASSUME NEW a, LaidBook(a.document, a.text), a.document.json, a.document.metadata,
           Len(a.text) >= 7, SubSeq(NamesOf(a.text), 1, 7) \in CanonicalHeaders,
           AllClosed(NamesOf(a.text), Len(a.text)), Len(a.document.chapters) <= MAX_CHAPTERS
    PROVE  Readable(a.document) <=> Legible(a)
<1> DEFINE d == a.document
           t == a.text
           k == Len(d.chapters)
<1>1. LaidBook(d, t) /\ AllClosed(NamesOf(t), Len(t)) /\ d.json /\ d.metadata
  OBVIOUS
<1>2. /\ Shaped(d) /\ Len(d.headers) = 7 /\ Len(t) \in Nat /\ k \in 1 .. MAX_CHAPTERS
      /\ DOMAIN d.chapters = 1 .. k /\ DOMAIN d.headers = 1 .. 7
      /\ \A i \in 1 .. 7 : d.headers[i] = Recorded(t, i) /\ t[i].name \in HeaderNames
  <2>1. /\ Shaped(d) /\ Len(d.headers) = 7 /\ Len(t) \in Nat /\ k \in Nat \ {0}
        /\ \A i \in 1 .. 7 : d.headers[i] = Recorded(t, i) /\ t[i].name \in HeaderNames
    BY <1>1, LaidFacts
  <2>2. Shaped(d) /\ k <= MAX_CHAPTERS
    BY <2>1
  <2>3. DOMAIN d.chapters = 1 .. k
    BY <2>2, ShapedFacts
  <2>4. DOMAIN d.headers = 1 .. Len(d.headers)
    BY <2>2, ShapedFacts
  <2>5. DOMAIN d.headers = 1 .. 7
    BY ONLY <2>1, <2>4
  <2>6. MAX_CHAPTERS \in Nat
    BY BookFacts
  <2>7. k \in 1 .. MAX_CHAPTERS
    BY ONLY <2>1, <2>2, <2>6
  <2> QED
    BY ONLY <2>1, <2>2, <2>3, <2>5, <2>7
<1>3. Names(d.headers) \in CanonicalHeaders
  BY <1>1, <1>2, HeadersKept DEF LaidBook
<1>4. MarkersUpTo(d, k) <= MAX_MARKERS_PER_BOOK
  <2> DEFINE x == MarkersUpTo(d, k)
             n == Len(t)
  <2>1. x \in Nat /\ n = x + k /\ k \in Nat /\ n <= MAX_MARKERS_PER_BOOK /\ MAX_MARKERS_PER_BOOK \in Nat
    <3>1. n = x + k /\ k \in Nat \ {0} /\ \A c \in 0 .. k : MarkersUpTo(d, c) \in Nat
      BY <1>1, LaidFacts
    <3>2. n <= MAX_MARKERS_PER_BOOK
      BY <1>1 DEF LaidBook, Viable
    <3> QED
      BY <3>1, <3>2, BookFacts
  <2> HIDE DEF x, n, k
  <2>2. x <= MAX_MARKERS_PER_BOOK
    BY ONLY <2>1
  <2> QED
    BY <2>2 DEF x
<1>5. (\A i \in DOMAIN d.headers : d.headers[i].number = NoNumber /\ d.headers[i].text # "control")
      <=> \A i \in 1 .. 7 : t[i].text # "control"
  <2>1. ASSUME NEW i \in 1 .. 7 PROVE d.headers[i].number = NoNumber /\ d.headers[i].text = t[i].text
    <3>1. d.headers[i] = Recorded(t, i) /\ t[i].name # "v"
      BY <1>2, NameFacts
    <3> QED
      BY <3>1 DEF Recorded
  <2> QED
    BY <2>1, <1>2
<1> DEFINE ChapterFine(c) ==
               LET m == d.chapters[c].markers
                   verses == Positions(Names(m), "v") IN
               /\ d.chapters[c].number = c
               /\ verses # {}
               /\ \A i \in DOMAIN m : /\ m[i].marker \in BodyNames /\ m[i].text # "control"
                                      /\ i \in verses <=> m[i].number # NoNumber
               /\ \A i \in verses : m[i].number > 0 /\ \A j \in verses : i < j => m[i].number < m[j].number
               /\ WellNested(Names(m)) /\ AllClosed(Names(m), Len(m))
<1>6. Readable(d) <=>
          /\ d.bom
          /\ \A i \in 1 .. 7 : t[i].text # "control"
          /\ \A c \in 1 .. k : ChapterFine(c)
  BY <1>1, <1>2, <1>3, <1>4, <1>5 DEF Readable
<1>7. ASSUME NEW c \in 1 .. k PROVE ChapterFine(c) <=> ChapterShows(d, t, c)
  BY <1>1, ChapterIsReadable
<1>8. Legible(a) <=>
          /\ d.bom
          /\ \A i \in DOMAIN t \ Positions(NamesOf(t), "c") : t[i].text # "control"
          /\ \A i \in Positions(NamesOf(t), "c") : \E j \in Positions(NamesOf(t), "v") : OneChapter(t, i, j)
          /\ \A i, j \in Positions(NamesOf(t), "v") : OneChapter(t, i, j) => t[i].number < t[j].number
  BY DEF Legible, OneChapter
<1>9. (\A c \in 1 .. k : ChapterShows(d, t, c)) <=>
          /\ \A c \in 1 .. k : \E x \in 1 .. Size(d, c) : t[Place(d, c) + x].name = "v"
          /\ \A c \in 1 .. k : \A x \in 1 .. Size(d, c) : t[Place(d, c) + x].text # "control"
          /\ \A c \in 1 .. k : \A x, y \in 1 .. Size(d, c) :
                 t[Place(d, c) + x].name = "v" /\ t[Place(d, c) + y].name = "v" /\ x < y =>
                     t[Place(d, c) + x].number < t[Place(d, c) + y].number
  BY DEF ChapterShows
<1> HIDE DEF d, t, k, ChapterFine
<1>10. (\A i \in DOMAIN t \ Positions(NamesOf(t), "c") : t[i].text # "control") <=>
          /\ \A i \in 1 .. 7 : t[i].text # "control"
          /\ \A c \in 1 .. k : \A x \in 1 .. Size(d, c) : t[Place(d, c) + x].text # "control"
  BY <1>1, ControlsAreKept DEF k
<1>11. (\A i \in Positions(NamesOf(t), "c") : \E j \in Positions(NamesOf(t), "v") : OneChapter(t, i, j))
      <=> \A c \in 1 .. k : \E x \in 1 .. Size(d, c) : t[Place(d, c) + x].name = "v"
  BY <1>1, VersesAreKept DEF k
<1>12. (\A i, j \in Positions(NamesOf(t), "v") : OneChapter(t, i, j) => t[i].number < t[j].number)
      <=> \A c \in 1 .. k : \A x, y \in 1 .. Size(d, c) :
              t[Place(d, c) + x].name = "v" /\ t[Place(d, c) + y].name = "v" /\ x < y =>
                  t[Place(d, c) + x].number < t[Place(d, c) + y].number
  BY <1>1, AscentIsKept DEF k
<1>13. Readable(d) <=> Legible(a)
  BY ONLY <1>6, <1>7, <1>8, <1>9, <1>10, <1>11, <1>12
<1> QED
  BY <1>13 DEF d

-----------------------------------------------------------------------------
(* The rows of a book are those of its text.                               *)

\* The row of the marker at position i.
RowAt(t, i) ==
    CASE t[i].name = "c" -> Row("ChapterHeading", "c", t[i].number, 0)
      [] t[i].name = "p" -> Row("Paragraph", "p", NoNumber, 0)
      [] t[i].name = "v" -> Row("Verse", "v", t[i].number, i)
      [] OTHER -> Row("Marker", t[i].name, NoNumber, i)
RowsIn(t) == {RowAt(t, i) : i \in 8 .. Len(t)}
RowsTo(t, n) == [i \in 1 .. n |-> RowAt(t, i + 7)]

LEMMA RowOfRecord ==
    ASSUME NEW t, NEW i, t[i].name \in BodyNames
    PROVE  RowOf(Recorded(t, i)) = RowAt(t, i)
<1>1. t[i].name # "c"
  BY NameFacts
<1>2. /\ Recorded(t, i).marker = t[i].name /\ Recorded(t, i).at = i
      /\ t[i].name = "v" => Recorded(t, i).number = t[i].number
  BY DEF Recorded
<1>3. CASE t[i].name = "p"
  BY <1>2, <1>3 DEF RowOf, RowAt
<1>4. CASE t[i].name = "v"
  BY <1>2, <1>4 DEF RowOf, RowAt
<1>5. CASE t[i].name # "p" /\ t[i].name # "v"
  BY <1>1, <1>2, <1>5 DEF RowOf, RowAt
<1> QED
  BY <1>3, <1>4, <1>5

LEMMA JoinedLen ==
    ASSUME NEW R, NEW a \in Seq(R), NEW b \in Seq(R)
    PROVE  a \o b \in Seq(R) /\ Len(a \o b) = Len(a) + Len(b)
BY ConcatProperties

LEMMA JoinedFirst ==
    ASSUME NEW R, NEW a \in Seq(R), NEW b \in Seq(R), NEW i \in 1 .. Len(a)
    PROVE  (a \o b)[i] = a[i]
BY ConcatProperties

LEMMA JoinedSecond ==
    ASSUME NEW R, NEW a \in Seq(R), NEW b \in Seq(R), NEW i \in 1 .. Len(b)
    PROVE  (a \o b)[Len(a) + i] = b[i]
<1>1. Len(a) + i \in 1 .. Len(a) + Len(b) /\ ~(Len(a) + i <= Len(a)) /\ (Len(a) + i) - Len(a) = i
  OBVIOUS
<1> QED
  BY <1>1, ConcatProperties

LEMMA ChapterRowsInText ==
    ASSUME NEW d, NEW t, LaidBook(d, t), NEW c \in 1 .. Len(d.chapters)
    PROVE  /\ ChapterRows(d.chapters[c]) \in Seq(RowsIn(t))
           /\ Len(ChapterRows(d.chapters[c])) = Size(d, c) + 1
           /\ \A x \in 0 .. Size(d, c) : ChapterRows(d.chapters[c])[x + 1] = RowAt(t, Place(d, c) + x)
<1> DEFINE m == d.chapters[c].markers
           s == Place(d, c)
           size == Size(d, c)
           head == Row("ChapterHeading", "c", d.chapters[c].number, 0)
           body == [i \in DOMAIN m |-> RowOf(m[i])]
<1>1. /\ s \in 8 .. Len(t) /\ size \in Nat /\ s + size <= Len(t) /\ Len(t) \in Nat
      /\ d.chapters[c].number = c /\ t[s].name = "c" /\ t[s].number = c
      /\ \A i \in 1 .. size : m[i] = Recorded(t, s + i) /\ t[s + i].name \in BodyNames
      /\ DOMAIN m = 1 .. size
  <2>1. /\ s \in 8 .. Len(t) /\ size \in Nat /\ s + size <= Len(t) /\ Len(t) \in Nat
        /\ d.chapters[c].number = c /\ t[s].name = "c" /\ t[s].number = c
        /\ \A i \in 1 .. size : m[i] = Recorded(t, s + i) /\ t[s + i].name \in BodyNames
    BY LaidFacts
  <2>2. DOMAIN m = 1 .. size
    BY LaidFacts, ShapedFacts DEF Size
  <2> QED
    BY <2>1, <2>2
<1>2. ChapterRows(d.chapters[c]) = <<head>> \o body
  BY DEF ChapterRows
<1> HIDE DEF m, s, size
<1>3. head = RowAt(t, s)
  BY <1>1 DEF RowAt
<1>4. ASSUME NEW i \in 1 .. size PROVE body[i] = RowAt(t, s + i)
  <2>1. body[i] = RowOf(m[i])
    BY <1>1
  <2>2. m[i] = Recorded(t, s + i) /\ t[s + i].name \in BodyNames
    BY <1>1
  <2> QED
    BY <2>1, <2>2, RowOfRecord
<1>5. \A x \in 0 .. size : RowAt(t, s + x) \in RowsIn(t)
  <2>1. \A x \in 0 .. size : s + x \in 8 .. Len(t)
    BY <1>1
  <2> QED
    BY <2>1 DEF RowsIn
<1>6. DOMAIN body = 1 .. size
  BY <1>1
<1> HIDE DEF head, body
<1>7. head \in RowsIn(t)
  <2>1. 0 \in 0 .. size /\ s + 0 = s
    BY <1>1
  <2> QED
    BY <2>1, <1>3, <1>5
<1>8. ASSUME NEW i \in 1 .. size PROVE body[i] \in RowsIn(t)
  <2>1. i \in 0 .. size
    BY <1>1
  <2>2. RowAt(t, s + i) \in RowsIn(t)
    BY <2>1, <1>5
  <2> QED
    BY <2>2, <1>4
<1> DEFINE R == RowsIn(t)
<1> HIDE DEF R
<1>9. body \in Seq(R) /\ Len(body) = size
  <2>1. body = [i \in 1 .. size |-> body[i]]
    BY <1>6 DEF body
  <2>2. body \in [1 .. size -> R]
    BY ONLY <2>1, <1>8 DEF R
  <2>3. \A n \in Nat : \A x \in [1 .. n -> R] : x \in Seq(R) /\ Len(x) = n
    OBVIOUS
  <2> QED
    BY ONLY <2>2, <2>3, <1>1
<1>10. <<head>> \in Seq(R) /\ Len(<<head>>) = 1 /\ <<head>>[1] = head
  BY <1>7 DEF R
<1> DEFINE h == <<head>>
<1>11. h \in Seq(R) /\ Len(h) = 1 /\ h[1] = head
  BY <1>10
<1> HIDE DEF h
<1>12. /\ h \o body \in Seq(R)
       /\ Len(h \o body) = 1 + size
       /\ (h \o body)[1] = head
       /\ \A i \in 1 .. size : (h \o body)[i + 1] = body[i]
  <2>1. h \o body \in Seq(R) /\ Len(h \o body) = Len(h) + Len(body)
    BY ONLY <1>9, <1>11, JoinedLen
  <2>2. (h \o body)[1] = h[1]
    <3> DEFINE i == 1
    <3>1. i \in 1 .. Len(h)
      BY <1>11
    <3> HIDE DEF i
    <3>2. (h \o body)[i] = h[i]
      BY ONLY <3>1, <1>9, <1>11, JoinedFirst
    <3> QED
      BY <3>2 DEF i
  <2>3. ASSUME NEW i \in 1 .. size PROVE (h \o body)[i + 1] = body[i]
    <3>1. i \in 1 .. Len(body) /\ Len(h) + i = i + 1
      BY <1>1, <1>9, <1>11
    <3>2. (h \o body)[Len(h) + i] = body[i]
      BY ONLY <3>1, <1>9, <1>11, JoinedSecond
    <3> QED
      BY <3>1, <3>2
  <2> QED
    BY <2>1, <2>2, <2>3, <1>9, <1>11
<1>13. ASSUME NEW x \in 0 .. size PROVE (h \o body)[x + 1] = RowAt(t, s + x)
  <2>1. CASE x = 0
    <3>1. x + 1 = 1 /\ s + x = s
      BY <2>1, <1>1
    <3> QED
      BY <3>1, <1>3, <1>12
  <2>2. CASE x # 0
    <3>1. x \in 1 .. size
      BY <2>2, <1>1
    <3> QED
      BY <3>1, <1>4, <1>12
  <2> QED
    BY <2>1, <2>2
<1> DEFINE rows == h \o body
<1>14. rows \in Seq(R) /\ Len(rows) = size + 1 /\ \A x \in 0 .. size : rows[x + 1] = RowAt(t, s + x)
  <2>1. 1 + size = size + 1
    BY <1>1
  <2> QED
    BY <2>1, <1>12, <1>13
<1>15. ChapterRows(d.chapters[c]) = rows
  BY <1>2 DEF h
<1> HIDE DEF rows
<1> QED
  BY <1>14, <1>15 DEF R, s, size

\* The reader's rows are the markers of the text, in its order.
LEMMA BookRowsAreText ==
    ASSUME NEW d, NEW t, LaidBook(d, t)
    PROVE  BookRows(d) = RowsOfText(t)
<1> DEFINE k == Len(d.chapters)
           R == RowsIn(t)
           End(c) == MarkersUpTo(d, c) + c - 7
           Body(f) == [c \in 0 .. k |-> IF c = 0 THEN <<>> ELSE f[c - 1] \o ChapterRows(d.chapters[c])]
           rows == CHOOSE f : f = Body(f)
           f == [c \in 0 .. k |-> RowsTo(t, End(c))]
<1>1. /\ k \in Nat /\ Len(t) \in Nat /\ End(0) = 0 /\ End(k) = Len(t) - 7
  <2>1. /\ k \in Nat \ {0} /\ Len(t) \in Nat /\ MarkersUpTo(d, 0) = 7 /\ Len(t) = MarkersUpTo(d, k) + k
        /\ \A c \in 0 .. k : MarkersUpTo(d, c) \in Nat
    BY LaidFacts
  <2> QED
    BY <2>1
<1>2. ASSUME NEW c \in 1 .. k
      PROVE  /\ Size(d, c) \in Nat /\ End(c - 1) \in Nat /\ End(c) = End(c - 1) + Size(d, c) + 1
             /\ Place(d, c) = End(c - 1) + 8
             /\ End(c) + 7 <= Len(t)
  <2>1. /\ Place(d, c) = MarkersUpTo(d, c - 1) + c /\ Size(d, c) \in Nat
        /\ Place(d, c) + Size(d, c) = MarkersUpTo(d, c) + c
        /\ Place(d, c) \in 8 .. Len(t) /\ Place(d, c) + Size(d, c) <= Len(t)
    BY LaidFacts
  <2>2. c - 1 \in 0 .. k /\ c \in 0 .. k /\ c \in Nat
    BY <1>1
  <2>3. MarkersUpTo(d, c - 1) \in Nat /\ MarkersUpTo(d, c) \in Nat
    BY <2>2, LaidFacts
  <2> DEFINE x == MarkersUpTo(d, c - 1)
             y == MarkersUpTo(d, c)
             p == Place(d, c)
             z == Size(d, c)
             n == Len(t)
             e == x + (c - 1) - 7
             g == y + c - 7
  <2>4. x \in Nat /\ y \in Nat /\ p = x + c /\ z \in Nat /\ p + z = y + c /\ p >= 8 /\ p + z <= n /\ n \in Nat
        /\ c \in Nat
    BY <2>1, <2>2, <2>3, <1>1
  <2> HIDE DEF x, y, p, z, n
  <2>5. z \in Nat /\ e \in Nat /\ g = e + z + 1 /\ p = e + 8 /\ g + 7 <= n
    BY ONLY <2>4
  <2> QED
    BY <2>5 DEF x, y, p, z, n
<1>3. ASSUME NEW n \in Nat, n + 7 <= Len(t)
      PROVE  RowsTo(t, n) \in Seq(R) /\ Len(RowsTo(t, n)) = n /\ \A i \in 1 .. n : RowsTo(t, n)[i] = RowAt(t, i + 7)
  <2>1. \A i \in 1 .. n : i + 7 \in 8 .. Len(t)
    BY <1>1, <1>3
  <2>2. \A i \in 1 .. n : RowAt(t, i + 7) \in R
    BY <2>1 DEF RowsIn
  <2> HIDE DEF R
  <2>3. RowsTo(t, n) \in [1 .. n -> R]
    BY <2>2 DEF RowsTo
  <2>4. \A x \in [1 .. n -> R] : x \in Seq(R) /\ Len(x) = n
    OBVIOUS
  <2> QED
    BY <2>3, <2>4 DEF RowsTo
<1>4. BookRows(d) = rows[k]
  BY DEF BookRows
<1> HIDE DEF k, End, R
<1>5. ASSUME NEW c \in 1 .. k
      PROVE  RowsTo(t, End(c)) = RowsTo(t, End(c - 1)) \o ChapterRows(d.chapters[c])
  <2> DEFINE e == End(c - 1)
             z == Size(d, c)
             g == End(c)
             a == RowsTo(t, e)
             b == ChapterRows(d.chapters[c])
             ab == RowsTo(t, g)
             n == Len(t)
  <2>1. z \in Nat /\ e \in Nat /\ g = e + z + 1 /\ Place(d, c) = e + 8 /\ g + 7 <= n /\ n \in Nat
    BY <1>1, <1>2
  <2>2. b \in Seq(R) /\ Len(b) = z + 1 /\ \A x \in 0 .. z : b[x + 1] = RowAt(t, Place(d, c) + x)
    BY ChapterRowsInText DEF k, R
  <2> HIDE DEF e, z, g, b, n
  <2>3. g \in Nat /\ e + 7 <= n
    BY <2>1
  <2>4. a \in Seq(R) /\ Len(a) = e /\ \A i \in 1 .. e : a[i] = RowAt(t, i + 7)
    BY <2>1, <2>3, <1>3 DEF n
  <2>5. ab \in Seq(R) /\ Len(ab) = g /\ \A i \in 1 .. g : ab[i] = RowAt(t, i + 7)
    BY <2>1, <2>3, <1>3 DEF n
  <2> HIDE DEF a, ab
  <2>6. /\ a \o b \in Seq(R) /\ Len(a \o b) = e + (z + 1)
        /\ \A i \in 1 .. e : (a \o b)[i] = a[i]
        /\ \A i \in 1 .. z + 1 : (a \o b)[e + i] = b[i]
    <3>1. a \o b \in Seq(R) /\ Len(a \o b) = Len(a) + Len(b)
      BY ONLY <2>2, <2>4, JoinedLen
    <3>2. ASSUME NEW i \in 1 .. e PROVE (a \o b)[i] = a[i]
      <4>1. i \in 1 .. Len(a)
        BY <2>4
      <4> QED
        BY ONLY <4>1, <2>2, <2>4, JoinedFirst
    <3>3. ASSUME NEW i \in 1 .. z + 1 PROVE (a \o b)[e + i] = b[i]
      <4>1. i \in 1 .. Len(b)
        BY <2>2
      <4>2. (a \o b)[Len(a) + i] = b[i]
        BY ONLY <4>1, <2>2, <2>4, JoinedSecond
      <4> QED
        BY <4>2, <2>4
    <3> QED
      BY <3>1, <3>2, <3>3, <2>2, <2>4
  <2>7. ASSUME NEW i \in 1 .. g PROVE ab[i] = (a \o b)[i]
    <3>1. CASE i <= e
      <4>1. i \in 1 .. e
        BY <3>1, <2>1
      <4> QED
        BY <4>1, <2>4, <2>5, <2>6
    <3>2. CASE ~(i <= e)
      <4> DEFINE x == i - e - 1
      <4>1. x \in 0 .. z /\ x + 1 \in 1 .. z + 1 /\ i = e + (x + 1) /\ Place(d, c) + x = i + 7
        BY <3>2, <2>1
      <4> HIDE DEF x
      <4>2. b[x + 1] = RowAt(t, i + 7)
        BY <4>1, <2>2
      <4> QED
        BY <4>1, <4>2, <2>5, <2>6
    <3> QED
      BY <3>1, <3>2
  <2>8. Len(ab) = Len(a \o b) /\ \A i \in 1 .. Len(ab) : ab[i] = (a \o b)[i]
    BY <2>1, <2>5, <2>6, <2>7
  <2>9. ab = a \o b
    BY ONLY <2>5, <2>6, <2>8, SeqEqual
  <2> QED
    BY <2>9 DEF a, b, ab, e, g
<1>6. RowsTo(t, End(0)) = <<>>
  <2>1. RowsTo(t, End(0)) \in Seq(R) /\ Len(RowsTo(t, End(0))) = 0
    <3>1. 7 <= Len(t)
      <4>1. Place(d, 1) \in 8 .. Len(t)
        <5>1. 1 \in 1 .. Len(d.chapters)
          BY LaidFacts
        <5> QED
          BY <5>1, LaidFacts
      <4> QED
        BY <4>1, <1>1
    <3>2. 0 \in Nat /\ 0 + 7 <= Len(t)
      BY <3>1
    <3> QED
      BY <3>2, <1>1, <1>3
  <2> QED
    BY <2>1, EmptySeq
<1>7. f = Body(f)
  <2>1. ASSUME NEW c \in 0 .. k
        PROVE  f[c] = IF c = 0 THEN <<>> ELSE f[c - 1] \o ChapterRows(d.chapters[c])
    <3>1. CASE c = 0
      BY <3>1, <1>6
    <3>2. CASE c # 0
      <4>1. c \in 1 .. k /\ c - 1 \in 0 .. k
        BY <3>2, <1>1
      <4> QED
        BY <3>2, <4>1, <1>5
    <3> QED
      BY <3>1, <3>2
  <2> QED
    BY <2>1
<1>8. rows = Body(rows)
  <2> HIDE DEF Body, f
  <2> QED
    BY <1>7
<1>9. \A c \in 0 .. k : rows[c] = IF c = 0 THEN <<>> ELSE rows[c - 1] \o ChapterRows(d.chapters[c])
  <2> HIDE DEF rows
  <2> QED
    BY <1>8
<1> HIDE DEF rows, Body, f
<1>10. \A c \in Nat : c <= k => rows[c] = RowsTo(t, End(c))
  <2> DEFINE Good == {c \in Nat : c <= k => rows[c] = RowsTo(t, End(c))}
  <2>1. 0 \in Good
    BY <1>1, <1>6, <1>9
  <2>2. ASSUME NEW c \in Nat, c \in Good PROVE c + 1 \in Good
    <3> SUFFICES ASSUME c + 1 <= k PROVE rows[c + 1] = RowsTo(t, End(c + 1))
      OBVIOUS
    <3> DEFINE e == c + 1
    <3>1. e \in 1 .. k /\ e \in 0 .. k /\ e # 0 /\ e - 1 = c
      BY <1>1
    <3> HIDE DEF e
    <3>2. rows[c] = RowsTo(t, End(c))
      BY <2>2, <1>1
    <3>3. rows[e] = RowsTo(t, End(c)) \o ChapterRows(d.chapters[e])
      BY <3>1, <3>2, <1>9
    <3>4. RowsTo(t, End(e)) = RowsTo(t, End(c)) \o ChapterRows(d.chapters[e])
      BY <3>1, <1>5
    <3> QED
      BY <3>3, <3>4 DEF e
  <2>3. \A c \in Nat : c \in Good
    <3> HIDE DEF Good
    <3> QED
      BY <2>1, <2>2, Induction
  <2> QED
    BY <2>3
<1>11. rows[k] = RowsTo(t, Len(t) - 7)
  BY <1>1, <1>10
<1>12. RowsOfText(t) = RowsTo(t, Len(t) - 7)
  BY DEF RowsOfText, RowsTo, RowAt
<1> QED
  BY <1>4, <1>11, <1>12

-----------------------------------------------------------------------------
(* What is sealed in place of a book is still a document.                  *)

LEMMA ChangedSeq ==
    ASSUME NEW S, NEW s \in Seq(S), NEW i \in 1 .. Len(s), NEW e \in S
    PROVE  [s EXCEPT ![i] = e] \in Seq(S)
BY ExceptSeq

LEMMA EditedMarkersAreRecords ==
    ASSUME NEW m \in Seq(Rec), NEW x \in EditedMarkers(m)
    PROVE  x \in Seq(Rec)
<1> DEFINE n == Len(m)
<1>0. n \in Nat /\ DOMAIN m = 1 .. n /\ \A i \in 1 .. n : m[i] \in Rec
  OBVIOUS
<1>1. CASE x = <<>>
  <2>1. <<>> \in Seq(Rec)
    BY ONLY EmptySeq
  <2> QED
    BY <2>1, <1>1
<1>2. ASSUME NEW i \in 1 .. n, x = RemoveAt(m, i) PROVE x \in Seq(Rec)
  <2> DEFINE a == SubSeq(m, 1, i - 1)
             b == SubSeq(m, i + 1, n)
  <2>1. x = a \o b
    BY <1>2 DEF RemoveAt
  <2>2. a \in Seq(Rec) /\ b \in Seq(Rec)
    <3>1. /\ 1 \in Int /\ i - 1 \in Int /\ i + 1 \in Int /\ n \in Int
          /\ \A j \in 1 .. i - 1 : m[j] \in Rec
          /\ \A j \in i + 1 .. n : m[j] \in Rec
      BY <1>0
    <3> QED
      BY <3>1, SubSeqProperties
  <2> HIDE DEF a, b
  <2> QED
    BY ONLY <2>1, <2>2, JoinedLen
<1>3. ASSUME NEW i \in 1 .. n - 1, x = [m EXCEPT ![i] = m[i + 1], ![i + 1] = m[i]] PROVE x \in Seq(Rec)
  <2> DEFINE j == i + 1
             y == [m EXCEPT ![i] = m[j]]
  <2>1. i \in 1 .. n /\ j \in 1 .. n
    BY <1>0
  <2>2. y \in Seq(Rec) /\ Len(y) = n
    <3>1. m[j] \in Rec
      BY <2>1, <1>0
    <3> HIDE DEF j
    <3> QED
      BY <2>1, <3>1, ExceptSeq
  <2>3. x = [y EXCEPT ![j] = m[i]]
    BY <1>3
  <2>4. m[i] \in Rec
    BY <2>1, <1>0
  <2> HIDE DEF j, y
  <2>5. [y EXCEPT ![j] = m[i]] \in Seq(Rec)
    BY <2>1, <2>2, <2>4, ChangedSeq
  <2> QED
    BY <2>3, <2>5
<1>4. ASSUME NEW i \in 1 .. n, NEW y \in {NoNumber, 0, 1}, x = [m EXCEPT ![i].number = y] PROVE x \in Seq(Rec)
  <2> DEFINE r == [m[i] EXCEPT !.number = y]
  <2>1. m[i] \in Rec /\ y \in Int
    BY <1>0, <1>4 DEF NoNumber
  <2>2. r \in Rec
    BY <2>1 DEF Rec
  <2>3. x = [m EXCEPT ![i] = r]
    BY <1>4
  <2> HIDE DEF r
  <2> QED
    BY <2>2, <2>3, ChangedSeq
<1>5. ASSUME NEW i \in 1 .. n, NEW y \in {"id", "f", "f*", "ft"}, x = [m EXCEPT ![i].marker = y]
      PROVE  x \in Seq(Rec)
  <2> DEFINE r == [m[i] EXCEPT !.marker = y]
  <2>1. m[i] \in Rec /\ y \in Word
    BY <1>0, <1>5 DEF Word
  <2>2. r \in Rec
    BY <2>1 DEF Rec
  <2>3. x = [m EXCEPT ![i] = r]
    BY <1>5
  <2> HIDE DEF r
  <2> QED
    BY <2>2, <2>3, ChangedSeq
<1>6. ASSUME x = m \o [i \in 1 .. MAX_MARKERS_PER_BOOK |->
                          [marker |-> "p", number |-> NoNumber, at |-> 0, text |-> "text"]]
      PROVE  x \in Seq(Rec)
  <2> DEFINE r == [marker |-> "p", number |-> NoNumber, at |-> 0, text |-> "text"]
             more == [i \in 1 .. MAX_MARKERS_PER_BOOK |-> r]
  <2>1. r \in Rec
    BY DEF Rec, Word, NoNumber
  <2> HIDE DEF r
  <2>2. more \in Seq(Rec)
    BY <2>1, BookFacts
  <2> HIDE DEF more
  <2>3. x = m \o more
    BY <1>6 DEF more, r
  <2> QED
    BY <2>2, <2>3, JoinedLen
<1>7. \/ x = <<>>
      \/ \E i \in 1 .. n : x = RemoveAt(m, i)
      \/ \E i \in 1 .. n - 1 : x = [m EXCEPT ![i] = m[i + 1], ![i + 1] = m[i]]
      \/ \E i \in 1 .. n : \E y \in {NoNumber, 0, 1} : x = [m EXCEPT ![i].number = y]
      \/ \E i \in 1 .. n : \E y \in {"id", "f", "f*", "ft"} : x = [m EXCEPT ![i].marker = y]
      \/ x = m \o [i \in 1 .. MAX_MARKERS_PER_BOOK |->
                      [marker |-> "p", number |-> NoNumber, at |-> 0, text |-> "text"]]
  <2>1. \/ x = <<>>
        \/ \E i \in DOMAIN m : x = RemoveAt(m, i)
        \/ \E i \in 1 .. Len(m) - 1 : x = [m EXCEPT ![i] = m[i + 1], ![i + 1] = m[i]]
        \/ \E i \in DOMAIN m : \E y \in {NoNumber, 0, 1} : x = [m EXCEPT ![i].number = y]
        \/ \E i \in DOMAIN m : \E y \in {"id", "f", "f*", "ft"} : x = [m EXCEPT ![i].marker = y]
        \/ x = m \o [i \in 1 .. MAX_MARKERS_PER_BOOK |->
                        [marker |-> "p", number |-> NoNumber, at |-> 0, text |-> "text"]]
    <3> DEFINE A == {RemoveAt(m, i) : i \in DOMAIN m}
               B == {[m EXCEPT ![i] = m[i + 1], ![i + 1] = m[i]] : i \in 1 .. Len(m) - 1}
               C == {[m EXCEPT ![i].number = y] : i \in DOMAIN m, y \in {NoNumber, 0, 1}}
               D == {[m EXCEPT ![i].marker = y] : i \in DOMAIN m, y \in {"id", "f", "f*", "ft"}}
               e == m \o [i \in 1 .. MAX_MARKERS_PER_BOOK |->
                             [marker |-> "p", number |-> NoNumber, at |-> 0, text |-> "text"]]
    <3>0. EditedMarkers(m) = {<<>>} \union A \union B \union C \union D \union {e}
      BY DEF EditedMarkers
    <3>2. x \in A => \E i \in DOMAIN m : x = RemoveAt(m, i)
      OBVIOUS
    <3>3. x \in B => \E i \in 1 .. Len(m) - 1 : x = [m EXCEPT ![i] = m[i + 1], ![i + 1] = m[i]]
      OBVIOUS
    <3>4. x \in C => \E i \in DOMAIN m : \E y \in {NoNumber, 0, 1} : x = [m EXCEPT ![i].number = y]
      OBVIOUS
    <3>5. x \in D => \E i \in DOMAIN m : \E y \in {"id", "f", "f*", "ft"} : x = [m EXCEPT ![i].marker = y]
      OBVIOUS
    <3> HIDE DEF A, B, C, D, e
    <3>6. x \in {<<>>} \union A \union B \union C \union D \union {e}
      BY <3>0
    <3>7. x = <<>> \/ x \in A \/ x \in B \/ x \in C \/ x \in D \/ x = e
      BY <3>6
    <3> QED
      BY <3>2, <3>3, <3>4, <3>5, <3>7, Zenon DEF e
  <2> QED
    BY <1>0, <2>1, Zenon
<1> QED
  BY <1>1, <1>2, <1>3, <1>4, <1>5, <1>6, <1>7

\* A document with one of its fields replaced.
LEMMA ChangedDoc ==
    ASSUME NEW d \in Doc
    PROVE  /\ [d EXCEPT !.json = FALSE] \in Doc
           /\ [d EXCEPT !.metadata = FALSE] \in Doc
           /\ [d EXCEPT !.bom = FALSE] \in Doc
           /\ \A h \in Seq(Rec) : [d EXCEPT !.headers = h] \in Doc
           /\ \A c \in Seq(Chapter) : [d EXCEPT !.chapters = c] \in Doc
<1> DEFINE H == Seq(Rec)
           C == Seq(Chapter)
<1>1. Doc = [json : BOOLEAN, metadata : BOOLEAN, bom : BOOLEAN, headers : H, chapters : C]
  BY DEF Doc
<1> HIDE DEF H, C
<1>2. /\ [d EXCEPT !.json = FALSE] \in Doc
      /\ [d EXCEPT !.metadata = FALSE] \in Doc
      /\ [d EXCEPT !.bom = FALSE] \in Doc
  BY <1>1
<1>3. \A h \in H : [d EXCEPT !.headers = h] \in Doc
  BY <1>1
<1>4. \A c \in C : [d EXCEPT !.chapters = c] \in Doc
  BY <1>1
<1> QED
  BY <1>2, <1>3, <1>4 DEF H, C

LEMMA EditedDocumentsAreDocuments ==
    ASSUME NEW d \in Doc, d.headers # <<>>, d.chapters # <<>>, NEW x \in EditedDocuments(d)
    PROVE  x \in Doc
<1> DEFINE k == Len(d.chapters)
           h == d.headers
           cs == d.chapters
<1>0. /\ h \in Seq(Rec) /\ cs \in Seq(Chapter) /\ h # <<>> /\ cs # <<>> /\ k = Len(cs)
      /\ k \in Nat /\ k \in 1 .. k /\ 1 \in 1 .. k /\ 1 \in 1 .. Len(h)
      /\ \A c \in 1 .. k : cs[c] \in Chapter /\ cs[c].markers \in Seq(Rec)
      /\ h[1] \in Rec
  <2>1. Shaped(d) /\ h \in Seq(Rec) /\ cs \in Seq(Chapter)
    BY DEF Doc, Shaped
  <2>2. k \in Nat \ {0} /\ \A c \in 1 .. k : cs[c] \in Chapter /\ cs[c].markers \in Seq(Rec)
    BY <2>1, ShapedFacts
  <2>3. 1 \in 1 .. Len(h)
    BY <2>1
  <2> QED
    BY <2>1, <2>2, <2>3, ShapedFacts
<1> DEFINE many == [i \in 1 .. MAX_CHAPTERS + 1 |-> [cs[1] EXCEPT !.number = i]]
           first == [h EXCEPT ![1] = [h[1] EXCEPT !.number = 1]]
           two == [cs EXCEPT ![1] = [cs[1] EXCEPT !.number = 2]]
           Last1(m) == [cs EXCEPT ![k] = [cs[k] EXCEPT !.markers = m]]
<1>1. \/ x = [d EXCEPT !.json = FALSE] \/ x = [d EXCEPT !.metadata = FALSE] \/ x = [d EXCEPT !.bom = FALSE]
      \/ x = [d EXCEPT !.chapters = <<>>] \/ x = [d EXCEPT !.headers = Tail(h)]
      \/ x = [d EXCEPT !.headers = first] \/ x = [d EXCEPT !.chapters = two]
      \/ x = [d EXCEPT !.chapters = Tail(cs)] \/ x = [d EXCEPT !.chapters = many]
      \/ \E m \in EditedMarkers(cs[k].markers) : x = [d EXCEPT !.chapters = Last1(m)]
  BY DEF EditedDocuments, Last
<1>2. <<>> \in Seq(Chapter)
  BY ONLY EmptySeq
<1>3. Tail(h) \in Seq(Rec) /\ Tail(cs) \in Seq(Chapter)
  BY <1>0, HeadTailProperties
<1>4. first \in Seq(Rec)
  <2>1. [h[1] EXCEPT !.number = 1] \in Rec
    BY <1>0 DEF Rec
  <2> QED
    BY <2>1, <1>0, ChangedSeq
<1>5. two \in Seq(Chapter)
  <2>1. [cs[1] EXCEPT !.number = 2] \in Chapter
    BY <1>0 DEF Chapter
  <2> QED
    BY <2>1, <1>0, ChangedSeq
<1>6. many \in Seq(Chapter)
  <2> DEFINE n == MAX_CHAPTERS + 1
  <2>1. n \in Nat
    BY BookFacts
  <2>2. ASSUME NEW i \in 1 .. n PROVE [cs[1] EXCEPT !.number = i] \in Chapter
    <3> DEFINE c == cs[1]
    <3>1. c \in Chapter /\ i \in Nat
      BY <1>0, <2>1
    <3> HIDE DEF c
    <3>2. [c EXCEPT !.number = i] \in Chapter
      BY <3>1 DEF Chapter
    <3> QED
      BY <3>2 DEF c
  <2> HIDE DEF n
  <2>3. [i \in 1 .. n |-> [cs[1] EXCEPT !.number = i]] \in Seq(Chapter)
    BY <2>1, <2>2
  <2> QED
    BY <2>3 DEF n
<1>7. ASSUME NEW m \in EditedMarkers(cs[k].markers) PROVE Last1(m) \in Seq(Chapter)
  <2>1. m \in Seq(Rec)
    <3>1. cs[k].markers \in Seq(Rec)
      BY <1>0
    <3> QED
      BY <3>1, EditedMarkersAreRecords
  <2>2. [cs[k] EXCEPT !.markers = m] \in Chapter
    <3>1. cs[k] \in Chapter
      BY <1>0
    <3> QED
      BY <2>1, <3>1 DEF Chapter
  <2> QED
    BY <2>2, <1>0, ChangedSeq
<1> HIDE DEF many, first, two, Last1, h, cs, k
<1> QED
  BY <1>1, <1>2, <1>3, <1>4, <1>5, <1>6, <1>7, ChangedDoc

-----------------------------------------------------------------------------
(* The reader.                                                             *)

LEMMA CallFacts ==
    ASSUME NEW call \in Calls
    PROVE  call.png \in Nat /\ call.passphrase \in Nat /\ call.opened \in Openings
<1>1. MAX_JNI_PNG_BYTES \in Nat /\ MAX_JNI_PASSPHRASE_BYTES \in Nat
  BY ConstantsAssumption
<1>2. "ok" \in Openings
  BY DEF Openings
<1>3. Whole.png \in Nat /\ Whole.passphrase \in Nat /\ Whole.opened \in Openings
  BY <1>1, <1>2 DEF Whole
<1>4. CASE call = Whole
  BY <1>3, <1>4
<1>5. CASE call = [Whole EXCEPT !.png = @ + 1]
  BY <1>1, <1>2, <1>5 DEF Whole
<1>6. CASE call = [Whole EXCEPT !.jni = FALSE]
  BY <1>1, <1>2, <1>6 DEF Whole
<1>7. ASSUME NEW n \in {0, MAX_JNI_PASSPHRASE_BYTES, MAX_JNI_PASSPHRASE_BYTES + 1},
             call = [Whole EXCEPT !.passphrase = n]
      PROVE  call.png \in Nat /\ call.passphrase \in Nat /\ call.opened \in Openings
  BY <1>1, <1>2, <1>7 DEF Whole
<1>8. ASSUME NEW o \in Openings, call = [Whole EXCEPT !.opened = o]
      PROVE  call.png \in Nat /\ call.passphrase \in Nat /\ call.opened \in Openings
  BY <1>1, <1>8 DEF Whole
<1> QED
  BY <1>4, <1>5, <1>6, <1>7, <1>8 DEF Calls

\* The bridge hands out the book when nothing is wrong with the call, the
\* media type or the document, and a code for it otherwise.
LEMMA DecodedIsValid ==
    ASSUME NEW call \in Calls
    PROVE  DecodeCode(call) = "book" <=>
               Fine(call) /\ capsule[1].media /\ validate_document(capsule[1].document)
<1>1. call.png \in Nat /\ call.passphrase \in Nat /\ call.opened \in Openings /\ MAX_JNI_PNG_BYTES \in Nat
  BY CallFacts, ConstantsAssumption
<1>2. call.opened # "ok" => map_open_error(call.opened) # "book"
  BY <1>1 DEF Openings, map_open_error
<1>3. decode_book_png(call.opened) = "book" <=>
          call.opened = "ok" /\ capsule[1].media /\ validate_document(capsule[1].document)
  BY <1>2 DEF decode_book_png
<1>4. call.png > MAX_JNI_PNG_BYTES <=> ~(call.png <= MAX_JNI_PNG_BYTES)
  BY <1>1
<1> QED
  BY <1>3, <1>4 DEF DecodeCode, Fine

\* A book of the package is laid out in its text.
LEMMA PackagedIsLaid ==
    ASSUME NEW a \in Artifact, NEW b \in DOMAIN Books, BookKept(a, Books[b])
    PROVE  /\ LaidBook(a.document, a.text)
           /\ a.document \in Doc /\ a.document.headers # <<>> /\ a.document.chapters # <<>>
           /\ Len(a.document.chapters) <= MAX_CHAPTERS
<1>1. a.document \in Doc /\ a.text \in Seq(Token)
  BY DEF Artifact
<1>2. Len(a.document.chapters) \in 1 .. MAX_CHAPTERS /\ MAX_CHAPTERS \in Nat
  BY BookFacts DEF BookKept
<1>3. Shaped(a.document)
  BY <1>1 DEF Doc, Shaped
<1>4. a.document.chapters # <<>>
  BY <1>2, <1>3, ShapedFacts
<1>5. LaidBook(a.document, a.text)
  BY <1>1, <1>4 DEF LaidBook, BookKept
<1>6. Len(a.document.headers) = 7
  BY <1>5, LaidFacts
<1>7. a.document.headers # <<>>
  <2>1. ASSUME NEW h \in Seq(Rec), Len(h) = 7 PROVE h # <<>>
    <3>1. Len(<<>>) = 0
      BY ONLY EmptySeq
    <3>2. h = <<>> => Len(h) = 0
      BY ONLY <3>1
    <3> QED
      BY <2>1, <3>2
  <2>2. a.document.headers \in Seq(Rec)
    BY <1>3 DEF Shaped
  <2> QED
    BY <2>1, <2>2, <1>6
<1> QED
  BY <1>1, <1>2, <1>4, <1>5, <1>7

\* What is sealed, and what the reader makes of it.
Sealed ==
    /\ capsule[1].book \in 1 .. Len(artifacts)
    /\ capsule[1].document \in Doc
    /\ ~capsule[1].edited =>
           capsule[1].media /\ capsule[1].document = artifacts[capsule[1].book].document
Shown ==
    /\ shown.code = "book" <=>
           shown.fine /\ capsule[1].media /\ validate_document(capsule[1].document)
    /\ shown.code = "book" => shown.rows = BookRows(capsule[1].document)
ReaderInv ==
    /\ phase \in {"sealed", "shown"} => Sealed
    /\ phase = "shown" => Shown

LEMMA ReaderStep == ImportInv /\ ReaderInv /\ [Next]_vars => ReaderInv'
<1> SUFFICES ASSUME ImportInv, ReaderInv, [Next]_vars PROVE ReaderInv'
  OBVIOUS
<1>0. /\ artifacts \in Seq(Artifact) /\ Len(artifacts) \in Nat /\ DOMAIN artifacts = 1 .. Len(artifacts)
      /\ \A k \in 1 .. Len(artifacts) : artifacts[k] \in Artifact
      /\ \A k \in 1 .. Len(artifacts) : k \in DOMAIN Books /\ BookKept(artifacts[k], Books[k])
  <2>1. artifacts \in Seq(Artifact) /\ Len(artifacts) <= Len(Books)
        /\ \A k \in 1 .. Len(artifacts) : BookKept(artifacts[k], Books[k])
    BY DEF ImportInv
  <2>2. Len(Books) \in Nat /\ DOMAIN Books = 1 .. Len(Books)
    BY BookFacts
  <2> QED
    BY <2>1, <2>2
<1>1. ASSUME phase' \notin {"sealed", "shown"} PROVE ReaderInv'
  BY <1>1 DEF ReaderInv
<1>2. ASSUME NEW len, NEW plain, OpenArchive(len, plain) PROVE phase' \notin {"sealed", "shown"}
  BY <1>2 DEF OpenArchive, Fail, Continue
<1>3. ASSUME NEW e, ReadEntry(e) PROVE phase' \notin {"sealed", "shown"}
  BY <1>3 DEF ReadEntry, Fail
<1>4. ASSUME FinishEntries PROVE phase' \notin {"sealed", "shown"}
  BY <1>4 DEF FinishEntries, Fail, Continue
<1>5. ASSUME NEW front \in {"bom", "marker", "no marker", "text first", "long line", "not UTF-8"}, BeginBook(front)
      PROVE  phase' \notin {"sealed", "shown"}
  BY <1>5 DEF BeginBook, Fail, Continue
<1>6. ASSUME NEW u, ReadMarker(u) PROVE phase' \notin {"sealed", "shown"}
  BY <1>6 DEF ReadMarker, Fail
<1>7. ASSUME NEW fits, EndBook(fits) PROVE phase' \notin {"sealed", "shown"}
  BY <1>7 DEF EndBook, Fail, Continue
<1>8. ASSUME NEW asPinned, Package(asPinned) PROVE phase' \notin {"sealed", "shown"}
  BY <1>8 DEF Package, Fail, Continue
<1>9. ASSUME NEW k \in DOMAIN artifacts, Seal(k) PROVE ReaderInv'
  <2> DEFINE c == [book |-> k, media |-> TRUE, edited |-> FALSE, document |-> artifacts[k].document]
  <2>1. phase' = "sealed" /\ capsule' = <<c>> /\ artifacts' = artifacts
    BY <1>9 DEF Seal, Continue, bookVars
  <2>2. artifacts[k].document \in Doc
    BY <1>0 DEF Artifact
  <2>3. c.book = k /\ c.media /\ c.document = artifacts[k].document
    OBVIOUS
  <2> HIDE DEF c
  <2>4. Sealed'
    BY <2>1, <2>2, <2>3, <1>0 DEF Sealed
  <2> QED
    BY <2>1, <2>4 DEF ReaderInv
<1>10. ASSUME NEW k \in DOMAIN artifacts, SealOther(k) PROVE ReaderInv'
  <2>1. phase' = "sealed" /\ artifacts' = artifacts
    BY <1>10 DEF SealOther, Continue, bookVars
  <2>2. artifacts[k].document \in Doc
    BY <1>0 DEF Artifact
  <2>3. PICK c : /\ capsule' = <<c>> /\ c.book = k /\ c.edited
                 /\ c.document = artifacts[k].document \/ c.document \in EditedDocuments(artifacts[k].document)
    <3>1. CASE capsule' = <<[book |-> k, media |-> FALSE, edited |-> TRUE, document |-> artifacts[k].document]>>
      BY <3>1
    <3>2. CASE \E d \in EditedDocuments(artifacts[k].document) :
                   capsule' = <<[book |-> k, media |-> TRUE, edited |-> TRUE, document |-> d]>>
      <4>1. PICK d \in EditedDocuments(artifacts[k].document) :
                   capsule' = <<[book |-> k, media |-> TRUE, edited |-> TRUE, document |-> d]>>
        BY <3>2
      <4> HIDE <3>2
      <4> QED
        BY <4>1
    <3> QED
      BY <1>10, <3>1, <3>2 DEF SealOther
  <2>4. c.document \in Doc
    <3>1. artifacts[k].document.headers # <<>> /\ artifacts[k].document.chapters # <<>>
      BY <1>0, PackagedIsLaid
    <3> QED
      BY <2>2, <2>3, <3>1, EditedDocumentsAreDocuments
  <2>5. Sealed'
    BY <2>1, <2>3, <2>4, <1>0 DEF Sealed
  <2> QED
    BY <2>1, <2>5 DEF ReaderInv
<1>11. ASSUME NEW call \in Calls, Decode(call) PROVE ReaderInv'
  <2> DEFINE s == [code |-> DecodeCode(call), fine |-> Fine(call),
                   rows |-> IF DecodeCode(call) = "book" THEN BookRows(capsule[1].document) ELSE <<>>]
  <2>1. phase = "sealed" /\ phase' = "shown" /\ shown' = s /\ artifacts' = artifacts /\ capsule' = capsule
    BY <1>11 DEF Decode, Continue, bookVars
  <2>2. /\ s.code = DecodeCode(call) /\ s.fine = Fine(call)
        /\ DecodeCode(call) = "book" => s.rows = BookRows(capsule[1].document)
    OBVIOUS
  <2>3. DecodeCode(call) = "book" <=>
            Fine(call) /\ capsule[1].media /\ validate_document(capsule[1].document)
    BY DecodedIsValid
  <2> HIDE DEF s
  <2>4. Shown'
    BY <2>1, <2>2, <2>3 DEF Shown
  <2>5. Sealed'
    BY <2>1 DEF ReaderInv, Sealed
  <2> QED
    BY <2>1, <2>4, <2>5 DEF ReaderInv
<1>12. ASSUME UNCHANGED vars PROVE ReaderInv'
  <2>1. phase' = phase /\ artifacts' = artifacts /\ capsule' = capsule /\ shown' = shown
    BY <1>12 DEF vars, bookVars, readerVars
  <2> QED
    BY <2>1 DEF ReaderInv, Sealed, Shown
<1> QED
  BY <1>1, <1>2, <1>3, <1>4, <1>5, <1>6, <1>7, <1>8, <1>9, <1>10, <1>11, <1>12 DEF Next

\* From archive to screen, for any books, texts, limits and edits: a book of
\* the package is the one pinned for it and the app shows it marker by marker
\* when it is legible; of another document it shows exactly the readable ones
\* (decode_book_png, validate_document, BookModel.kt).
THEOREM ReaderTheorem == Spec => []ReaderShowsTheBook
<1>1. Init => ReaderInv
  BY DEF Init, ReaderInv
<1>2. ImportInv /\ ReaderInv => ReaderShowsTheBook
  <2> SUFFICES ASSUME ImportInv, ReaderInv, phase = "shown" PROVE ReaderShowsTheBook
    BY DEF ReaderShowsTheBook
  <2> DEFINE k == capsule[1].book
             a == artifacts[k]
             d == capsule[1].document
  <2>1. Sealed /\ Shown
    BY DEF ReaderInv
  <2>2. d \in Doc /\ k \in 1 .. Len(artifacts) /\ (~capsule[1].edited => capsule[1].media /\ d = a.document)
    BY <2>1 DEF Sealed
  <2>3. validate_document(d) <=> Readable(d)
    BY <2>2, ValidateIsReadable
  <2>4. a \in Artifact /\ k \in DOMAIN Books /\ BookKept(a, Books[k])
    BY <2>2, BookFacts DEF ImportInv
  <2>5. LaidBook(a.document, a.text) /\ Len(a.document.chapters) <= MAX_CHAPTERS
    BY <2>4, PackagedIsLaid
  <2>6. /\ a.document.json /\ a.document.metadata /\ a.raw = Books[k].file
        /\ Len(a.text) >= 7 /\ SubSeq(NamesOf(a.text), 1, 7) \in CanonicalHeaders
        /\ AllClosed(NamesOf(a.text), Len(a.text))
    BY <2>4 DEF BookKept, Complete
  <2>7. Readable(a.document) <=> Legible(a)
    BY <2>5, <2>6, LegibleIsReadable
  <2>8. BookRows(a.document) = RowsOfText(a.text)
    BY <2>5, BookRowsAreText
  <2>9. /\ shown.code = "book" <=> shown.fine /\ capsule[1].media /\ validate_document(d)
        /\ shown.code = "book" => shown.rows = BookRows(d)
    BY <2>1 DEF Shown
  <2> HIDE DEF k, a, d
  <2>10. /\ shown.code = "book" <=> shown.fine /\ capsule[1].media /\ Readable(d)
         /\ ~capsule[1].edited =>
                /\ a.raw = Books[k].file
                /\ shown.fine => (shown.code = "book" <=> Legible(a))
                /\ shown.code = "book" => shown.rows = RowsOfText(a.text)
    BY ONLY <2>2, <2>3, <2>6, <2>7, <2>8, <2>9
  <2> QED
    BY <2>10 DEF ReaderShowsTheBook, k, a, d
<1> QED
  BY <1>1, <1>2, ImportInit, ImportStep, ReaderStep, PTL DEF Spec
=============================================================================

---------------------------- MODULE EncoderProofs ----------------------------
(***************************************************************************)
(* Proofs about Encoder, for every block table, every capacity and every   *)
(* target.  Tiling and SymbolsFit are inductive together: the symbol being *)
(* filled is one that Flush may append at any moment. That greedy packing  *)
(* is optimal rests on the table Fewest is read from never growing: what a *)
(* longer first symbol leaves is never harder to carry. The search is      *)
(* optimal because it knows the best of the Ks it has been through.        *)
(***************************************************************************)
EXTENDS Encoder, Induction

\* The table is one of the inputs throughout; the other conjuncts are the
\* invariants the model checker runs.
IInv ==
    /\ offset \in OffsetTables
    /\ TypeOK
    /\ Tiling
    /\ SymbolsFit

\* What the assumption says of the table at hand.
LEMMA TableFacts ==
    ASSUME offset \in OffsetTables
    PROVE  /\ offset \in Seq(Nat)
           /\ Total \in Nat \ {0}
           /\ \A b \in 0 .. Total : Offset(b) \in Nat
           /\ \A b \in 0 .. (Total - 1) : Offset(b) < Offset(b + 1)
  <1>1. /\ offset \in Seq(Nat)
        /\ Len(offset) >= 2
        /\ \A i \in 1 .. (Len(offset) - 1) : offset[i] < offset[i + 1]
    BY ConstantsAssumption
  <1> QED
    BY <1>1 DEF Total, Offset

\* Appending the symbol being filled keeps the tiling and the capacity: what
\* Flush and the end of the loop rely on.
LEMMA AppendCurrent ==
    ASSUME IInv, Running, current_count # 0
    PROVE  /\ Append(packings, Current) \in Seq(Packing)
           /\ Len(Append(packings, Current)) = Len(packings) + 1
           /\ \A i \in 1 .. (Len(packings) + 1) :
                Append(packings, Current)[i] =
                    IF i = Len(packings) + 1 THEN Current ELSE packings[i]
           /\ EndOf(Current) = next_block
           /\ Current.block_start = current_start
           /\ Current.block_count \in 1 .. TargetBlocks
           /\ BytesOf(Current) <= available_capacity
  <1>1. /\ packings \in Seq(Packing)
        /\ current_count \in 1 .. TargetBlocks
        /\ current_start \in Nat
        /\ current_start + current_count = next_block
        /\ current_size = BytesOf(Current)
        /\ current_size <= available_capacity
    BY ConstantsAssumption DEF IInv, TypeOK, Tiling, SymbolsFit
  <1>2. Current \in Packing
    BY <1>1, ConstantsAssumption DEF Current, Packing
  <1> QED
    BY <1>1, <1>2, ConstantsAssumption DEF Current, EndOf

\* The tiling, and the bounds on each symbol, after the append.
LEMMA AppendTiles ==
    ASSUME IInv, Running, current_count # 0,
           NEW p, p = Append(packings, Current)
    PROVE  /\ p # <<>>
           /\ EndOf(p[Len(p)]) = next_block
           /\ \A i \in DOMAIN p :
                /\ p[i].block_start = IF i = 1 THEN 0 ELSE EndOf(p[i - 1])
                /\ p[i].block_count \in 1 .. TargetBlocks
                /\ EndOf(p[i]) <= Total
                /\ BytesOf(p[i]) <= available_capacity
  <1> DEFINE n == Len(packings)
  <1>1. /\ packings \in Seq(Packing) /\ n \in Nat /\ DOMAIN packings = 1 .. n
        /\ p \in Seq(Packing) /\ Len(p) = n + 1 /\ DOMAIN p = 1 .. (n + 1)
        /\ p[n + 1] = Current
        /\ \A i \in 1 .. n : p[i] = packings[i]
    <2>1. packings \in Seq(Packing)
      BY DEF IInv, TypeOK
    <2>2. p \in Seq(Packing) /\ Len(p) = n + 1
      BY AppendCurrent
    <2>3. n \in Nat /\ DOMAIN packings = 1 .. n /\ DOMAIN p = 1 .. (n + 1)
      BY <2>1, <2>2
    <2>4. n + 1 \in 1 .. (n + 1) /\ \A i \in 1 .. n : i \in 1 .. (n + 1) /\ i # n + 1
      BY <2>3
    <2> QED
      BY <2>1, <2>2, <2>3, <2>4, AppendCurrent
  <1>2. /\ EndOf(Current) = next_block
        /\ Current.block_start = current_start
        /\ Current.block_count \in 1 .. TargetBlocks
        /\ BytesOf(Current) <= available_capacity
    BY AppendCurrent
  <1>3. next_block <= Total
    BY TableFacts DEF IInv, TypeOK
  <1>4. current_start = IF n = 0 THEN 0 ELSE EndOf(packings[n])
    BY <1>1 DEF IInv, Tiling
  <1>5. \A i \in 1 .. n :
          /\ packings[i].block_start =
                IF i = 1 THEN 0 ELSE EndOf(packings[i - 1])
          /\ packings[i].block_count \in 1 .. TargetBlocks
          /\ EndOf(packings[i]) <= Total
          /\ BytesOf(packings[i]) <= available_capacity
    BY <1>1 DEF IInv, Tiling, SymbolsFit
  <1>6. ASSUME NEW i \in 1 .. (n + 1)
        PROVE  /\ p[i].block_start = IF i = 1 THEN 0 ELSE EndOf(p[i - 1])
               /\ p[i].block_count \in 1 .. TargetBlocks
               /\ EndOf(p[i]) <= Total
               /\ BytesOf(p[i]) <= available_capacity
    <2>1. CASE i = n + 1
      <3>1. i # 1 => i - 1 = n /\ n \in 1 .. n /\ n # 0
        BY <1>1, <2>1
      <3>2. i = 1 => n = 0
        BY <1>1, <2>1
      <3>3. p[i] = Current /\ (i # 1 => p[i - 1] = packings[n])
        BY <1>1, <2>1, <3>1
      <3> QED
        BY <1>2, <1>3, <1>4, <3>1, <3>2, <3>3
    <2>2. CASE i # n + 1
      <3>1. i \in 1 .. n /\ (i # 1 => i - 1 \in 1 .. n)
        BY <1>1, <2>2
      <3>2. p[i] = packings[i] /\ (i # 1 => p[i - 1] = packings[i - 1])
        BY <1>1, <3>1
      <3> QED
        BY <1>5, <3>1, <3>2
    <2> QED
      BY <2>1, <2>2
  <1> QED
    BY <1>1, <1>2, <1>6

-----------------------------------------------------------------------------
(* The fewest symbols, as a table of its own: Fewest with the block table   *)
(* as a parameter.                                                          *)

Blocks(t) == Len(t) - 1
Room(t, j, b, e) ==
    /\ e - b <= TargetBlocks
    /\ HeaderLen + t[e + 1] - t[b + 1] <= j * DataLen
Firsts(t, j, b) == {e \in (b + 1) .. Blocks(t) : Room(t, j, b, e)}
Costs(f, t, j, b) == {1 + f[e] : e \in Firsts(t, j, b)} \cup {Blocks(t) + 1}
Smallest(S) == CHOOSE n \in S : \A m \in S : n <= m
Entry(f, t, j, b) == IF b = Blocks(t) THEN 0 ELSE Smallest(Costs(f, t, j, b))

IsTable(f, t, j) == f = [b \in 0 .. Blocks(t) |-> Entry(f, t, j, b)]
Table(t, j) == CHOOSE f : IsTable(f, t, j)

LEMMA FewestIsTable == \A j : Fewest(j) = Table(offset, j)[0]
  BY DEF Fewest, Table, IsTable, Entry, Smallest, Costs, Firsts, Room, Blocks,
         Total, Offset

LEMMA SmallestIsLeast ==
    ASSUME NEW S \in SUBSET Nat, S # {}
    PROVE  Smallest(S) \in S /\ \A m \in S : Smallest(S) <= m
  BY LeastExists DEF Smallest

\* The table is built from the last block back.
BuiltTo(f, t, j, n) ==
    \A b \in (Blocks(t) - n) .. Blocks(t) :
        f[b] = Entry(f, t, j, b) /\ f[b] \in 0 .. Blocks(t) + 1

LEMMA EntryBounds ==
    ASSUME NEW t, Blocks(t) \in Nat, NEW j, NEW b \in 0 .. Blocks(t), NEW f,
           \A e \in (b + 1) .. Blocks(t) : f[e] \in Nat
    PROVE  /\ Entry(f, t, j, b) \in 0 .. Blocks(t) + 1
           /\ b # Blocks(t) =>
                 /\ Entry(f, t, j, b) \in Costs(f, t, j, b)
                 /\ \A m \in Costs(f, t, j, b) : Entry(f, t, j, b) <= m
  <1>1. Costs(f, t, j, b) \in SUBSET Nat /\ Blocks(t) + 1 \in Costs(f, t, j, b)
    BY DEF Costs, Firsts
  <1>2. /\ Smallest(Costs(f, t, j, b)) \in Costs(f, t, j, b)
        /\ \A m \in Costs(f, t, j, b) : Smallest(Costs(f, t, j, b)) <= m
    <2> DEFINE S == Costs(f, t, j, b)
    <2>1. S \in SUBSET Nat /\ S # {}
      BY <1>1
    <2> HIDE DEF S
    <2>2. Smallest(S) \in S /\ \A m \in S : Smallest(S) <= m
      BY <2>1, SmallestIsLeast
    <2> QED
      BY <2>2 DEF S
  <1> QED
    BY <1>1, <1>2 DEF Entry

LEMMA TableExists ==
    ASSUME NEW t, Blocks(t) \in Nat, NEW j
    PROVE  \E f : IsTable(f, t, j)
  <1> DEFINE N == Blocks(t)
             S == {n \in Nat : n <= N => \E f : BuiltTo(f, t, j, n)}
  <1>1. 0 \in S
    <2> DEFINE f == [b \in {N} |-> 0]
    <2>1. f[N] = 0 /\ Entry(f, t, j, N) = 0
      BY DEF Entry
    <2>2. BuiltTo(f, t, j, 0)
      BY <2>1 DEF BuiltTo
    <2> QED
      BY <2>2
  <1>2. ASSUME NEW n \in Nat, n \in S PROVE n + 1 \in S
    <2> SUFFICES ASSUME n + 1 <= N PROVE \E g : BuiltTo(g, t, j, n + 1)
      OBVIOUS
    <2>1. PICK f : BuiltTo(f, t, j, n)
      BY <1>2
    <2> DEFINE a == N - (n + 1)
               g == [b \in a .. N |-> IF b = a THEN Entry(f, t, j, a) ELSE f[b]]
    <2>2. a \in 0 .. N /\ a # N /\ N - n = a + 1
      OBVIOUS
    <2>3. ASSUME NEW b \in a .. N PROVE Entry(g, t, j, b) = Entry(f, t, j, b)
      <3>1. \A e \in Firsts(t, j, b) : g[e] = f[e]
        BY DEF Firsts
      <3>2. Costs(g, t, j, b) = Costs(f, t, j, b)
        BY <3>1 DEF Costs
      <3> QED
        BY <3>2 DEF Entry
    <2>4. \A b \in (a + 1) .. N : f[b] = Entry(f, t, j, b) /\ f[b] \in 0 .. N + 1
      BY <2>1, <2>2 DEF BuiltTo
    <2>5. Entry(f, t, j, a) \in 0 .. N + 1
      BY <2>2, <2>4, EntryBounds
    <2>6. ASSUME NEW b \in a .. N
          PROVE  g[b] = Entry(g, t, j, b) /\ g[b] \in 0 .. N + 1
      <3>1. CASE b = a
        BY <2>3, <2>5, <3>1
      <3>2. CASE b # a
        <4>1. b \in (a + 1) .. N /\ g[b] = f[b]
          BY <2>2, <3>2
        <4> QED
          BY <2>3, <2>4, <4>1
      <3> QED
        BY <3>1, <3>2
    <2>7. BuiltTo(g, t, j, n + 1)
      BY <2>6 DEF BuiltTo
    <2> QED
      BY <2>7
  <1>3. N \in S
    <2> HIDE DEF S
    <2> QED
      BY <1>1, <1>2, Induction
  <1>4. PICK f : BuiltTo(f, t, j, N)
    BY <1>3
  <1> DEFINE g == [b \in 0 .. N |-> f[b]]
  <1>5. ASSUME NEW b \in 0 .. N PROVE g[b] = Entry(g, t, j, b)
    <2>1. \A e \in Firsts(t, j, b) : g[e] = f[e]
      BY DEF Firsts
    <2>2. Costs(g, t, j, b) = Costs(f, t, j, b)
      BY <2>1 DEF Costs
    <2>3. f[b] = Entry(f, t, j, b)
      BY <1>4 DEF BuiltTo
    <2> QED
      BY <2>2, <2>3 DEF Entry
  <1>6. IsTable(g, t, j)
    BY <1>5 DEF IsTable
  <1> QED
    BY <1>6

\* What the table says of each block: nothing is left to carry after the last
\* one, and before it the best first symbol is taken.
LEMMA TableValues ==
    ASSUME NEW t, Blocks(t) \in Nat, NEW j
    PROVE  /\ \A b \in 0 .. Blocks(t) : Table(t, j)[b] \in 0 .. Blocks(t) + 1
           /\ Table(t, j)[Blocks(t)] = 0
           /\ \A b \in 0 .. Blocks(t) : b # Blocks(t) =>
                 /\ Table(t, j)[b] \in Costs(Table(t, j), t, j, b)
                 /\ \A m \in Costs(Table(t, j), t, j, b) : Table(t, j)[b] <= m
  <1> DEFINE N == Blocks(t)
             f == Table(t, j)
  <1>1. IsTable(f, t, j)
    BY TableExists DEF Table
  <1> HIDE DEF f
  <1>2. \A b \in 0 .. N : f[b] = Entry(f, t, j, b)
    BY <1>1 DEF IsTable
  <1> DEFINE S == {n \in Nat : n <= N => \A b \in (N - n) .. N : f[b] \in 0 .. N + 1}
  <1>3. 0 \in S
    BY <1>2 DEF Entry
  <1>4. ASSUME NEW n \in Nat, n \in S PROVE n + 1 \in S
    <2> SUFFICES ASSUME n + 1 <= N, NEW b \in (N - (n + 1)) .. N
                 PROVE  f[b] \in 0 .. N + 1
      OBVIOUS
    <2>1. \A e \in (b + 1) .. N : f[e] \in Nat
      BY <1>4
    <2>2. b \in 0 .. N
      OBVIOUS
    <2> QED
      BY <1>2, <2>1, <2>2, EntryBounds
  <1>5. N \in S
    <2> HIDE DEF S
    <2> QED
      BY <1>3, <1>4, Induction
  <1>6. \A b \in 0 .. N : f[b] \in 0 .. N + 1
    BY <1>5
  <1>7. ASSUME NEW b \in 0 .. N, b # N
        PROVE  /\ f[b] \in Costs(f, t, j, b)
               /\ \A m \in Costs(f, t, j, b) : f[b] <= m
    BY <1>2, <1>6, <1>7, EntryBounds
  <1>8. f[N] = 0
    BY <1>2 DEF Entry
  <1> QED
    BY <1>6, <1>7, <1>8 DEF f

\* What the assumption says of a table of the inputs.
LEMMA InputFacts ==
    ASSUME NEW t \in OffsetTables
    PROVE  /\ Blocks(t) \in Nat \ {0}
           /\ \A b \in 0 .. Blocks(t) : t[b + 1] \in Nat
           /\ \A b, c \in 0 .. Blocks(t) : b <= c => t[b + 1] <= t[c + 1]
  <1>1. /\ t \in Seq(Nat) /\ Len(t) >= 2
        /\ \A i \in 1 .. (Len(t) - 1) : t[i] < t[i + 1]
    BY ConstantsAssumption
  <1>2. Blocks(t) \in Nat \ {0} /\ Len(t) = Blocks(t) + 1
    BY <1>1 DEF Blocks
  <1>3. \A b \in 0 .. Blocks(t) : t[b + 1] \in Nat
    BY <1>1, <1>2
  <1>4. \A b \in 0 .. Blocks(t) : b # Blocks(t) => t[b + 1] <= t[b + 2]
    <2> SUFFICES ASSUME NEW b \in 0 .. Blocks(t), b # Blocks(t) PROVE t[b + 1] <= t[b + 2]
      OBVIOUS
    <2>1. b + 1 \in 1 .. (Len(t) - 1) /\ (b + 1) + 1 = b + 2 /\ b + 1 \in 0 .. Blocks(t)
      BY <1>2
    <2>2. t[b + 1] < t[b + 2] /\ t[b + 1] \in Nat /\ t[b + 2] \in Nat
      BY <1>1, <1>3, <2>1
    <2> QED
      BY <2>2
  <1> DEFINE S == {n \in Nat : \A b \in 0 .. Blocks(t) :
                      b + n <= Blocks(t) => t[b + 1] <= t[b + n + 1]}
  <1>5. 0 \in S
    BY <1>3
  <1>6. ASSUME NEW n \in Nat, n \in S PROVE n + 1 \in S
    <2> SUFFICES ASSUME NEW b \in 0 .. Blocks(t), b + (n + 1) <= Blocks(t)
                 PROVE  t[b + 1] <= t[b + (n + 1) + 1]
      OBVIOUS
    <2>1. t[b + 1] <= t[b + n + 1]
      BY <1>2, <1>6
    <2>2. b + n \in 0 .. Blocks(t) /\ b + n # Blocks(t) /\ b + n + 1 \in 0 .. Blocks(t)
      BY <1>2
    <2>3. t[b + n + 1] <= t[b + n + 2]
      BY <1>4, <2>2
    <2>4. b + (n + 1) + 1 = b + n + 2 /\ (b + n + 1) + 1 = b + n + 2
      OBVIOUS
    <2>5. t[b + 1] \in Nat /\ t[b + n + 1] \in Nat /\ t[b + n + 2] \in Nat
      BY <1>3, <2>2, <2>4
    <2> QED
      BY <2>1, <2>3, <2>4, <2>5
  <1>7. \A n \in Nat : n \in S
    <2> HIDE DEF S
    <2> QED
      BY <1>5, <1>6, Induction
  <1>8. ASSUME NEW b \in 0 .. Blocks(t), NEW c \in 0 .. Blocks(t), b <= c
        PROVE  t[b + 1] <= t[c + 1]
    <2>1. c - b \in Nat /\ b + (c - b) = c
      BY <1>2, <1>8
    <2>2. c - b \in S
      <3> HIDE DEF S
      <3> QED
        BY <1>7, <2>1
    <2>3. t[b + 1] <= t[b + (c - b) + 1]
      BY <2>1, <2>2
    <2> QED
      BY <2>1, <2>3
  <1> QED
    BY <1>2, <1>3, <1>8

\* Fewer blocks never need more symbols.
LEMMA TableShrinks ==
    ASSUME NEW t \in OffsetTables, NEW j \in Nat
    PROVE  \A b, c \in 0 .. Blocks(t) : b <= c => Table(t, j)[c] <= Table(t, j)[b]
  <1> DEFINE N == Blocks(t)
             f == Table(t, j)
  <1>1. N \in Nat
    BY InputFacts
  <1>2. /\ \A b \in 0 .. N : f[b] \in 0 .. N + 1
        /\ f[N] = 0
        /\ \A b \in 0 .. N : b # N =>
              f[b] \in Costs(f, t, j, b) /\ \A m \in Costs(f, t, j, b) : f[b] <= m
    BY <1>1, TableValues
  <1> HIDE DEF f
  <1> DEFINE Below(b) == \A c \in b .. N : f[c] <= f[b]
             S == {n \in Nat : n <= N => \A b \in (N - n) .. N : Below(b)}
  <1>3. 0 \in S
    BY <1>1, <1>2
  <1>4. ASSUME NEW n \in Nat, n \in S PROVE n + 1 \in S
    <2> SUFFICES ASSUME n + 1 <= N, NEW b \in (N - (n + 1)) .. N, NEW c \in b .. N, c # b
                 PROVE  f[c] <= f[b]
      BY <1>1, <1>2
    <2>1. b \in 0 .. N /\ c \in 0 .. N /\ b # N
      BY <1>1
    <2>2. CASE f[b] = N + 1
      BY <1>1, <1>2, <2>1, <2>2
    <2>3. CASE \E e \in Firsts(t, j, b) : f[b] = 1 + f[e]
      <3>1. PICK e \in Firsts(t, j, b) : f[b] = 1 + f[e]
        BY <2>3
      <3>2. /\ e \in (b + 1) .. N /\ e - b <= TargetBlocks
            /\ HeaderLen + t[e + 1] - t[b + 1] <= j * DataLen
        BY DEF Firsts, Room
      <3>3. f[c] \in Nat /\ f[e] \in Nat /\ e \in 0 .. N
        BY <1>1, <1>2, <2>1, <3>2
      <3>4. CASE e <= c
        <4>1. f[c] <= f[e]
          BY <1>1, <1>4, <2>1, <3>2, <3>4
        <4> QED
          BY <3>1, <3>3, <4>1
      <3>5. CASE c < e
        <4>1. c # N /\ e \in (c + 1) .. N /\ e - c <= TargetBlocks
          BY <1>1, <2>1, <3>2, <3>5, ConstantsAssumption
        <4>2. HeaderLen + t[e + 1] - t[c + 1] <= j * DataLen
          <5>1. t[b + 1] <= t[c + 1] /\ t[b + 1] \in Nat /\ t[c + 1] \in Nat
                /\ t[e + 1] \in Nat
            BY <2>1, <3>3, InputFacts
          <5>2. j * DataLen \in Nat /\ HeaderLen \in Nat
            BY ConstantsAssumption
          <5> QED
            BY <3>2, <5>1, <5>2
        <4>3. e \in Firsts(t, j, c)
          BY <4>1, <4>2 DEF Firsts, Room
        <4>4. f[c] <= 1 + f[e]
          BY <1>2, <2>1, <4>1, <4>3 DEF Costs
        <4> QED
          BY <3>1, <4>4
      <3> QED
        BY <2>1, <3>2, <3>4, <3>5
    <2> QED
      BY <1>2, <2>1, <2>2, <2>3 DEF Costs
  <1>5. N \in S
    <2> HIDE DEF S
    <2> QED
      BY <1>1, <1>3, <1>4, Induction
  <1>6. \A b \in 0 .. N : Below(b)
    BY <1>1, <1>5
  <1> QED
    BY <1>6 DEF f

\* Taking as many blocks as there is room for is best: the first symbol of the
\* blocks from b on may as well end at the last block it can.
LEMMA FarthestIsBest ==
    ASSUME NEW t \in OffsetTables, NEW j \in Nat, NEW b \in 0 .. Blocks(t),
           NEW e \in Firsts(t, j, b), \A d \in Firsts(t, j, b) : d <= e
    PROVE  /\ Table(t, j)[b] <= 1 + Table(t, j)[e]
           /\ Table(t, j)[b] <= Blocks(t) => Table(t, j)[b] = 1 + Table(t, j)[e]
  <1> DEFINE N == Blocks(t)
             f == Table(t, j)
  <1>1. N \in Nat
    BY InputFacts
  <1>2. e \in 0 .. N /\ b # N
    BY <1>1 DEF Firsts
  <1>3. /\ f[b] \in Nat /\ f[e] \in Nat
        /\ f[b] \in Costs(f, t, j, b) /\ \A m \in Costs(f, t, j, b) : f[b] <= m
    BY <1>1, <1>2, TableValues
  <1>4. f[b] <= 1 + f[e]
    <2> HIDE DEF f
    <2> QED
      BY <1>3 DEF Costs
  <1>5. ASSUME f[b] <= N PROVE f[b] = 1 + f[e]
    <2>1. PICK d \in Firsts(t, j, b) : f[b] = 1 + f[d]
      <3> HIDE DEF f
      <3>1. f[b] # N + 1
        BY <1>1, <1>3, <1>5
      <3> QED
        BY <1>3, <3>1 DEF Costs
    <2>2. d \in 0 .. N /\ d <= e
      BY <1>1 DEF Firsts
    <2>3. f[e] <= f[d] /\ f[d] \in Nat
      BY <1>1, <1>2, <2>2, TableShrinks, TableValues
    <2> HIDE DEF f
    <2> QED
      BY <1>3, <1>4, <2>1, <2>3
  <1> QED
    BY <1>4, <1>5

LEMMA InitInv == Init => IInv
  <1> SUFFICES ASSUME Init PROVE IInv
    OBVIOUS
  <1>1. /\ offset \in OffsetTables /\ Total \in Nat \ {0}
        /\ Offset(0) \in Nat /\ offset \in Seq(Nat)
    BY TableFacts DEF Init
  <1>2. TypeOK
    BY <1>1, ConstantsAssumption DEF Init, TypeOK, Phases
  <1>3. Tiling
    BY <1>1 DEF Init, Tiling, Running
  <1>4. SymbolsFit
    BY <1>1, ConstantsAssumption DEF Init, SymbolsFit, BytesOf, Current, EndOf
  <1> QED
    BY <1>1, <1>2, <1>3, <1>4 DEF IInv

LEMMA CloseSymbolInv == IInv /\ CloseSymbol => IInv'
  <1> SUFFICES ASSUME IInv, CloseSymbol PROVE IInv'
    OBVIOUS
  <1>1. /\ Running /\ Flush /\ UNCHANGED <<offset, phase, k, best>>
        /\ next_block < Total
        /\ current_count # 0
    BY ConstantsAssumption DEF CloseSymbol, Full
  <1>2. /\ packings' = Append(packings, Current)
        /\ current_start' = next_block
        /\ current_count' = 0
        /\ current_size' = HeaderLen
        /\ next_block' = next_block
    BY <1>1 DEF Flush
  <1>3. TypeOK'
    BY <1>1, <1>2, AppendCurrent, TableFacts, ConstantsAssumption
    DEF IInv, TypeOK, Total
  <1>4. Tiling'
    <2>1. /\ packings' # <<>>
          /\ EndOf(packings'[Len(packings')]) = next_block
          /\ \A i \in DOMAIN packings' :
               packings'[i].block_start =
                 IF i = 1 THEN 0 ELSE EndOf(packings'[i - 1])
      BY <1>1, <1>2, AppendTiles
    <2>2. next_block \in Nat /\ phase' # "encoded"
      BY <1>1, TableFacts DEF IInv, TypeOK, Running
    <2> QED
      BY <1>2, <2>1, <2>2 DEF Tiling, EndOf
  <1>5. SymbolsFit'
    <2>1. \A i \in DOMAIN packings' :
            /\ packings'[i].block_count \in 1 .. TargetBlocks
            /\ EndOf(packings'[i]) <= Total
            /\ BytesOf(packings'[i]) <= available_capacity
      BY <1>1, <1>2, AppendTiles
    <2>2. BytesOf(Current)' = HeaderLen
      <3>1. /\ Current'.block_start = next_block
            /\ EndOf(Current)' = next_block
        <4>1. next_block \in Nat
          BY <1>1, TableFacts DEF IInv, TypeOK
        <4> QED
          BY <1>2, <4>1 DEF Current, EndOf
      <3>2. Offset(next_block)' = Offset(next_block) /\ Offset(next_block) \in Nat
        <4>1. offset' = offset
          BY <1>1
        <4>2. offset \in OffsetTables /\ next_block \in 0 .. Total
          BY DEF IInv, TypeOK
        <4>3. Offset(next_block) \in Nat
          BY <4>2, TableFacts
        <4> QED
          BY <1>2, <4>1, <4>3 DEF Offset
      <3>3. BytesOf(Current)' = HeaderLen + Offset(next_block) - Offset(next_block)
        BY <1>1, <1>2, <3>1 DEF BytesOf, Offset
      <3>4. HeaderLen \in Nat
        BY ConstantsAssumption
      <3> QED
        BY <3>2, <3>3, <3>4
    <2> QED
      BY <1>1, <1>2, <2>1, <2>2
      DEF SymbolsFit, BytesOf, EndOf, Offset, Total, available_capacity
  <1> QED
    BY <1>1, <1>3, <1>4, <1>5 DEF IInv

LEMMA TakeBlockInv == IInv /\ TakeBlock => IInv'
  <1> SUFFICES ASSUME IInv, TakeBlock PROVE IInv'
    OBVIOUS
  <1>1. /\ Running /\ next_block < Total /\ ~Full /\ Fits
        /\ current_count' = current_count + 1
        /\ current_size' = current_size + BlockCost
        /\ next_block' = next_block + 1
        /\ UNCHANGED <<current_start, packings, offset, phase, k, best>>
    BY DEF TakeBlock
  <1>2. /\ current_start \in Nat /\ current_count \in Nat
        /\ next_block \in 0 .. (Total - 1)
        /\ current_start + current_count = next_block
        /\ current_size = BytesOf(Current) /\ current_size \in Nat
        /\ offset \in OffsetTables
    BY <1>1, ConstantsAssumption, TableFacts
    DEF IInv, TypeOK, Tiling, SymbolsFit
  <1>3. Offset(next_block) < Offset(next_block + 1) /\ BlockCost \in Nat
        /\ Offset(current_start) \in Nat /\ Offset(next_block) \in Nat
        /\ Offset(next_block + 1) \in Nat
    BY <1>2, TableFacts DEF BlockCost
  <1>4. TypeOK'
    <2>1. next_block' \in 0 .. Total' /\ current_count' \in 0 .. TargetBlocks
      BY <1>1, <1>2, TableFacts, ConstantsAssumption
      DEF IInv, TypeOK, Total, Full
    <2>2. current_size' \in Nat
      BY <1>1, <1>2, <1>3
    <2> QED
      BY <1>1, <2>1, <2>2 DEF IInv, TypeOK
  <1>5. Tiling'
    BY <1>1, <1>2 DEF IInv, Tiling, Running, EndOf, Total
  <1>6. SymbolsFit'
    <2>1. BytesOf(Current)' = current_size'
      <3>1. /\ EndOf(Current) = next_block /\ EndOf(Current)' = next_block + 1
            /\ Current.block_start = current_start
            /\ Current'.block_start = current_start
        BY <1>1, <1>2 DEF EndOf, Current
      <3>2. BytesOf(Current) = HeaderLen + Offset(next_block) - Offset(current_start)
        BY <3>1 DEF BytesOf
      <3>3. BytesOf(Current)' =
              HeaderLen + Offset(next_block + 1) - Offset(current_start)
        BY <1>1, <3>1 DEF BytesOf, Offset
      <3>4. current_size' = current_size + Offset(next_block + 1) - Offset(next_block)
        BY <1>1, <1>2, <1>3 DEF BlockCost
      <3>5. HeaderLen \in Nat
        BY ConstantsAssumption
      <3>6. current_size = HeaderLen + Offset(next_block) - Offset(current_start)
        BY <1>2, <3>2
      <3> QED
        BY <1>3, <3>3, <3>4, <3>5, <3>6
    <2>2. current_size' <= available_capacity
      BY <1>1 DEF Fits
    <2> QED
      BY <1>1, <2>1, <2>2
      DEF IInv, SymbolsFit, BytesOf, EndOf, Offset, Total,
          available_capacity, Running
  <1> QED
    BY <1>1, <1>4, <1>5, <1>6 DEF IInv

\* A pack that starts over starts from the state Init gives it.
LEMMA FreshInv ==
    ASSUME IInv, Fresh, UNCHANGED offset, phase' \in {"search", "encode"},
           k' \in 1 .. MaxK, best' \in [k : 0 .. MaxK, bytes : Nat]
    PROVE  IInv'
  <1>1. /\ offset' \in OffsetTables /\ Total' = Total /\ Total \in Nat \ {0}
        /\ Offset(0)' = Offset(0) /\ Offset(0) \in Nat /\ offset \in Seq(Nat)
    BY TableFacts DEF IInv, Total, Offset
  <1>2. TypeOK'
    BY <1>1, ConstantsAssumption DEF Fresh, TypeOK, Phases
  <1>3. Tiling'
    BY <1>1, ConstantsAssumption DEF Fresh, Tiling, Running
  <1>4. SymbolsFit'
    BY <1>1, ConstantsAssumption DEF Fresh, SymbolsFit, BytesOf, Current, EndOf
  <1> QED
    BY <1>1, <1>2, <1>3, <1>4 DEF IInv

LEMMA PackedType == IInv /\ Running => Packed \in Seq(Packing)
  BY AppendCurrent, ConstantsAssumption DEF Packed, IInv, TypeOK

LEMMA BestAfterType ==
    ASSUME IInv, Running
    PROVE  BestAfter \in [k : 0 .. MaxK, bytes : Nat]
  <1>1. Len(Packed) \in Nat
    BY PackedType
  <1>2. k \in 1 .. MaxK /\ k \in Nat /\ MaxK \in Nat /\ CodewordLen \in Nat
        /\ best \in [k : 0 .. MaxK, bytes : Nat]
    BY ConstantsAssumption DEF IInv, TypeOK
  <1>3. Len(Packed) * k \in Nat
    BY <1>1, <1>2
  <1>4. Len(Packed) * k * CodewordLen \in Nat
    BY <1>2, <1>3
  <1> QED
    BY <1>2, <1>4 DEF BestAfter

LEMMA TryNextKInv == IInv /\ TryNextK => IInv'
  <1> SUFFICES ASSUME IInv, TryNextK PROVE IInv'
    OBVIOUS
  <1>1. Running /\ Fresh /\ UNCHANGED <<offset, phase>> /\ phase = "search"
        /\ k < MaxK /\ k' = k + 1 /\ best' = BestAfter
    BY DEF TryNextK, Running
  <1>2. k' \in 1 .. MaxK
    BY <1>1, ConstantsAssumption DEF IInv, TypeOK
  <1> QED
    BY <1>1, <1>2, BestAfterType, FreshInv

LEMMA EndSearchInv == IInv /\ EndSearch => IInv'
  <1> SUFFICES ASSUME IInv, EndSearch PROVE IInv'
    OBVIOUS
  <1>1. /\ Running /\ phase = "search" /\ UNCHANGED offset
        /\ best' \in [k : 0 .. MaxK, bytes : Nat]
    BY BestAfterType DEF EndSearch, Running
  <1>2. CASE best'.k # 0
    <2>1. Fresh /\ phase' = "encode" /\ k' = best'.k
      BY <1>2 DEF EndSearch
    <2>2. k' \in 1 .. MaxK
      BY <1>1, <1>2, <2>1, ConstantsAssumption
    <2> QED
      BY <1>1, <2>1, <2>2, FreshInv
  <1>3. CASE best'.k = 0
    <2>1. /\ phase' \in {"InsufficientSymbolCapacity", "TooManySymbols"}
          /\ UNCHANGED <<offset, k, pack>>
      BY <1>3 DEF EndSearch
    <2> QED
      BY <1>1, <2>1
      DEF IInv, TypeOK, Tiling, SymbolsFit, pack, Phases, Running, EndOf,
          BytesOf, Offset, Total, available_capacity
  <1> QED
    BY <1>2, <1>3

LEMMA EncodeFailsInv == IInv /\ EncodeFails => IInv'
  BY DEF EncodeFails, IInv, TypeOK, Tiling, SymbolsFit, pack, Phases, Running,
         EndOf, BytesOf, Offset, Total, available_capacity

LEMMA EncodeEndsInv == IInv /\ EncodeEnds => IInv'
  <1> SUFFICES ASSUME IInv, EncodeEnds PROVE IInv'
    OBVIOUS
  <1>1. /\ Running /\ phase = "encode" /\ next_block = Total
        /\ packings' = Packed
        /\ phase' \in {"TooManySymbols", "encoded"}
        /\ UNCHANGED <<offset, k, best, next_block, current_start,
                       current_count, current_size>>
    BY DEF EncodeEnds, Running, Exhausted
  <1>2. TypeOK'
    BY <1>1, PackedType DEF IInv, TypeOK, Phases, Total
  <1>3. /\ Total \in Nat \ {0} /\ Total' = Total /\ offset \in OffsetTables
        /\ packings \in Seq(Packing) /\ current_count \in Nat
        /\ current_start \in Nat
    BY <1>1, TableFacts, ConstantsAssumption DEF IInv, TypeOK, Total
  <1>4. Tiling' /\ SymbolsFit'
    <2>1. CASE current_count # 0
      <3>1. packings' = Append(packings, Current)
        BY <1>1, <1>3, <2>1 DEF Packed
      <3>2. Tiling'
        BY <1>1, <1>3, <2>1, <3>1, AppendTiles
        DEF Tiling, EndOf, Running, Total
      <3>3. SymbolsFit'
        <4>1. \A i \in DOMAIN packings' :
                /\ packings'[i].block_count \in 1 .. TargetBlocks
                /\ EndOf(packings'[i]) <= Total
                /\ BytesOf(packings'[i]) <= available_capacity
          BY <1>1, <2>1, <3>1, AppendTiles
        <4> QED
          BY <1>1, <4>1
          DEF SymbolsFit, BytesOf, EndOf, Offset, Total, available_capacity,
              Running
      <3> QED
        BY <3>2, <3>3
    <2>2. CASE current_count = 0
      <3>1. packings' = packings
        BY <1>1, <2>2 DEF Packed
      <3>2. packings # <<>> /\ EndOf(packings[Len(packings)]) = Total
        BY <1>1, <1>3, <2>2 DEF IInv, Tiling
      <3> QED
        BY <1>1, <3>1, <3>2
        DEF IInv, Tiling, SymbolsFit, BytesOf, EndOf, Offset, Total,
            available_capacity, Running
    <2> QED
      BY <2>1, <2>2
  <1> QED
    BY <1>1, <1>2, <1>4 DEF IInv

LEMMA StepInv == IInv /\ [Next]_vars => IInv'
  <1> SUFFICES ASSUME IInv, [Next]_vars PROVE IInv'
    OBVIOUS
  <1>1. CASE UNCHANGED vars
    BY <1>1 DEF vars, pack, IInv, TypeOK, Tiling, SymbolsFit, Running, EndOf,
         BytesOf, Offset, Total, available_capacity, Current
  <1> QED
    BY <1>1, CloseSymbolInv, TakeBlockInv, TryNextKInv, EndSearchInv,
       EncodeFailsInv, EncodeEndsInv DEF Next

THEOREM Invariance == Spec => []IInv
  BY InitInv, StepInv, PTL DEF Spec

\* The locals of the greedy loop and of the search keep their types.
THEOREM TypeCorrect == Spec => []TypeOK
  BY Invariance, PTL DEF IInv

\* Every block ends up in exactly one symbol, in order, whatever the blocks
\* cost and whatever K is (pack_blocks_into_symbols_with_profile).
THEOREM EncoderTiles == Spec => []Tiling
  BY Invariance, PTL DEF IInv

\* No symbol exceeds the target or the capacity of its K.
THEOREM EncoderFits == Spec => []SymbolsFit
  BY Invariance, PTL DEF IInv
-----------------------------------------------------------------------------
(* Greedy packing is optimal. The symbols cut so far, and the fewest that   *)
(* can carry what is left, are together the fewest that can carry it all.   *)

Least(j) == Table(offset, j)[0]
Works(j) == Least(j) <= Total /\ Least(j) <= MaxTotalSymbols
Spent(j) == Least(j) * j * CodewordLen

Greedy ==
    Running =>
        /\ Len(packings) <= current_start
        /\ Least(k) <= Len(packings) + Table(offset, k)[current_start]
        /\ Least(k) <= Total =>
              Len(packings) + Table(offset, k)[current_start] <= Least(k)

LEMMA LeastType ==
    ASSUME IInv, NEW j \in Nat
    PROVE  /\ Least(j) \in 0 .. Total + 1
           /\ \A b \in 0 .. Total : Table(offset, j)[b] \in 0 .. Total + 1
           /\ Total \in Nat \ {0}
  <1>1. offset \in OffsetTables /\ Total = Blocks(offset)
    BY DEF IInv, Total, Blocks
  <1>2. Blocks(offset) \in Nat \ {0}
    BY <1>1, InputFacts
  <1> QED
    BY <1>1, <1>2, TableValues DEF Least

\* The locals while the loop runs.
LEMMA RunningFacts ==
    ASSUME IInv, Running
    PROVE  /\ offset \in OffsetTables /\ Total = Blocks(offset)
           /\ Total \in Nat \ {0}
           /\ k \in 1 .. MaxK /\ k \in Nat
           /\ packings \in Seq(Packing) /\ Len(packings) \in Nat
           /\ current_start \in 0 .. Total /\ next_block \in 0 .. Total
           /\ current_count \in 0 .. TargetBlocks /\ current_count \in Nat
           /\ current_start + current_count = next_block
           /\ current_size = HeaderLen + Offset(next_block) - Offset(current_start)
           /\ current_count > 0 => current_size <= k * DataLen
  <1>1. offset \in OffsetTables /\ Total = Blocks(offset) /\ TypeOK /\ Tiling /\ SymbolsFit
    BY DEF IInv, Total, Blocks
  <1>2. Total \in Nat \ {0}
    BY <1>1, TableFacts
  <1>3. /\ k \in 1 .. MaxK /\ k \in Nat /\ packings \in Seq(Packing) /\ Len(packings) \in Nat
        /\ current_start \in Nat /\ next_block \in 0 .. Total
        /\ current_count \in 0 .. TargetBlocks /\ current_count \in Nat
        /\ current_start + current_count = next_block
    BY <1>1, ConstantsAssumption DEF TypeOK, Tiling
  <1>4. current_start \in 0 .. Total
    BY <1>2, <1>3
  <1>5. current_size = HeaderLen + Offset(next_block) - Offset(current_start)
    <2>1. EndOf(Current) = next_block /\ Current.block_start = current_start
      BY <1>3 DEF EndOf, Current
    <2>2. current_size = BytesOf(Current)
      BY <1>1 DEF SymbolsFit
    <2> QED
      BY <2>1, <2>2 DEF BytesOf
  <1>6. current_count > 0 => current_size <= k * DataLen
    BY <1>1 DEF SymbolsFit, available_capacity
  <1> QED
    BY <1>1, <1>2, <1>3, <1>4, <1>5, <1>6

\* The symbol being filled is a first symbol of the blocks it starts at, and
\* when it is closed no first symbol of them goes further.
LEMMA CurrentIsFirst ==
    ASSUME IInv, Running, current_count # 0
    PROVE  next_block \in Firsts(offset, k, current_start)
  <1>1. next_block \in (current_start + 1) .. Total
        /\ next_block - current_start <= TargetBlocks
    <2>1. /\ Total \in Nat /\ current_start \in 0 .. Total /\ next_block \in 0 .. Total
          /\ current_count \in 0 .. TargetBlocks /\ current_count \in Nat
          /\ current_start + current_count = next_block
      BY RunningFacts, Zenon
    <2> QED
      BY <2>1, ConstantsAssumption
  <1>2. HeaderLen + offset[next_block + 1] - offset[current_start + 1] <= k * DataLen
    BY RunningFacts DEF Offset
  <1> QED
    BY <1>1, <1>2, RunningFacts DEF Firsts, Room

LEMMA ClosedIsFarthest ==
    ASSUME IInv, Running, next_block < Total, Full \/ ~Fits,
           NEW d \in Firsts(offset, k, current_start)
    PROVE  d <= next_block
  <1> SUFFICES ASSUME next_block < d PROVE FALSE
    BY RunningFacts DEF Firsts
  <1>1. /\ d \in 0 .. Total /\ d \in (current_start + 1) .. Total
        /\ d - current_start <= TargetBlocks
        /\ HeaderLen + offset[d + 1] - offset[current_start + 1] <= k * DataLen
    BY RunningFacts DEF Firsts, Room
  <1>2. CASE Full
    BY <1>1, <1>2, RunningFacts DEF Full
  <1>3. CASE ~Fits
    <2>1. next_block + 1 \in 0 .. Total /\ next_block \in 0 .. Total /\ next_block + 1 <= d
      BY <1>1, RunningFacts
    <2>2. offset[(next_block + 1) + 1] <= offset[d + 1]
      BY <1>1, <2>1, RunningFacts, InputFacts
    <2>3. /\ offset[(next_block + 1) + 1] \in Nat /\ offset[d + 1] \in Nat
          /\ offset[next_block + 1] \in Nat /\ offset[current_start + 1] \in Nat
      BY <1>1, <2>1, RunningFacts, InputFacts
    <2>4. current_size + BlockCost
              = HeaderLen + offset[(next_block + 1) + 1] - offset[current_start + 1]
      <3>1. current_size = HeaderLen + offset[next_block + 1] - offset[current_start + 1]
        BY RunningFacts DEF Offset
      <3>2. BlockCost = offset[(next_block + 1) + 1] - offset[next_block + 1]
        BY DEF BlockCost, Offset
      <3>3. HeaderLen \in Nat
        BY ConstantsAssumption
      <3> QED
        BY <2>3, <3>1, <3>2, <3>3
    <2>5. ~ (current_size + BlockCost <= k * DataLen)
      BY <1>3 DEF Fits, available_capacity
    <2>6. HeaderLen \in Nat /\ k * DataLen \in Nat
      BY RunningFacts, ConstantsAssumption
    <2> QED
      BY <1>1, <2>2, <2>3, <2>4, <2>5, <2>6
  <1> QED
    BY <1>2, <1>3

LEMMA CloseSymbolGreedy == IInv /\ Greedy /\ CloseSymbol => Greedy'
  <1> SUFFICES ASSUME IInv, Greedy, CloseSymbol PROVE Greedy'
    OBVIOUS
  <1>1. /\ Running /\ next_block < Total /\ (Full \/ ~Fits) /\ current_count # 0
        /\ packings' = Append(packings, Current) /\ current_start' = next_block
        /\ offset' = offset /\ k' = k /\ phase' = phase
    BY ConstantsAssumption DEF CloseSymbol, Flush, Full
  <1>2. Len(packings') = Len(packings) + 1
    BY <1>1, AppendCurrent
  <1> DEFINE f == Table(offset, k)
  <1>3. next_block \in Firsts(offset, k, current_start)
        /\ \A d \in Firsts(offset, k, current_start) : d <= next_block
    BY <1>1, CurrentIsFirst, ClosedIsFarthest
  <1>4. /\ f[current_start] <= 1 + f[next_block]
        /\ f[current_start] <= Total => f[current_start] = 1 + f[next_block]
    BY <1>1, <1>3, RunningFacts, FarthestIsBest
  <1>5. /\ f[current_start] \in 0 .. Total + 1 /\ f[next_block] \in 0 .. Total + 1
        /\ Least(k) \in 0 .. Total + 1 /\ Total \in Nat
    BY <1>1, RunningFacts, LeastType
  <1>6. /\ Len(packings) \in Nat /\ Len(packings) <= current_start
        /\ Least(k) <= Len(packings) + f[current_start]
        /\ Least(k) <= Total => Len(packings) + f[current_start] <= Least(k)
        /\ current_start \in Nat /\ next_block \in Nat /\ current_count \in Nat
        /\ current_start + current_count = next_block
    BY <1>1, RunningFacts DEF Greedy
  <1>7. Least(k)' = Least(k) /\ Total' = Total /\ Table(offset, k)' = f
    BY <1>1 DEF Least, Total
  <1> HIDE DEF f
  <1>8. Len(packings') <= current_start'
    BY <1>1, <1>2, <1>6
  <1>9. Least(k) <= Len(packings') + f[next_block]
    BY <1>2, <1>4, <1>5, <1>6
  <1>10. Least(k) <= Total => Len(packings') + f[next_block] <= Least(k)
    BY <1>2, <1>4, <1>5, <1>6
  <1> QED
    BY <1>1, <1>7, <1>8, <1>9, <1>10 DEF Greedy

LEMMA FreshGreedy ==
    ASSUME offset' \in OffsetTables, k' \in Nat,
           packings' = <<>>, current_start' = 0
    PROVE  Greedy'
  <1>1. Table(offset', k')[0] \in Nat
    BY InputFacts, TableValues
  <1> QED
    BY <1>1 DEF Greedy, Least

LEMMA GreedyStep == IInv /\ Greedy /\ [Next]_vars => Greedy'
  <1> SUFFICES ASSUME IInv, Greedy, [Next]_vars PROVE Greedy'
    OBVIOUS
  <1>1. offset \in OffsetTables /\ k \in Nat /\ best \in [k : 0 .. MaxK, bytes : Nat]
    BY ConstantsAssumption DEF IInv, TypeOK
  <1>2. CASE CloseSymbol
    BY <1>2, CloseSymbolGreedy
  <1>3. CASE TakeBlock \/ UNCHANGED vars
    <2>1. UNCHANGED <<offset, phase, k, packings, current_start>>
      BY <1>3 DEF TakeBlock, vars, pack
    <2> QED
      BY <2>1 DEF Greedy, Least, Total, Running
  <1>4. CASE TryNextK
    BY <1>1, <1>4, FreshGreedy DEF TryNextK, Fresh
  <1>5. CASE EndSearch
    <2>1. CASE phase' = "encode" /\ Fresh /\ k' = best'.k
      <3>1. best' \in [k : 0 .. MaxK, bytes : Nat]
        BY <1>5, BestAfterType DEF EndSearch, Running
      <3>2. k' \in Nat /\ offset' \in OffsetTables
        BY <1>1, <1>5, <2>1, <3>1, ConstantsAssumption DEF EndSearch
      <3> QED
        BY <2>1, <3>2, FreshGreedy DEF Fresh
    <2>2. CASE phase' \in {"InsufficientSymbolCapacity", "TooManySymbols"}
      BY <2>2 DEF Greedy, Running
    <2> QED
      BY <1>5, <2>1, <2>2 DEF EndSearch
  <1>6. CASE EncodeFails \/ EncodeEnds
    BY <1>6 DEF EncodeFails, EncodeEnds, Greedy, Running
  <1> QED
    BY <1>2, <1>3, <1>4, <1>5, <1>6 DEF Next

\* When the blocks are used up, the symbols are the fewest there can be.
LEMMA PackedIsLeast ==
    ASSUME IInv, Greedy, Running, Exhausted
    PROVE  Len(Packed) = Least(k) /\ Least(k) <= Total
  <1> DEFINE f == Table(offset, k)
  <1>1. /\ Len(packings) \in Nat /\ Len(packings) <= current_start
        /\ Least(k) <= Len(packings) + f[current_start]
        /\ Least(k) <= Total => Len(packings) + f[current_start] <= Least(k)
        /\ current_start \in 0 .. Total /\ current_count \in Nat
        /\ current_start + current_count = Total /\ Total \in Nat \ {0}
        /\ Least(k) \in 0 .. Total + 1 /\ f[current_start] \in 0 .. Total + 1
    BY RunningFacts, LeastType DEF Greedy, Exhausted
  <1>2. f[Total] = 0
    BY RunningFacts, TableValues
  <1>3. CASE current_count = 0
    <2>1. Packed = packings /\ current_start = Total
      BY <1>1, <1>3 DEF Packed
    <2> HIDE DEF f
    <2> QED
      BY <1>1, <1>2, <2>1
  <1>4. CASE current_count # 0
    <2>1. Len(Packed) = Len(packings) + 1
      BY <1>1, <1>4, AppendCurrent DEF Packed
    <2>2. Total \in Firsts(offset, k, current_start)
      BY <1>4, CurrentIsFirst DEF Exhausted
    <2>3. \A d \in Firsts(offset, k, current_start) : d <= Total
      BY RunningFacts DEF Firsts
    <2>4. f[current_start] <= 1 + f[Total]
          /\ (f[current_start] <= Total => f[current_start] = 1 + f[Total])
      BY <2>2, <2>3, RunningFacts, FarthestIsBest
    <2>5. f[current_start] = 1
      <3> HIDE DEF f
      <3> QED
        BY <1>1, <1>2, <2>4
    <2> HIDE DEF f
    <2> QED
      BY <1>1, <1>4, <2>1, <2>5
  <1> QED
    BY <1>3, <1>4

\* A block that fits no symbol of its own: no number of symbols will do.
LEMMA StuckIsInfeasible ==
    ASSUME IInv, Greedy, Running, Stuck
    PROVE  ~Works(k) /\ next_block < Total
  <1> DEFINE f == Table(offset, k)
  <1>1. next_block < Total /\ ~Fits /\ current_count = 0
    BY DEF Stuck
  <1>2. current_start = next_block /\ current_start # Total
        /\ current_start \in 0 .. Total
    BY <1>1, RunningFacts
  <1>3. Firsts(offset, k, current_start) = {}
    <2> SUFFICES ASSUME NEW d \in Firsts(offset, k, current_start) PROVE FALSE
      OBVIOUS
    <2>1. d <= next_block
      BY <1>1, ClosedIsFarthest
    <2> QED
      BY <1>2, <2>1, RunningFacts DEF Firsts
  <1>4. f[current_start] = Total + 1
    <2>1. f[current_start] \in Costs(f, offset, k, current_start)
      BY <1>2, RunningFacts, TableValues
    <2> HIDE DEF f
    <2> QED
      BY <1>3, <2>1, RunningFacts DEF Costs
  <1>5. /\ Len(packings) \in Nat /\ Total \in Nat /\ Least(k) \in Nat
        /\ Least(k) <= Total => Len(packings) + f[current_start] <= Least(k)
    BY RunningFacts, LeastType DEF Greedy
  <1>6. ~ (Least(k) <= Total)
    <2> HIDE DEF f
    <2> QED
      BY <1>4, <1>5
  <1> QED
    BY <1>1, <1>6 DEF Works

-----------------------------------------------------------------------------
(* The search. What it remembers is the best of the Ks it has tried, and a  *)
(* call that has ended says what its K can do.                              *)

Beats(j, i) == Spent(j) < Spent(i) \/ (Spent(j) = Spent(i) /\ j <= i)

BestUpTo(n) ==
    IF best.k = 0 THEN \A j \in 1 .. n : ~Works(j)
    ELSE /\ best.k \in 1 .. n /\ Works(best.k) /\ best.bytes = Spent(best.k)
         /\ \A j \in 1 .. n : Works(j) => Beats(best.k, j)

Searched ==
    /\ phase = "search" => BestUpTo(k - 1)
    /\ phase \in {"encode", "encoded"} /\ best.k # 0 => k = best.k /\ BestUpTo(MaxK)
    /\ phase = "encoded" => Len(packings) = Least(k)
    /\ phase \in {"InsufficientSymbolCapacity", "TooManySymbols"} =>
          best.k = 0 /\ ~Works(k)
    /\ phase = "InsufficientSymbolCapacity" => next_block < Total

\* A pack that has returned tells whether its K works, and at what price.
LEMMA ReturnedPack ==
    ASSUME IInv, Greedy, Running, Stuck \/ Exhausted
    PROVE  BestAfter = IF Works(k) /\ Better(Spent(k)) THEN [k |-> k, bytes |-> Spent(k)]
                       ELSE best
  <1>1. CASE Exhausted
    <2>1. Len(Packed) = Least(k) /\ Least(k) <= Total
      BY <1>1, PackedIsLeast
    <2> QED
      BY <1>1, <2>1 DEF BestAfter, Works, Spent
  <1>2. CASE Stuck
    <2>1. ~Works(k) /\ ~Exhausted
      BY <1>2, StuckIsInfeasible, RunningFacts DEF Exhausted
    <2> QED
      BY <2>1 DEF BestAfter
  <1> QED
    BY <1>1, <1>2

LEMMA SpentType ==
    ASSUME IInv, NEW j \in Nat
    PROVE  Spent(j) \in Nat
  <1>1. Least(j) \in Nat /\ CodewordLen \in Nat
    BY LeastType, ConstantsAssumption
  <1>2. Least(j) * j \in Nat
    BY <1>1
  <1> QED
    BY <1>1, <1>2 DEF Spent

LEMMA BestStays ==
    ASSUME IInv, Greedy, phase = "search", Stuck \/ Exhausted, BestUpTo(k - 1),
           best' = BestAfter, offset' = offset, NEW n, n = k
    PROVE  BestUpTo(n)'
  <1>1. /\ Running /\ k \in Nat /\ k >= 1 /\ best \in [k : 0 .. MaxK, bytes : Nat]
    BY ConstantsAssumption DEF IInv, TypeOK, Running
  <1>2. \A j : Works(j)' = Works(j) /\ Spent(j)' = Spent(j)
    BY DEF Works, Spent, Least, Total
  <1>3. \A j \in 1 .. k : j = k \/ j \in 1 .. k - 1
    BY <1>1
  <1>4. \A j \in 1 .. k : Spent(j) \in Nat
    BY <1>1, SpentType
  <1>5. CASE Works(k) /\ Better(Spent(k))
    <2>1. best' = [k |-> k, bytes |-> Spent(k)]
      BY <1>1, <1>5, ReturnedPack
    <2>2. ASSUME NEW j \in 1 .. k, Works(j) PROVE Beats(k, j)
      <3>1. CASE j = k
        BY <1>1, <3>1 DEF Beats
      <3>2. CASE j \in 1 .. k - 1
        <4>1. best.k # 0 /\ best.bytes = Spent(best.k) /\ Beats(best.k, j)
              /\ best.k \in 1 .. k - 1
          BY <2>2, <3>2 DEF BestUpTo
        <4>2. Spent(k) < best.bytes
          BY <1>5, <4>1 DEF Better
        <4>3. Spent(k) \in Nat /\ Spent(j) \in Nat /\ Spent(best.k) \in Nat
          BY <1>1, <1>3, <1>4, <4>1
        <4>4. Spent(k) < Spent(j)
          BY <4>1, <4>2, <4>3 DEF Beats
        <4> QED
          BY <4>4 DEF Beats
      <3> QED
        BY <1>3, <3>1, <3>2
    <2>3. best'.k = k /\ best'.bytes = Spent(k) /\ k # 0 /\ k \in 1 .. k
      BY <1>1, <2>1
    <2>4. \A j \in 1 .. n : Works(j) => Beats(best'.k, j)
      BY <2>2, <2>3
    <2> QED
      BY <1>2, <1>5, <2>3, <2>4 DEF BestUpTo, Beats
  <1>6. CASE ~(Works(k) /\ Better(Spent(k)))
    <2>1. best' = best
      BY <1>1, <1>6, ReturnedPack
    <2>2. CASE best.k = 0
      <3>1. ~Works(k)
        BY <1>6, <2>2 DEF Better
      <3>2. \A j \in 1 .. k : ~Works(j)
        BY <1>3, <2>2, <3>1 DEF BestUpTo
      <3> QED
        BY <1>2, <2>1, <2>2, <3>2 DEF BestUpTo
    <2>3. CASE best.k # 0
      <3>1. /\ best.k \in 1 .. k - 1 /\ Works(best.k) /\ best.bytes = Spent(best.k)
            /\ \A j \in 1 .. k - 1 : Works(j) => Beats(best.k, j)
        BY <2>3 DEF BestUpTo
      <3>2. Works(k) => Beats(best.k, k)
        <4> SUFFICES ASSUME Works(k) PROVE Beats(best.k, k)
          OBVIOUS
        <4>1. ~(Spent(k) < best.bytes)
          BY <1>6, <2>3 DEF Better
        <4>2. Spent(k) \in Nat /\ Spent(best.k) \in Nat /\ best.k <= k
          BY <1>1, <1>3, <1>4, <3>1
        <4> QED
          BY <3>1, <4>1, <4>2 DEF Beats
      <3>3. best.k \in 1 .. k
        BY <1>1, <3>1
      <3>4. \A j \in 1 .. k : Works(j) => Beats(best.k, j)
        BY <1>3, <3>1, <3>2
      <3> QED
        BY <1>2, <2>1, <2>3, <3>1, <3>3, <3>4 DEF BestUpTo, Beats
    <2> QED
      BY <2>2, <2>3
  <1> QED
    BY <1>5, <1>6

LEMMA TryNextKSearched == IInv /\ Greedy /\ Searched /\ TryNextK => Searched'
  <1> SUFFICES ASSUME IInv, Greedy, Searched, TryNextK PROVE Searched'
    OBVIOUS
  <1>1. /\ phase = "search" /\ phase' = "search" /\ k' = k + 1 /\ best' = BestAfter
        /\ offset' = offset /\ (Stuck \/ Exhausted) /\ BestUpTo(k - 1)
    BY DEF TryNextK, Searched
  <1>2. \A n : n = k => BestUpTo(n)'
    BY <1>1, BestStays
  <1>3. k' - 1 = k /\ k \in Nat
    BY <1>1, ConstantsAssumption DEF IInv, TypeOK
  <1>4. BestUpTo(k - 1)'
    BY <1>2, <1>3
  <1> QED
    BY <1>1, <1>4 DEF Searched

LEMMA EndSearchSearched == IInv /\ Greedy /\ Searched /\ EndSearch => Searched'
  <1> SUFFICES ASSUME IInv, Greedy, Searched, EndSearch PROVE Searched'
    OBVIOUS
  <1>1. /\ phase = "search" /\ k = MaxK /\ (Stuck \/ Exhausted) /\ best' = BestAfter
        /\ offset' = offset /\ BestUpTo(k - 1) /\ Running
    BY DEF EndSearch, Searched, Running
  <1>2. BestUpTo(MaxK)'
    BY <1>1, BestStays
  <1>3. CASE best'.k # 0
    <2>1. phase' = "encode" /\ k' = best'.k
      BY <1>3 DEF EndSearch
    <2> QED
      BY <1>2, <1>3, <2>1 DEF Searched
  <1>4. CASE best'.k = 0
    <2>1. /\ phase' = IF Stuck THEN "InsufficientSymbolCapacity" ELSE "TooManySymbols"
          /\ k' = k /\ next_block' = next_block
      BY <1>4 DEF EndSearch, pack
    <2>2. ~Works(k)
      <3>1. k # 0
        BY <1>1, ConstantsAssumption
      <3> QED
        BY <1>1, <1>4, <3>1, ReturnedPack DEF Better
    <2>3. Works(k)' = Works(k) /\ Total' = Total
      BY <1>1, <2>1 DEF Works, Least, Total
    <2>4. Stuck => next_block < Total
      BY DEF Stuck
    <2> QED
      BY <1>4, <2>1, <2>2, <2>3, <2>4 DEF Searched
  <1> QED
    BY <1>3, <1>4

\* What the K a search has chosen promises is kept by the pack that follows.
LEMMA ChosenWorks ==
    ASSUME Searched, phase = "encode", best.k # 0
    PROVE  Works(k)
  BY DEF Searched, BestUpTo

LEMMA EncodeFailsSearched == IInv /\ Greedy /\ Searched /\ EncodeFails => Searched'
  <1> SUFFICES ASSUME IInv, Greedy, Searched, EncodeFails PROVE Searched'
    OBVIOUS
  <1>1. /\ phase = "encode" /\ Stuck /\ phase' = "InsufficientSymbolCapacity"
        /\ UNCHANGED <<offset, k, next_block, best>> /\ Running
    BY DEF EncodeFails, pack, Running
  <1>2. ~Works(k) /\ next_block < Total
    BY <1>1, StuckIsInfeasible
  <1>3. best.k = 0
    BY <1>1, <1>2, ChosenWorks
  <1>4. Works(k)' = Works(k) /\ Total' = Total
    BY <1>1 DEF Works, Least, Total
  <1> QED
    BY <1>1, <1>2, <1>3, <1>4 DEF Searched

LEMMA EncodeEndsSearched == IInv /\ Greedy /\ Searched /\ EncodeEnds => Searched'
  <1> SUFFICES ASSUME IInv, Greedy, Searched, EncodeEnds PROVE Searched'
    OBVIOUS
  <1>1. /\ phase = "encode" /\ Exhausted /\ Running
        /\ phase' = IF Len(Packed) > MaxTotalSymbols THEN "TooManySymbols" ELSE "encoded"
        /\ packings' = Packed /\ UNCHANGED <<offset, k, best>>
    BY DEF EncodeEnds, Running
  <1>2. Len(Packed) = Least(k) /\ Least(k) <= Total
    BY <1>1, PackedIsLeast
  <1>3. /\ Works(k)' = Works(k) /\ Least(k)' = Least(k)
        /\ BestUpTo(MaxK)' = BestUpTo(MaxK)
    BY <1>1 DEF BestUpTo, Beats, Works, Spent, Least, Total
  <1>4. best.k # 0 => k = best.k /\ BestUpTo(MaxK) /\ Works(k)
    BY <1>1, ChosenWorks DEF Searched
  <1>5. CASE Len(Packed) > MaxTotalSymbols
    <2>1. ~Works(k)
      <3>0. k \in Nat
        BY <1>1, RunningFacts
      <3>1. MaxTotalSymbols \in Nat /\ Least(k) \in Nat
        BY <3>0, LeastType, ConstantsAssumption
      <3> QED
        BY <1>2, <1>5, <3>1 DEF Works
    <2> QED
      BY <1>1, <1>3, <1>4, <1>5, <2>1 DEF Searched
  <1>6. CASE ~(Len(Packed) > MaxTotalSymbols)
    BY <1>1, <1>2, <1>3, <1>4, <1>6 DEF Searched
  <1> QED
    BY <1>5, <1>6

LEMMA SearchedStep == IInv /\ Greedy /\ Searched /\ [Next]_vars => Searched'
  <1> SUFFICES ASSUME IInv, Greedy, Searched, [Next]_vars PROVE Searched'
    OBVIOUS
  <1>1. ASSUME UNCHANGED <<offset, phase, k, best>>,
               Running \/ UNCHANGED pack
        PROVE  Searched'
    <2>1. /\ \A j : Works(j)' = Works(j)
          /\ BestUpTo(k - 1)' = BestUpTo(k - 1)
          /\ BestUpTo(MaxK)' = BestUpTo(MaxK)
          /\ Least(k)' = Least(k) /\ Total' = Total
      BY <1>1 DEF BestUpTo, Beats, Works, Spent, Least, Total
    <2>2. Running \/ (packings' = packings /\ next_block' = next_block)
      BY <1>1 DEF pack
    <2> QED
      BY <1>1, <2>1, <2>2 DEF Searched, Running
  <1>2. CASE CloseSymbol \/ TakeBlock \/ UNCHANGED vars
    BY <1>1, <1>2 DEF CloseSymbol, TakeBlock, vars
  <1> QED
    BY <1>2, TryNextKSearched, EndSearchSearched, EncodeFailsSearched,
       EncodeEndsSearched DEF Next

LEMMA OptimalityInvariant == Spec => [](IInv /\ Greedy /\ Searched)
  <1>1. Init => IInv /\ Greedy /\ Searched
    <2> SUFFICES ASSUME Init PROVE Greedy /\ Searched
      BY InitInv
    <2>1. IInv /\ best.k = 0 /\ packings = <<>> /\ current_start = 0 /\ k \in Nat
      BY InitInv, ConstantsAssumption DEF Init
    <2>2. Least(k) \in Nat /\ offset \in OffsetTables
      BY <2>1, LeastType DEF IInv
    <2>3. Greedy
      BY <2>1, <2>2 DEF Greedy, Least
    <2>4. Searched
      BY <2>1 DEF Init, Searched, BestUpTo
    <2> QED
      BY <2>3, <2>4
  <1>2. (IInv /\ Greedy /\ Searched) /\ [Next]_vars => (IInv /\ Greedy /\ Searched)'
    BY StepInv, GreedyStep, SearchedStep
  <1> QED
    BY <1>1, <1>2, PTL DEF Spec

\* However the blocks are assigned to symbols, none of the assignments needs
\* fewer than the greedy loop with the K it is given (pack_blocks_into_symbols).
THEOREM PacksTheFewest == Spec => []GreedyIsOptimal
  <1>1. Searched => GreedyIsOptimal
    BY FewestIsTable DEF Searched, GreedyIsOptimal, Least
  <1> QED
    BY <1>1, OptimalityInvariant, PTL

\* The search ends with the K that costs the fewest bytes, the smallest of them,
\* fails only when none works, and its encoder does not fail after it
\* (choose_auto_k_for_blocks, encode_file_auto_k).
THEOREM SearchFindsTheBest == Spec => []SearchIsOptimal
  <1>1. IInv /\ Searched => SearchIsOptimal
    <2> SUFFICES ASSUME IInv, Searched PROVE SearchIsOptimal
      OBVIOUS
    <2>1. \A j : (Feasible(j) <=> Works(j)) /\ BytesWith(j) = Spent(j)
      BY FewestIsTable DEF Feasible, BytesWith, Works, Spent, Least
    <2>2. ASSUME best.k # 0, phase \in {"encode", "encoded"}
          PROVE  /\ k = best.k /\ Works(k)
                 /\ \A j \in 1 .. MaxK : Works(j) => Beats(k, j)
      BY <2>2 DEF Searched, BestUpTo
    <2>3. phase \in {"InsufficientSymbolCapacity", "TooManySymbols"} =>
             best.k = 0 /\ ~Works(k)
      BY DEF Searched
    <2> QED
      BY <2>1, <2>2, <2>3 DEF SearchIsOptimal, Beats
  <1> QED
    BY <1>1, OptimalityInvariant, PTL

\* Rounding a quotient up.
LEMMA RoundedUp ==
    ASSUME NEW x \in Nat \ {0}, NEW d \in Nat \ {0}, NEW j \in Nat,
           j <= (x + d - 1) \div d
    PROVE  x <= j * d <=> j = (x + d - 1) \div d
  <1> DEFINE m == (x + d - 1) \div d
  <1>1. m \in Nat /\ d * m <= x + d - 1 /\ x + d - 1 < d * m + d
    OBVIOUS
  <1> HIDE DEF m
  <1>2. \A a, b \in Nat : a <= b => d * a <= d * b /\ d * a \in Nat
    OBVIOUS
  <1>3. ASSUME j = m PROVE x <= j * d
    <2>1. d * m \in Nat /\ d * m = j * d
      BY <1>1, <1>3
    <2> QED
      BY <1>1, <2>1
  <1>4. ASSUME j # m PROVE ~(x <= j * d)
    <2>1. j + 1 \in Nat /\ j + 1 <= m
      BY <1>1, <1>4 DEF m
    <2>2. d * (j + 1) <= d * m
      BY <1>1, <1>2, <2>1
    <2>3. d * (j + 1) = j * d + d /\ j * d \in Nat /\ d * m \in Nat
      BY <1>1
    <2> QED
      BY <1>1, <2>2, <2>3
  <1> QED
    BY <1>3, <1>4 DEF m

\* The K an InsufficientSymbolCapacity error asks for is the least under which
\* the block it stopped at fits a symbol of its own (min_k_required).
THEOREM MinimumIsTight == Spec => []MinKIsTight
  <1>1. IInv /\ Searched => MinKIsTight
    <2> SUFFICES ASSUME IInv, Searched, phase = "InsufficientSymbolCapacity",
                        NEW j \in 1 .. min_k_required
                 PROVE  HeaderLen + BlockCost <= j * DataLen <=> j = min_k_required
      BY DEF MinKIsTight
    <2>1. next_block < Total /\ next_block \in 0 .. Total /\ offset \in OffsetTables
      BY DEF Searched, IInv, TypeOK
    <2>2. BlockCost \in Nat \ {0}
      <3>1. next_block \in 0 .. (Total - 1) /\ next_block + 1 \in 0 .. Total
        BY <2>1, TableFacts
      <3> QED
        BY <2>1, <3>1, TableFacts DEF BlockCost
    <2>3. HeaderLen + BlockCost \in Nat \ {0} /\ DataLen \in Nat \ {0} /\ HeaderLen \in Nat
      BY <2>2, ConstantsAssumption
    <2>4. min_k_required = ((HeaderLen + BlockCost) + DataLen - 1) \div DataLen
      BY DEF min_k_required
    <2> QED
      BY <2>3, <2>4, RoundedUp
  <1> QED
    BY <1>1, OptimalityInvariant, PTL
=============================================================================

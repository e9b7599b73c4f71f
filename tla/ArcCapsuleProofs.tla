-------------------------- MODULE ArcCapsuleProofs --------------------------
(***************************************************************************)
(* What sealing promises, for every cover, item, key, profile and size: an *)
(* item that fits is sealed, a capsule that was not damaged beyond its     *)
(* profile opens as what was sealed, and the corruption fixture reaches    *)
(* the bound and does not pass it.                                         *)
(***************************************************************************)
EXTENDS ArcCapsule, Induction, SequenceTheorems

-----------------------------------------------------------------------------
(* Numbers.                                                                *)

LEMMA Sizes ==
    /\ BOOTSTRAP_CHANNELS \in Nat \ {0} /\ bits_per_codeword \in Nat \ {0}
    /\ RS_N \in Nat \ {0} /\ ByteBits \in Nat \ {0}
    /\ \A p \in Profiles : DataLen[p] \in Nat \ {0} /\ DataLen[p] <= RS_N
    /\ \A p \in Profiles : correction_budget(p) \in Nat /\ correction_budget(p) <= RS_N
<1>1. BOOTSTRAP_LEN \in Nat \ {0} /\ RS_N \in Nat \ {0} /\ ByteBits \in Nat \ {0}
      /\ DataLen \in [Profiles -> 1 .. RS_N]
  BY ConstantsAssumption
<1>2. \A x, y \in Nat \ {0} : x * y \in Nat \ {0}
  OBVIOUS
<1>3. \A x \in Nat : x \div 2 \in Nat /\ x \div 2 <= x
  OBVIOUS
<1>4. \A p \in Profiles : DataLen[p] \in 1 .. RS_N
  BY <1>1
<1>5. \A p \in Profiles : RS_N - DataLen[p] \in Nat /\ RS_N - DataLen[p] <= RS_N
  BY <1>1, <1>4
<1> QED
  BY <1>1, <1>2, <1>3, <1>4, <1>5
     DEF BOOTSTRAP_CHANNELS, bits_per_codeword, correction_budget

\* Dividing a product of one of its factors or less.
LEMMA Floor ==
    ASSUME NEW a \in Nat, NEW b \in Nat \ {0}
    PROVE  a \div b \in Nat /\ (a \div b) * b <= a /\ a < (a \div b) * b + b
           /\ a = (a \div b) * b + (a % b) /\ a % b \in 0 .. b - 1
OBVIOUS

LEMMA TimesMonotone ==
    ASSUME NEW x \in Nat, NEW y \in Nat, NEW d \in Nat, x <= y
    PROVE  x * d <= y * d /\ x * d \in Nat /\ y * d \in Nat
<1>1. y - x \in Nat /\ y = x + (y - x)
  OBVIOUS
<1>2. (y - x) * d \in Nat /\ x * d \in Nat
  BY <1>1
<1>3. y * d = x * d + (y - x) * d
  BY <1>1
<1> QED
  BY <1>2, <1>3

\* What fits in a fraction fits in the whole.
LEMMA FractionFits ==
    ASSUME NEW n \in Nat, NEW num \in Nat, NEW den \in Nat \ {0}, num <= den
    PROVE  (n * num) \div den \in Nat /\ (n * num) \div den <= n
<1> DEFINE a == n * num
           q == a \div den
<1>1. a \in Nat /\ a <= n * den /\ n * den \in Nat
  <2>1. num * n <= den * n /\ num * n \in Nat /\ den * n \in Nat
    BY TimesMonotone
  <2> QED
    BY <2>1
<1> HIDE DEF a
<1>2. q \in Nat /\ q * den <= a
  BY <1>1, Floor
<1> HIDE DEF q
<1>3. ~ (n + 1 <= q)
  <2> SUFFICES ASSUME n + 1 <= q PROVE FALSE
    OBVIOUS
  <2>1. (n + 1) * den <= q * den /\ q * den \in Nat
    BY <1>2, TimesMonotone
  <2>2. (n + 1) * den = n * den + den
    OBVIOUS
  <2> QED
    BY <1>1, <1>2, <2>1, <2>2
<1> QED
  BY <1>2, <1>3 DEF q, a

-----------------------------------------------------------------------------
(* Capacity.                                                               *)

\* What a picture that passes Capacity::checked has room for.
HasRoom(w, h) ==
    /\ w \in 1 .. MAX_DIMENSION /\ h \in 1 .. MAX_DIMENSION
    /\ Channels(w, h) \in Nat
    /\ candidate_bits(w, h) \in Nat \ {0}
    /\ Channels(w, h) = BOOTSTRAP_CHANNELS + candidate_bits(w, h)
    /\ usable_bits(w, h) \in Nat /\ usable_bits(w, h) <= candidate_bits(w, h)
    /\ max_codewords(w, h) \in Nat \ {0}
    /\ max_codewords(w, h) <= MAX_CODEWORDS
    /\ \A n \in Nat : n <= max_codewords(w, h) => n * bits_per_codeword <= usable_bits(w, h)

LEMMA Room ==
    ASSUME NEW w \in Nat, NEW h \in Nat, CapacityError(w, h) = "Ok"
    PROVE  HasRoom(w, h)
<1> DEFINE n == candidate_bits(w, h)
           u == usable_bits(w, h)
           b == bits_per_codeword
           q == u \div b
           m == max_codewords(w, h)
<1>1. MAX_DIMENSION \in Nat /\ MAX_CODEWORDS \in Nat /\ DENSITY_NUMERATOR \in Nat
      /\ DENSITY_DENOMINATOR \in Nat \ {0} /\ DENSITY_NUMERATOR <= DENSITY_DENOMINATOR
  BY ConstantsAssumption
<1>2. w # 0 /\ h # 0 /\ w <= MAX_DIMENSION /\ h <= MAX_DIMENSION /\ ~ (n < 0) /\ m # 0
  <2> HIDE DEF n, m
  <2>1. /\ ~ (w = 0) /\ ~ (h = 0) /\ ~ (w > MAX_DIMENSION) /\ ~ (h > MAX_DIMENSION)
        /\ ~ (n < 0) /\ ~ (m = 0)
    BY Zenon DEF CapacityError, n, m
  <2>2. \A x, y \in Nat : ~ (x > y) => x <= y
    OBVIOUS
  <2> QED
    BY <1>1, <2>1, <2>2, Zenon
<1>3. w \in 1 .. MAX_DIMENSION /\ h \in 1 .. MAX_DIMENSION
  BY <1>1, <1>2
<1>4. BOOTSTRAP_CHANNELS \in Nat \ {0} /\ b \in Nat \ {0}
  BY Sizes
<1>5. Channels(w, h) \in Nat
  BY DEF Channels
<1>6. n = Channels(w, h) - BOOTSTRAP_CHANNELS
  BY DEF candidate_bits
<1>7. n \in Nat
  BY <1>2, <1>4, <1>5, <1>6
<1>8. u = (n * DENSITY_NUMERATOR) \div DENSITY_DENOMINATOR
  BY DEF usable_bits
<1>9. m = IF q < MAX_CODEWORDS THEN q ELSE MAX_CODEWORDS
  BY DEF max_codewords
<1> HIDE DEF n, u, m, b
<1>10. u \in Nat /\ u <= n
  BY <1>1, <1>7, <1>8, FractionFits
<1>11. q \in Nat /\ q * b <= u
  BY <1>4, <1>10, Floor
<1> HIDE DEF q
<1>12. m \in Nat \ {0} /\ m <= MAX_CODEWORDS /\ m <= q
  BY <1>2, <1>1, <1>9, <1>11
<1>13. ASSUME NEW k \in Nat, k <= m PROVE k * b <= u
  <2>1. k * b <= q * b /\ k * b \in Nat /\ q * b \in Nat
    BY <1>4, <1>11, <1>12, <1>13, TimesMonotone
  <2> QED
    BY <1>10, <1>11, <2>1
<1>14. n # 0
  <2> SUFFICES ASSUME n = 0 PROVE FALSE
    OBVIOUS
  <2>1. u = 0 /\ 1 * b <= u
    BY <1>7, <1>10, <1>12, <1>13
  <2> QED
    BY <1>4, <2>1
<1> QED
  BY <1>3, <1>4, <1>5, <1>6, <1>7, <1>10, <1>12, <1>13, <1>14 DEF n, u, m, b, HasRoom

-----------------------------------------------------------------------------
(* The permutation of the channels.                                        *)

Injective(f) == \A i, j \in DOMAIN f : f[i] = f[j] => i = j

\* Arrangements of the candidates: each index a different channel, none of the
\* bootstrap's.
Arranged(n) ==
    {f \in [1 .. n -> BOOTSTRAP_CHANNELS + 1 .. BOOTSTRAP_CHANNELS + n] : Injective(f)}

LEMMA SwapArranged ==
    ASSUME NEW n \in Nat, NEW f \in Arranged(n), NEW i \in 1 .. n, NEW j \in 1 .. n
    PROVE  Swap(f, i, j) \in Arranged(n)
<1> DEFINE g == Swap(f, i, j)
           R == BOOTSTRAP_CHANNELS + 1 .. BOOTSTRAP_CHANNELS + n
<1>1. f \in [1 .. n -> R] /\ DOMAIN f = 1 .. n
      /\ \A x, y \in 1 .. n : f[x] = f[y] => x = y
  BY DEF Arranged, Injective
<1> HIDE DEF R
<1>2. g \in [1 .. n -> R] /\ DOMAIN g = 1 .. n
  BY <1>1 DEF Swap
<1>3. \A x \in 1 .. n : g[x] = f[IF x = j THEN i ELSE IF x = i THEN j ELSE x]
  BY <1>1 DEF Swap
<1> HIDE DEF g
<1>4. ASSUME NEW x \in 1 .. n, NEW y \in 1 .. n, g[x] = g[y] PROVE x = y
  BY <1>1, <1>3, <1>4
<1> QED
  BY <1>2, <1>4 DEF Arranged, Injective, g, R

\* The swaps of payload_positions, one after the other.
Swaps(channels, seed) ==
    LET n == channels - BOOTSTRAP_CHANNELS
    IN  [m \in Nat |-> [f \in Arranged(n) |->
            IF m \in 1 .. (n - 1)
            THEN Swap(f, n - m + 1, (Word(seed, Draws(n, seed)[m + 1]) % (n - m + 1)) + 1)
            ELSE f]]

Shuffles(done, channels, seed) ==
    LET n == channels - BOOTSTRAP_CHANNELS
        draws == Draws(n, seed)
    IN  done = [j \in 0 .. (n - 1) |->
                  IF j = 0 THEN Candidates(channels)
                  ELSE Swap(done[j - 1], n - j + 1, (Word(seed, draws[j + 1]) % (n - j + 1)) + 1)]

LEMMA CandidatesArranged ==
    ASSUME NEW channels \in Nat, channels - BOOTSTRAP_CHANNELS \in Nat
    PROVE  Candidates(channels) \in Arranged(channels - BOOTSTRAP_CHANNELS)
BY Sizes DEF Candidates, Arranged, Injective

LEMMA ShuffleArranged ==
    ASSUME NEW channels \in Nat, NEW seed, NEW n \in Nat \ {0},
           n = channels - BOOTSTRAP_CHANNELS,
           \A j \in 1 .. (n - 1) : Word(seed, Draws(n, seed)[j + 1]) \in Nat
    PROVE  Shuffled(channels, seed) \in Arranged(n)
<1> DEFINE D == Arranged(n)
           first == Candidates(channels)
           swap == Swaps(channels, seed)
           Choice(m) == (Word(seed, Draws(n, seed)[m + 1]) % (n - m + 1)) + 1
<1>1. first \in D
  BY CandidatesArranged
<1>2. \A m \in 1 .. (n - 1) : n - m + 1 \in 1 .. n /\ Choice(m) \in 1 .. n
  <2> SUFFICES ASSUME NEW m \in 1 .. (n - 1) PROVE n - m + 1 \in 1 .. n /\ Choice(m) \in 1 .. n
    OBVIOUS
  <2> DEFINE word == Word(seed, Draws(n, seed)[m + 1])
             bound == n - m + 1
  <2>1. word \in Nat
    OBVIOUS
  <2>2. bound \in Nat \ {0} /\ bound <= n
    OBVIOUS
  <2> HIDE DEF word, bound
  <2>3. word % bound \in 0 .. bound - 1
    BY <2>1, <2>2
  <2>4. (word % bound) + 1 \in 1 .. n
    BY <2>2, <2>3
  <2> QED
    BY <2>2, <2>4 DEF word, bound
<1>3. swap = [m \in Nat |-> [f \in D |->
                IF m \in 1 .. (n - 1) THEN Swap(f, n - m + 1, Choice(m)) ELSE f]]
  BY DEF Swaps
<1> HIDE DEF Choice, swap, first
<1>4. swap \in [Nat -> [D -> D]]
  <2>1. \A m \in Nat, f \in D :
          (IF m \in 1 .. (n - 1) THEN Swap(f, n - m + 1, Choice(m)) ELSE f) \in D
    BY <1>2, SwapArranged
  <2> HIDE DEF D
  <2> QED
    BY <1>3, <2>1
<1> HIDE DEF D
<1>5. PICK g : CountsOn(g, D, first, swap)
  BY <1>1, <1>4, RecursionAt
<1> DEFINE f == [j \in 0 .. (n - 1) |-> g[j]]
<1>6. \A m \in Nat : g[m] \in D
  BY <1>5 DEF CountsOn
<1>7. \A j \in 0 .. (n - 1) :
        f[j] = IF j = 0 THEN first ELSE Swap(f[j - 1], n - j + 1, Choice(j))
  <2> SUFFICES ASSUME NEW j \in 0 .. (n - 1)
               PROVE  f[j] = IF j = 0 THEN first ELSE Swap(f[j - 1], n - j + 1, Choice(j))
    OBVIOUS
  <2>1. CASE j = 0
    BY <2>1, <1>5 DEF CountsOn
  <2>2. CASE j # 0
    <3>1. j \in Nat \ {0} /\ j \in 1 .. (n - 1) /\ j - 1 \in Nat /\ j - 1 \in 0 .. (n - 1)
      BY <2>2
    <3>2. g[j] = swap[j][g[j - 1]]
      BY <1>5, <3>1 DEF CountsOn
    <3>3. swap[j][g[j - 1]] = Swap(g[j - 1], n - j + 1, Choice(j))
      BY <1>3, <1>6, <3>1
    <3> QED
      BY <2>2, <3>1, <3>2, <3>3
  <2> QED
    BY <2>1, <2>2
<1>8. Shuffles(f, channels, seed)
  <2>1. f = [j \in 0 .. (n - 1) |-> f[j]]
    OBVIOUS
  <2> HIDE DEF f
  <2>2. f = [j \in 0 .. (n - 1) |->
               IF j = 0 THEN first ELSE Swap(f[j - 1], n - j + 1, Choice(j))]
    BY <1>7, <2>1
  <2> QED
    BY <2>2 DEF Shuffles, first, Choice
<1> DEFINE done == CHOOSE d : Shuffles(d, channels, seed)
<1>9. Shuffled(channels, seed) = done[n - 1]
  BY DEF Shuffled, Shuffles
<1>10. Shuffles(done, channels, seed)
  BY <1>8
<1> HIDE DEF done, f
<1>11. \A j \in 0 .. (n - 1) :
         done[j] = IF j = 0 THEN first ELSE Swap(done[j - 1], n - j + 1, Choice(j))
  BY <1>10 DEF Shuffles, first, Choice
<1> DEFINE S == {m \in Nat : m < n => done[m] \in D}
<1>12. 0 \in S
  BY <1>1, <1>11
<1>13. ASSUME NEW m \in Nat, m \in S PROVE m + 1 \in S
  <2> SUFFICES ASSUME m + 1 < n PROVE done[m + 1] \in D
    OBVIOUS
  <2>1. m + 1 \in 0 .. (n - 1) /\ m + 1 \in 1 .. (n - 1) /\ m + 1 # 0 /\ (m + 1) - 1 = m
    OBVIOUS
  <2>2. done[m] \in D
    BY <1>13
  <2>3. done[m + 1] = Swap(done[m], n - (m + 1) + 1, Choice(m + 1))
    BY <1>11, <2>1
  <2>4. n - (m + 1) + 1 \in 1 .. n /\ Choice(m + 1) \in 1 .. n
    BY <1>2, <2>1
  <2> QED
    BY <2>2, <2>3, <2>4, SwapArranged DEF D
<1>14. \A m \in Nat : m \in S
  <2> HIDE DEF S
  <2> QED
    BY <1>12, <1>13, Induction
<1>15. n - 1 \in S /\ n - 1 \in Nat /\ n - 1 < n
  BY <1>14
<1> QED
  BY <1>9, <1>15 DEF D

\* The channels the bits of a payload go to: all different, none of the
\* bootstrap's, all in the picture.
LEMMA Positions ==
    ASSUME NEW w \in Nat, NEW h \in Nat, CapacityError(w, h) = "Ok", NEW key \in Keys,
           NEW bits \in Nat, bits <= candidate_bits(w, h)
    PROVE  LET p == payload_positions(Channels(w, h), PermutationSeed(key, w, h), bits)
           IN  /\ p \in [1 .. bits -> BOOTSTRAP_CHANNELS + 1 .. Channels(w, h)]
               /\ \A i, j \in 1 .. bits : p[i] = p[j] => i = j
<1> DEFINE n == candidate_bits(w, h)
           channels == Channels(w, h)
           seed == PermutationSeed(key, w, h)
           p == payload_positions(channels, seed, bits)
           s == Shuffled(channels, seed)
<1>1. HasRoom(w, h)
  BY Room
<1>2. /\ w \in 1 .. MAX_DIMENSION /\ h \in 1 .. MAX_DIMENSION
      /\ channels \in Nat /\ n \in Nat \ {0} /\ channels = BOOTSTRAP_CHANNELS + n
  BY <1>1 DEF HasRoom
<1>3. \A j \in 1 .. (n - 1) : Word(seed, Draws(n, seed)[j + 1]) \in Nat
  BY <1>2, DrawsAssumption
<1>4. p = [i \in 1 .. bits |-> s[i]]
  BY DEF payload_positions
<1>5. BOOTSTRAP_CHANNELS \in Nat
  BY Sizes
<1> HIDE DEF n, channels, seed, p, s
<1>6. s \in Arranged(n)
  <2>1. n = channels - BOOTSTRAP_CHANNELS
    BY <1>2, <1>5
  <2> QED
    BY <1>2, <1>3, <2>1, ShuffleArranged DEF s
<1>7. s \in [1 .. n -> BOOTSTRAP_CHANNELS + 1 .. channels]
      /\ \A i, j \in 1 .. n : s[i] = s[j] => i = j
  BY <1>2, <1>6 DEF Arranged, Injective
<1>8. 1 .. bits \subseteq 1 .. n
  BY <1>2 DEF n
<1> QED
  BY <1>4, <1>7, <1>8 DEF p, seed, channels

-----------------------------------------------------------------------------
(* What a sealed picture holds.                                            *)

LEMMA ParityType == \A v \in Nat : Parity(v) \in {0, 1}
BY DEF Parity

\* A channel that moves by one changes its parity.
LEMMA ParityChanges ==
    ASSUME NEW x \in Nat, NEW y \in Nat, y = x + 1 \/ y + 1 = x
    PROVE  Parity(y) # Parity(x)
BY DEF Parity

LEMMA StepParity ==
    ASSUME NEW v \in 0 .. MaxChannel, NEW up
    PROVE  Step(v, up) \in 0 .. MaxChannel /\ Parity(Step(v, up)) # Parity(v)
<1>1. MaxChannel \in Nat \ {0}
  BY ConstantsAssumption
<1>2. \A x \in Nat : (x + 1) % 2 # x % 2
  OBVIOUS
<1>3. v \in Nat /\ v <= MaxChannel
  BY <1>1
<1>4. CASE v = 0
  BY <1>1, <1>4 DEF Step, Parity
<1>5. CASE v # 0 /\ v = MaxChannel
  <2>1. Step(v, up) = v - 1 /\ v - 1 \in Nat /\ (v - 1) + 1 = v
    BY <1>3, <1>5 DEF Step
  <2> QED
    BY <1>2, <1>5, <2>1 DEF Parity
<1>6. CASE v # 0 /\ v # MaxChannel
  <2>1. Step(v, up) = v + 1 \/ Step(v, up) = v - 1
    BY <1>6 DEF Step
  <2>2. v - 1 \in Nat /\ (v - 1) + 1 = v /\ v + 1 \in 0 .. MaxChannel /\ v - 1 \in 0 .. MaxChannel
    BY <1>1, <1>3, <1>6
  <2> QED
    BY <1>2, <1>3, <2>1, <2>2 DEF Parity
<1> QED
  BY <1>4, <1>5, <1>6

\* Different channels of a raster for m bits; m bits; and their being there.
Apart(positions, m, C) ==
    /\ positions \in [1 .. m -> 1 .. C]
    /\ \A i, j \in 1 .. m : positions[i] = positions[j] => i = j
AreBits(bytes, m) == \A i \in 1 .. m : BitOf(bytes, i) \in {0, 1}
Arrived(raster, positions, m, C, bytes) ==
    /\ raster \in [1 .. C -> 0 .. MaxChannel]
    /\ \A i \in 1 .. m : Parity(raster[positions[i]]) = BitOf(bytes, i)

\* embed_payload leaves each bit where its position says.
LEMMA EmbeddedParity ==
    ASSUME NEW C \in Nat, NEW raster \in [1 .. C -> 0 .. MaxChannel],
           NEW m \in Nat, NEW positions, Apart(positions, m, C),
           NEW bytes, NEW seed, AreBits(bytes, m)
    PROVE  Arrived(Embedded(raster, positions, bytes, seed), positions, m, C, bytes)
<1> DEFINE Here(c) == {i \in DOMAIN positions : positions[i] = c}
           I(c) == CHOOSE i \in Here(c) : TRUE
           At(c) == IF Here(c) # {} /\ Parity(raster[c]) # BitOf(bytes, I(c))
                    THEN Step(raster[c], Word(seed, I(c) - 1) % 2 = 1) ELSE raster[c]
           e == Embedded(raster, positions, bytes, seed)
<1>0. positions \in [1 .. m -> 1 .. C] /\ DOMAIN positions = 1 .. m
      /\ \A i, j \in 1 .. m : positions[i] = positions[j] => i = j
  BY DEF Apart
<1>1. e = [c \in 1 .. C |-> At(c)]
  BY DEF Embedded
<1>2. MaxChannel \in Nat
  BY ConstantsAssumption
<1>3. \A c \in 1 .. C : raster[c] \in 0 .. MaxChannel /\ raster[c] \in Nat
  BY <1>2
<1>4. \A c \in 1 .. C : At(c) \in 0 .. MaxChannel
  BY <1>3, StepParity
<1>5. ASSUME NEW i \in 1 .. m PROVE Parity(At(positions[i])) = BitOf(bytes, i)
  <2> DEFINE c == positions[i]
  <2>1. c \in 1 .. C /\ i \in Here(c)
    BY <1>0
  <2>2. I(c) \in Here(c)
    BY <2>1
  <2>3. I(c) = i
    BY <1>0, <2>2
  <2>4. Parity(raster[c]) \in {0, 1} /\ BitOf(bytes, i) \in {0, 1}
    BY <1>3, <2>1, ParityType DEF AreBits
  <2> HIDE DEF I, c
  <2>5. CASE Parity(raster[c]) = BitOf(bytes, i)
    BY <2>3, <2>5 DEF c
  <2>6. CASE Parity(raster[c]) # BitOf(bytes, i)
    <3> DEFINE up == Word(seed, I(c) - 1) % 2 = 1
    <3>1. At(c) = Step(raster[c], up)
      BY <2>1, <2>3, <2>6
    <3> HIDE DEF up
    <3>2. Parity(Step(raster[c], up)) # Parity(raster[c]) /\ Step(raster[c], up) \in Nat
      BY <1>2, <1>3, <2>1, StepParity
    <3>3. Parity(Step(raster[c], up)) \in {0, 1}
      BY <3>2, ParityType
    <3> HIDE DEF Here
    <3> QED
      BY <2>4, <2>6, <3>1, <3>2, <3>3 DEF c
  <2> QED
    BY <2>5, <2>6
<1> HIDE DEF At, e
<1>6. e \in [1 .. C -> 0 .. MaxChannel]
  BY <1>1, <1>4
<1>7. \A i \in 1 .. m : Parity(e[positions[i]]) = BitOf(bytes, i)
  BY <1>0, <1>1, <1>5
<1> QED
  BY <1>6, <1>7 DEF e, Arrived

\* embed_bootstrap leaves its bits in the first channels and the others alone.
LEMMA BootstrapParity ==
    ASSUME NEW C \in Nat, BOOTSTRAP_CHANNELS <= C,
           NEW raster \in [1 .. C -> 0 .. MaxChannel], NEW boot \in Boots
    PROVE  /\ WithBootstrap(raster, boot) \in [1 .. C -> 0 .. MaxChannel]
           /\ \A c \in 1 .. C : c > BOOTSTRAP_CHANNELS =>
                 WithBootstrap(raster, boot)[c] = raster[c]
           /\ \A c \in 1 .. BOOTSTRAP_CHANNELS :
                 Parity(WithBootstrap(raster, boot)[c]) = boot[c]
<1> DEFINE e == WithBootstrap(raster, boot)
           At(c) == IF c <= BOOTSTRAP_CHANNELS /\ Parity(raster[c]) # boot[c]
                    THEN IF raster[c] = MaxChannel THEN MaxChannel - 1 ELSE raster[c] + 1
                    ELSE raster[c]
<1>1. e = [c \in 1 .. C |-> At(c)]
  BY DEF WithBootstrap
<1>2. MaxChannel \in Nat \ {0} /\ BOOTSTRAP_CHANNELS \in Nat
  BY Sizes, ConstantsAssumption
<1>3. boot \in [1 .. BOOTSTRAP_CHANNELS -> {0, 1}]
  BY ConstantsAssumption DEF BOOTSTRAP_CHANNELS
<1>5. ASSUME NEW c \in 1 .. C
      PROVE  At(c) \in 0 .. MaxChannel
             /\ (c <= BOOTSTRAP_CHANNELS => Parity(At(c)) = boot[c])
             /\ (c > BOOTSTRAP_CHANNELS => At(c) = raster[c])
  <2>1. raster[c] \in Nat /\ raster[c] <= MaxChannel
    BY <1>2
  <2>2. Parity(raster[c]) \in {0, 1}
    BY <2>1, ParityType
  <2>3. CASE c <= BOOTSTRAP_CHANNELS /\ Parity(raster[c]) # boot[c]
    <3>1. boot[c] \in {0, 1}
      BY <1>3, <2>3
    <3>2. At(c) \in 0 .. MaxChannel /\ (At(c) = raster[c] + 1 \/ At(c) + 1 = raster[c])
      BY <1>2, <2>1, <2>3
    <3> HIDE DEF At
    <3>3. Parity(At(c)) # Parity(raster[c])
      <4> DEFINE x == raster[c]
                 y == At(c)
      <4>1. x \in Nat /\ y \in Nat /\ (y = x + 1 \/ y + 1 = x)
        BY <1>2, <2>1, <3>2
      <4> HIDE DEF x, y
      <4>2. Parity(y) # Parity(x)
        BY <4>1, ParityChanges
      <4> QED
        BY <4>2 DEF x, y
    <3>4. Parity(At(c)) \in {0, 1}
      BY <1>2, <3>2, ParityType
    <3> QED
      BY <1>2, <2>2, <2>3, <3>1, <3>2, <3>3, <3>4
  <2>4. CASE c <= BOOTSTRAP_CHANNELS /\ Parity(raster[c]) = boot[c]
    BY <1>2, <2>4
  <2>5. CASE ~ (c <= BOOTSTRAP_CHANNELS)
    BY <1>2, <2>5
  <2> QED
    BY <2>3, <2>4, <2>5
<1> HIDE DEF At, e
<1>6. e \in [1 .. C -> 0 .. MaxChannel]
  BY <1>1, <1>5
<1>7. \A c \in 1 .. BOOTSTRAP_CHANNELS : c \in 1 .. C /\ c <= BOOTSTRAP_CHANNELS
  BY <1>2
<1> QED
  BY <1>1, <1>5, <1>6, <1>7 DEF e

\* interleave_column_major, read back: byte r of codeword w is at
\* (r - 1) * count + w.
LEMMA PlaceOf ==
    ASSUME NEW count \in Nat \ {0}, NEW w \in 1 .. count, NEW r \in 1 .. RS_N
    PROVE  /\ (r - 1) * count + w \in 1 .. (count * RS_N)
           /\ Place((r - 1) * count + w, count) = [word |-> w, row |-> r]
<1>1. RS_N \in Nat \ {0} /\ r - 1 \in Nat /\ w - 1 \in 0 .. (count - 1)
  BY Sizes
<1> DEFINE i == (r - 1) * count + w
<1>2. i - 1 = (r - 1) * count + (w - 1)
  BY <1>1
<1>3. (i - 1) \div count = r - 1 /\ (i - 1) % count = w - 1
  <2>1. ((r - 1) * count + (w - 1)) \div count = r - 1
        /\ ((r - 1) * count + (w - 1)) % count = w - 1
    BY <1>1, DivisionIsUnique
  <2> QED
    BY <1>2, <2>1
<1>4. i \in 1 .. (count * RS_N)
  <2>1. (r - 1) * count \in Nat /\ ((r - 1) + 1) * count <= RS_N * count
        /\ RS_N * count \in Nat
    BY <1>1, TimesMonotone
  <2>2. ((r - 1) + 1) * count = (r - 1) * count + count
    BY <1>1
  <2>3. RS_N * count = count * RS_N
    BY <1>1
  <2> DEFINE x == (r - 1) * count
             y == RS_N * count
  <2> HIDE DEF x, y
  <2>4. x \in Nat /\ y \in Nat /\ x + count <= y
    BY <2>1, <2>2 DEF x, y
  <2>5. x + w \in 1 .. y
    BY <2>4
  <2> QED
    BY <2>3, <2>5 DEF x, y
<1> HIDE DEF i
<1>5. Place(i, count) = [word |-> (w - 1) + 1, row |-> (r - 1) + 1]
  BY <1>3 DEF Place
<1>6. (w - 1) + 1 = w /\ (r - 1) + 1 = r
  BY <1>1
<1> QED
  BY <1>4, <1>5, <1>6 DEF i

\* The bit b of that byte, in the order the bits are embedded.
BitIndex(count, w, r, b) == (((r - 1) * count + w) - 1) * ByteBits + b

LEMMA BitPlace ==
    ASSUME NEW count \in Nat \ {0}, NEW w \in 1 .. count, NEW r \in 1 .. RS_N,
           NEW b \in 1 .. ByteBits
    PROVE  /\ BitIndex(count, w, r, b) \in 1 .. ((count * RS_N) * ByteBits)
           /\ (BitIndex(count, w, r, b) - 1) \div ByteBits = ((r - 1) * count + w) - 1
           /\ (BitIndex(count, w, r, b) - 1) % ByteBits = b - 1
<1> DEFINE i == (r - 1) * count + w
           n == count * RS_N
<1>1. i \in 1 .. n /\ n \in Nat
  BY PlaceOf, Sizes
<1>2. ByteBits \in Nat \ {0}
  BY Sizes
<1> HIDE DEF i, n
<1>3. i - 1 \in Nat /\ b - 1 \in 0 .. (ByteBits - 1)
  BY <1>1, <1>2
<1> DEFINE x == (i - 1) * ByteBits
<1>4. x \in Nat /\ ((i - 1) + 1) * ByteBits <= n * ByteBits /\ n * ByteBits \in Nat
  BY <1>1, <1>2, <1>3, TimesMonotone
<1>5. ((i - 1) + 1) * ByteBits = x + ByteBits
  BY <1>2, <1>3
<1>6. (x + (b - 1)) \div ByteBits = i - 1 /\ (x + (b - 1)) % ByteBits = b - 1
  BY <1>2, <1>3, DivisionIsUnique
<1> DEFINE y == n * ByteBits
<1> HIDE DEF x, y
<1>7. x + b \in 1 .. y /\ (x + b) - 1 = x + (b - 1)
  BY <1>2, <1>4, <1>5 DEF y
<1>8. BitIndex(count, w, r, b) = x + b
  BY DEF BitIndex, x, i
<1> QED
  BY <1>6, <1>7, <1>8 DEF i, y, n

\* Different bits go to different places.
LEMMA BitIndexInjective ==
    ASSUME NEW count \in Nat \ {0}, NEW w \in 1 .. count, NEW v \in 1 .. count,
           NEW r \in 1 .. RS_N, NEW q \in 1 .. RS_N,
           NEW b \in 1 .. ByteBits, NEW a \in 1 .. ByteBits,
           BitIndex(count, w, r, b) = BitIndex(count, v, q, a)
    PROVE  w = v /\ r = q /\ b = a
<1>1. b - 1 = a - 1 /\ ((r - 1) * count + w) - 1 = ((q - 1) * count + v) - 1
  <2>1. (BitIndex(count, w, r, b) - 1) \div ByteBits = ((r - 1) * count + w) - 1
        /\ (BitIndex(count, w, r, b) - 1) % ByteBits = b - 1
    BY BitPlace
  <2>2. (BitIndex(count, v, q, a) - 1) \div ByteBits = ((q - 1) * count + v) - 1
        /\ (BitIndex(count, v, q, a) - 1) % ByteBits = a - 1
    BY BitPlace
  <2> QED
    BY <2>1, <2>2
<1>2. (r - 1) * count + w = (q - 1) * count + v
  <2>1. \A x, y \in Int : x - 1 = y - 1 => x = y
    OBVIOUS
  <2>2. (r - 1) * count + w \in Int /\ (q - 1) * count + v \in Int
    BY Sizes
  <2> QED
    BY <1>1, <2>1, <2>2
<1>3. [word |-> w, row |-> r] = [word |-> v, row |-> q]
  <2>1. Place((r - 1) * count + w, count) = [word |-> w, row |-> r]
        /\ Place((q - 1) * count + v, count) = [word |-> v, row |-> q]
    BY PlaceOf
  <2> QED
    BY <1>2, <2>1
<1>4. [word |-> w, row |-> r].word = [word |-> v, row |-> q].word
      /\ [word |-> w, row |-> r].row = [word |-> v, row |-> q].row
  BY <1>3
<1> QED
  BY <1>1, <1>4, Sizes

\* The bit b of byte r of codeword w is the BitIndex-th that is embedded.
LEMMA BitAt ==
    ASSUME NEW count \in Nat \ {0}, NEW codewords \in [1 .. count -> Patterns],
           NEW w \in 1 .. count, NEW r \in 1 .. RS_N, NEW b \in 1 .. ByteBits
    PROVE  BitOf(Interleaved(codewords), BitIndex(count, w, r, b)) = codewords[w][r][b]
<1> DEFINE i == (r - 1) * count + w
           k == BitIndex(count, w, r, b)
<1>1. Len(codewords) = count
  <2>1. codewords \in Seq(Patterns) /\ DOMAIN codewords = 1 .. count
    OBVIOUS
  <2> QED
    BY <2>1
<1>2. i \in 1 .. (count * RS_N) /\ Place(i, count) = [word |-> w, row |-> r]
  BY PlaceOf
<1>3. Interleaved(codewords)[i] = codewords[w][r]
  <2> HIDE DEF i
  <2>1. Interleaved(codewords)[i] = codewords[Place(i, count).word][Place(i, count).row]
    BY <1>1, <1>2 DEF Interleaved
  <2> QED
    BY <1>2, <2>1
<1>4. (k - 1) \div ByteBits = i - 1 /\ (k - 1) % ByteBits = b - 1
  BY BitPlace
<1>5. (i - 1) + 1 = i /\ (b - 1) + 1 = b
  <2>1. i \in Int /\ b \in Int
    BY Sizes
  <2> QED
    BY <2>1
<1> HIDE DEF i, k
<1> QED
  BY <1>3, <1>4, <1>5 DEF BitOf, k

\* A codeword is a sequence of bytes of bits.
LEMMA PatternType ==
    ASSUME NEW count, NEW codewords \in [1 .. count -> Patterns],
           NEW w \in 1 .. count, NEW r \in 1 .. RS_N
    PROVE  codewords[w][r] \in [1 .. ByteBits -> {0, 1}]
<1>1. Patterns \subseteq [1 .. RS_N -> [1 .. ByteBits -> {0, 1}]]
  BY ConstantsAssumption
<1>2. codewords[w] \in [1 .. RS_N -> [1 .. ByteBits -> {0, 1}]]
  BY <1>1
<1> QED
  BY <1>2

\* Every bit that is embedded is a bit.
LEMMA BitType ==
    ASSUME NEW count \in Nat \ {0}, NEW codewords \in [1 .. count -> Patterns],
           NEW i \in 1 .. ((count * RS_N) * ByteBits)
    PROVE  BitOf(Interleaved(codewords), i) \in {0, 1}
<1> DEFINE k == (i - 1) \div ByteBits
           b == (i - 1) % ByteBits
           n == count * RS_N
           p == Place(k + 1, count)
<1>1. ByteBits \in Nat \ {0} /\ RS_N \in Nat \ {0}
  BY Sizes
<1>2. n \in Nat /\ n * ByteBits \in Nat
  BY <1>1
<1>3. i - 1 \in Nat /\ i - 1 < n * ByteBits
  BY <1>2
<1>4. k \in Nat /\ k * ByteBits <= i - 1 /\ b \in 0 .. (ByteBits - 1)
  BY <1>1, <1>3, Floor
<1> HIDE DEF n, k, b
<1>5. k < n
  <2> SUFFICES ASSUME n <= k PROVE FALSE
    BY <1>2, <1>4
  <2>1. n * ByteBits <= k * ByteBits /\ k * ByteBits \in Nat
    BY <1>1, <1>2, <1>4, TimesMonotone
  <2> QED
    BY <1>2, <1>3, <1>4, <2>1
<1>6. k + 1 \in 1 .. n /\ b + 1 \in 1 .. ByteBits
  BY <1>1, <1>2, <1>4, <1>5
<1>7. p.word \in 1 .. count /\ p.row \in 1 .. RS_N
  <2>1. (k + 1) - 1 = k
    BY <1>4
  <2> DEFINE q == k \div count
             r == k % count
  <2>2. q \in Nat /\ q * count <= k /\ r \in 0 .. (count - 1)
    BY <1>4, Floor
  <2> HIDE DEF q, r
  <2>3. q < RS_N
    <3> SUFFICES ASSUME RS_N <= q PROVE FALSE
      BY <1>1, <2>2
    <3>1. RS_N * count <= q * count /\ q * count \in Nat /\ RS_N * count \in Nat
      BY <1>1, <2>2, TimesMonotone
    <3>2. RS_N * count = n
      BY <1>1 DEF n
    <3> QED
      BY <1>2, <1>4, <1>5, <2>2, <3>1, <3>2
  <2>4. p = [word |-> r + 1, row |-> q + 1]
    BY <2>1 DEF Place, q, r
  <2> QED
    BY <1>1, <2>2, <2>3, <2>4
<1>8. Len(codewords) = count
  <2>1. codewords \in Seq(Patterns) /\ DOMAIN codewords = 1 .. count
    OBVIOUS
  <2> QED
    BY <2>1
<1> HIDE DEF p
<1>9. Interleaved(codewords)[k + 1] = codewords[p.word][p.row]
  BY <1>6, <1>8 DEF Interleaved, n, p
<1>10. codewords[p.word][p.row] \in [1 .. ByteBits -> {0, 1}]
  BY <1>7, PatternType
<1>11. BitOf(Interleaved(codewords), i) = codewords[p.word][p.row][b + 1]
  BY <1>9 DEF BitOf, k, b
<1> QED
  BY <1>6, <1>10, <1>11

\* Where the payload of a capsule with count codewords is, in a picture of its
\* shape.
Where(key, w, h, count) ==
    payload_positions(Channels(w, h), PermutationSeed(key, w, h), count * bits_per_codeword)

Spread(p, w, h, count) ==
    /\ p \in [1 .. ((count * RS_N) * ByteBits) -> BOOTSTRAP_CHANNELS + 1 .. Channels(w, h)]
    /\ \A i, j \in 1 .. ((count * RS_N) * ByteBits) : p[i] = p[j] => i = j

LEMMA WhereIsSpread ==
    ASSUME NEW w \in Nat, NEW h \in Nat, CapacityError(w, h) = "Ok", NEW key \in Keys,
           NEW count \in Nat \ {0}, count <= max_codewords(w, h)
    PROVE  Spread(Where(key, w, h, count), w, h, count)
<1> DEFINE bits == count * bits_per_codeword
<1>1. HasRoom(w, h)
  BY Room
<1>2. bits_per_codeword \in Nat \ {0}
  BY Sizes
<1>3. bits \in Nat /\ bits <= usable_bits(w, h)
  BY <1>1, <1>2 DEF HasRoom
<1>4. bits <= candidate_bits(w, h)
  BY <1>1, <1>3 DEF HasRoom
<1>5. bits = (count * RS_N) * ByteBits
  <2>1. RS_N \in Nat /\ ByteBits \in Nat
    BY Sizes
  <2> QED
    BY <2>1 DEF bits_per_codeword
<1> DEFINE p == payload_positions(Channels(w, h), PermutationSeed(key, w, h), bits)
<1> HIDE DEF bits
<1>6. /\ p \in [1 .. bits -> BOOTSTRAP_CHANNELS + 1 .. Channels(w, h)]
      /\ \A i, j \in 1 .. bits : p[i] = p[j] => i = j
  BY <1>3, <1>4, Positions
<1>7. Where(key, w, h, count) = p
  BY DEF Where, p, bits
<1> QED
  BY <1>5, <1>6, <1>7 DEF Spread

\* What a raster holds that was sealed: the bits of the bootstrap and those of
\* every codeword, each at its place.
Holds(raster, key, w, h, count, codewords, boot) ==
    /\ raster \in [1 .. Channels(w, h) -> 0 .. MaxChannel]
    /\ \A c \in 1 .. BOOTSTRAP_CHANNELS : Parity(raster[c]) = boot[c]
    /\ \A v \in 1 .. count, r \in 1 .. RS_N, b \in 1 .. ByteBits :
          Parity(raster[Where(key, w, h, count)[BitIndex(count, v, r, b)]])
              = codewords[v][r][b]

LEMMA SealedHolds ==
    ASSUME NEW w \in Nat, NEW h \in Nat, CapacityError(w, h) = "Ok",
           call.cover.width = w, call.cover.height = h,
           call.cover.raster \in [1 .. Channels(w, h) -> 0 .. MaxChannel],
           call.key \in Keys, NEW count \in Nat \ {0}, count <= max_codewords(w, h),
           NEW codewords \in [1 .. count -> Patterns], NEW boot \in Boots
    PROVE  Holds(Sealed(codewords, boot), call.key, w, h, count, codewords, boot)
<1> DEFINE C == Channels(w, h)
           m == (count * RS_N) * ByteBits
           bytes == Interleaved(codewords)
           p == Where(call.key, w, h, count)
           seed == MatchingSeed(call.key, w, h)
           e == Embedded(call.cover.raster, p, bytes, seed)
           s == Sealed(codewords, boot)
<1>1. Spread(p, w, h, count)
  BY WhereIsSpread
<1>2. C \in Nat /\ BOOTSTRAP_CHANNELS \in Nat /\ BOOTSTRAP_CHANNELS <= C
  <2>1. HasRoom(w, h)
    BY Room
  <2> QED
    BY <2>1, Sizes DEF HasRoom
<1>3. m \in Nat
  BY Sizes
<1>4. Apart(p, m, C)
  BY <1>1, <1>2 DEF Spread, Apart
<1>5. AreBits(bytes, m)
  BY BitType DEF AreBits
<1>6. Len(bytes) * ByteBits = count * bits_per_codeword
  <2>1. Len(codewords) = count
    <3>1. codewords \in Seq(Patterns) /\ DOMAIN codewords = 1 .. count
      OBVIOUS
    <3> QED
      BY <3>1
  <2>2. RS_N \in Nat /\ ByteBits \in Nat /\ count * RS_N \in Nat
    BY Sizes
  <2>3. bytes = [i \in 1 .. (count * RS_N) |-> bytes[i]]
    BY <2>1 DEF Interleaved
  <2> HIDE DEF bytes
  <2> DEFINE n == count * RS_N
  <2> HIDE DEF n
  <2>4. Len(bytes) = n
    <3>1. bytes = [i \in 1 .. n |-> bytes[i]] /\ n \in Nat
      BY <2>2, <2>3 DEF n
    <3>2. DOMAIN bytes = 1 .. n
      BY <3>1
    <3> DEFINE S == {bytes[i] : i \in 1 .. n}
    <3>3. bytes \in [1 .. n -> S]
      BY <3>1
    <3> HIDE DEF S
    <3>4. bytes \in Seq(S)
      BY <3>1, <3>3
    <3> QED
      BY <3>1, <3>2, <3>4
  <2> QED
    BY <2>2, <2>4 DEF bits_per_codeword, n
<1>7. s = WithBootstrap(e, boot)
  BY <1>6 DEF Sealed, Where
<1> HIDE DEF C, m, bytes, p, seed, e, s
<1>8. Arrived(e, p, m, C, bytes)
  <2>1. call.cover.raster \in [1 .. C -> 0 .. MaxChannel]
    BY DEF C
  <2> DEFINE raster == call.cover.raster
  <2> HIDE DEF raster
  <2>2. raster \in [1 .. C -> 0 .. MaxChannel]
    BY <2>1 DEF raster
  <2>3. Arrived(Embedded(raster, p, bytes, seed), p, m, C, bytes)
    BY <1>2, <1>3, <1>4, <1>5, <2>2, EmbeddedParity, Zenon
  <2> QED
    BY <2>3 DEF raster, e
<1>9. /\ s \in [1 .. C -> 0 .. MaxChannel]
      /\ \A c \in 1 .. C : c > BOOTSTRAP_CHANNELS => s[c] = e[c]
      /\ \A c \in 1 .. BOOTSTRAP_CHANNELS : Parity(s[c]) = boot[c]
  <2>1. e \in [1 .. C -> 0 .. MaxChannel]
    BY <1>8, Zenon DEF Arrived
  <2> QED
    BY <1>2, <1>7, <2>1, BootstrapParity
<1>10. ASSUME NEW v \in 1 .. count, NEW r \in 1 .. RS_N, NEW b \in 1 .. ByteBits
       PROVE  Parity(s[p[BitIndex(count, v, r, b)]]) = codewords[v][r][b]
  <2> DEFINE i == BitIndex(count, v, r, b)
  <2>1. i \in 1 .. m
    BY BitPlace DEF m
  <2>2. BitOf(bytes, i) = codewords[v][r][b]
    BY BitAt DEF bytes
  <2> HIDE DEF i
  <2>3. p[i] \in 1 .. C /\ p[i] > BOOTSTRAP_CHANNELS
    BY <1>1, <1>2, <2>1 DEF Spread, m, C
  <2> QED
    BY <1>8, <1>9, <2>1, <2>2, <2>3 DEF i, Arrived
<1> QED
  BY <1>9, <1>10 DEF Holds, C, p, s

-----------------------------------------------------------------------------
(* What is read from it.                                                   *)

Differ(raster, sent) == {c \in DOMAIN raster : Parity(raster[c]) # Parity(sent[c])}

Received(raster, key, w, h, count) ==
    Deinterleaved(extract_payload(raster, Where(key, w, h, count), count * RS_N), count)

ByteAt(raster, key, w, h, count, v, r) ==
    [b \in 1 .. ByteBits |-> Parity(raster[Where(key, w, h, count)[BitIndex(count, v, r, b)]])]

LEMMA ReceivedAt ==
    ASSUME NEW raster, NEW key, NEW w, NEW h, NEW count \in Nat \ {0},
           NEW v \in 1 .. count, NEW r \in 1 .. RS_N
    PROVE  Received(raster, key, w, h, count)[v][r] = ByteAt(raster, key, w, h, count, v, r)
<1> DEFINE i == (r - 1) * count + v
           p == Where(key, w, h, count)
           e == extract_payload(raster, p, count * RS_N)
<1>1. i \in 1 .. (count * RS_N)
  BY PlaceOf
<1> HIDE DEF p
<1>2. Received(raster, key, w, h, count)[v][r] = e[i]
  BY DEF Received, Deinterleaved, p
<1>3. e[i] = [b \in 1 .. ByteBits |-> Parity(raster[p[(i - 1) * ByteBits + b]])]
  <2> HIDE DEF i
  <2> QED
    BY <1>1 DEF extract_payload
<1> HIDE DEF e
<1> QED
  BY <1>2, <1>3 DEF BitIndex, ByteAt, p

\* A byte that is read wrong has a bit on a channel that was disturbed.
LEMMA WrongByte ==
    ASSUME NEW w \in Nat, NEW h \in Nat, NEW key, NEW count \in Nat \ {0},
           Spread(Where(key, w, h, count), w, h, count),
           NEW codewords \in [1 .. count -> Patterns], NEW boot, NEW sent,
           Holds(sent, key, w, h, count, codewords, boot),
           NEW raster, DOMAIN raster = 1 .. Channels(w, h),
           NEW v \in 1 .. count, NEW r \in 1 .. RS_N,
           Received(raster, key, w, h, count)[v][r] # codewords[v][r]
    PROVE  \E b \in 1 .. ByteBits :
              Where(key, w, h, count)[BitIndex(count, v, r, b)] \in Differ(raster, sent)
<1> DEFINE p == Where(key, w, h, count)
           At(b) == p[BitIndex(count, v, r, b)]
<1>1. Received(raster, key, w, h, count)[v][r] = [b \in 1 .. ByteBits |-> Parity(raster[At(b)])]
  <2>1. Received(raster, key, w, h, count)[v][r] = ByteAt(raster, key, w, h, count, v, r)
    BY ReceivedAt
  <2>2. ByteAt(raster, key, w, h, count, v, r) = [b \in 1 .. ByteBits |-> Parity(raster[At(b)])]
    BY DEF ByteAt
  <2> HIDE DEF At
  <2> QED
    BY <2>1, <2>2
<1>2. codewords[v][r] \in [1 .. ByteBits -> {0, 1}]
  BY PatternType
<1>3. \A b \in 1 .. ByteBits : codewords[v][r][b] = Parity(sent[At(b)])
  BY DEF Holds
<1>4. \A b \in 1 .. ByteBits : At(b) \in 1 .. Channels(w, h)
  <2> SUFFICES ASSUME NEW b \in 1 .. ByteBits PROVE At(b) \in 1 .. Channels(w, h)
    OBVIOUS
  <2> DEFINE i == BitIndex(count, v, r, b)
  <2>1. i \in 1 .. ((count * RS_N) * ByteBits)
    BY BitPlace
  <2>2. BOOTSTRAP_CHANNELS \in Nat /\ Channels(w, h) \in Nat
    BY Sizes DEF Channels
  <2> HIDE DEF i, p
  <2>3. p[i] \in BOOTSTRAP_CHANNELS + 1 .. Channels(w, h)
    BY <2>1 DEF Spread, p
  <2> QED
    BY <2>2, <2>3 DEF i
<1> HIDE DEF At
<1>5. PICK b \in 1 .. ByteBits : Parity(raster[At(b)]) # codewords[v][r][b]
  BY <1>1, <1>2
<1>6. At(b) \in Differ(raster, sent)
  BY <1>3, <1>4, <1>5 DEF Differ
<1> QED
  BY <1>6 DEF At

\* No codeword has more wrong bytes than channels were disturbed.
LEMMA WrongBound ==
    ASSUME NEW w \in Nat, NEW h \in Nat, NEW key, NEW count \in Nat \ {0},
           Spread(Where(key, w, h, count), w, h, count),
           NEW codewords \in [1 .. count -> Patterns], NEW boot, NEW sent,
           Holds(sent, key, w, h, count, codewords, boot),
           NEW raster, DOMAIN raster = 1 .. Channels(w, h),
           NEW v \in 1 .. count
    PROVE  /\ IsFiniteSet(Differ(raster, sent))
           /\ Wrong(Received(raster, key, w, h, count)[v], codewords[v]) \in Nat
           /\ Wrong(Received(raster, key, w, h, count)[v], codewords[v])
                 <= Cardinality(Differ(raster, sent))
<1> DEFINE D == Differ(raster, sent)
           p == Where(key, w, h, count)
           received == Received(raster, key, w, h, count)
           rows == {r \in 1 .. RS_N : received[v][r] # codewords[v][r]}
           Bit(r) == CHOOSE b \in 1 .. ByteBits : p[BitIndex(count, v, r, b)] \in D
           g == [r \in rows |-> p[BitIndex(count, v, r, Bit(r))]]
<1>1. \A r \in rows : \E b \in 1 .. ByteBits : p[BitIndex(count, v, r, b)] \in D
  BY WrongByte
<1>2. \A r \in rows : Bit(r) \in 1 .. ByteBits /\ p[BitIndex(count, v, r, Bit(r))] \in D
  BY <1>1
<1>3. IsFiniteSet(D)
  <2>1. Channels(w, h) \in Nat
    BY DEF Channels
  <2>2. IsFiniteSet(1 .. Channels(w, h))
    BY <2>1, FS_Interval
  <2>3. D \subseteq 1 .. Channels(w, h)
    BY DEF Differ
  <2> HIDE DEF D
  <2> QED
    BY <2>2, <2>3, FS_Subset
<1> HIDE DEF Bit, D, received
<1>4. ASSUME NEW r \in rows, NEW q \in rows, g[r] = g[q] PROVE r = q
  <2> DEFINE i == BitIndex(count, v, r, Bit(r))
             j == BitIndex(count, v, q, Bit(q))
             m == (count * RS_N) * ByteBits
  <2>1. r \in 1 .. RS_N /\ q \in 1 .. RS_N /\ Bit(r) \in 1 .. ByteBits /\ Bit(q) \in 1 .. ByteBits
    BY <1>2
  <2>2. i \in 1 .. m /\ j \in 1 .. m
    BY <2>1, BitPlace
  <2>3. p[i] = p[j]
    BY <1>4
  <2> HIDE DEF i, j, p
  <2>4. i = j
    BY <2>2, <2>3 DEF Spread, p
  <2> QED
    BY <2>1, <2>4, BitIndexInjective DEF i, j
<1>5. g \in Injection(rows, D)
  <2>1. g \in [rows -> D]
    BY <1>2
  <2> HIDE DEF g, rows
  <2> QED
    BY <1>4, <2>1 DEF Injection, IsInjective
<1>6. Cardinality(rows) <= Cardinality(D) /\ IsFiniteSet(rows)
  <2> HIDE DEF g, rows
  <2> QED
    BY <1>3, <1>5, FS_Injection
<1>7. Cardinality(rows) \in Nat
  <2> HIDE DEF rows
  <2> QED
    BY <1>6, FS_CardinalityType
<1>8. Wrong(received[v], codewords[v]) = Cardinality(rows)
  BY DEF Wrong
<1> QED
  BY <1>3, <1>6, <1>7, <1>8 DEF D, received

-----------------------------------------------------------------------------
(* What the corruption fixture hits.                                       *)

Hit(key, w, h, count, profile) ==
    {Where(key, w, h, count)[BitIndex(count, v, r, 1)] :
        v \in 1 .. count, r \in FlippedRows(profile)}

LEMMA FlipParity == \A v \in Nat : Flip(v) \in Nat /\ Parity(Flip(v)) # Parity(v)
<1> SUFFICES ASSUME NEW v \in Nat PROVE Flip(v) \in Nat /\ Parity(Flip(v)) # Parity(v)
  OBVIOUS
<1>1. Flip(v) \in Nat /\ (Flip(v) = v + 1 \/ Flip(v) + 1 = v)
  BY DEF Flip
<1> DEFINE y == Flip(v)
<1> HIDE DEF y
<1>2. y \in Nat /\ (y = v + 1 \/ y + 1 = v)
  BY <1>1 DEF y
<1>3. Parity(y) # Parity(v)
  BY <1>2, ParityChanges
<1> QED
  BY <1>1, <1>3 DEF y

LEMMA HitOnce ==
    ASSUME NEW w \in Nat, NEW h \in Nat, NEW key, NEW count \in Nat \ {0},
           NEW profile \in Profiles, Spread(Where(key, w, h, count), w, h, count)
    PROVE  /\ Hit(key, w, h, count, profile) \subseteq BOOTSTRAP_CHANNELS + 1 .. Channels(w, h)
           /\ Cardinality(Hit(key, w, h, count, profile)) = correction_budget(profile) * count
<1> DEFINE p == Where(key, w, h, count)
           H == Hit(key, w, h, count, profile)
           rows == FlippedRows(profile)
           S == rows \X (1 .. count)
           g == [x \in S |-> p[BitIndex(count, x[2], x[1], 1)]]
           m == (count * RS_N) * ByteBits
<1>1. correction_budget(profile) \in Nat /\ correction_budget(profile) <= RS_N
      /\ RS_N \in Nat /\ ByteBits \in Nat \ {0}
  BY Sizes
<1>2. rows = 1 .. correction_budget(profile) /\ rows \subseteq 1 .. RS_N /\ 1 \in 1 .. ByteBits
  BY <1>1 DEF FlippedRows
<1>3. \A x \in S : x[1] \in 1 .. RS_N /\ x[1] \in rows /\ x[2] \in 1 .. count /\ x = <<x[1], x[2]>>
  BY <1>2
<1> HIDE DEF p, rows, m
<1>4. \A x \in S : BitIndex(count, x[2], x[1], 1) \in 1 .. m
  BY <1>2, <1>3, BitPlace DEF m
<1>5. \A i \in 1 .. m : p[i] \in BOOTSTRAP_CHANNELS + 1 .. Channels(w, h)
  BY DEF Spread, m, p
<1>6. \A i, j \in 1 .. m : p[i] = p[j] => i = j
  BY DEF Spread, m, p
<1>7. H = {g[x] : x \in S}
  <2>1. H = {p[BitIndex(count, v, r, 1)] : v \in 1 .. count, r \in rows}
    BY DEF Hit, p, rows
  <2> HIDE DEF H
  <2>2. \A x \in S : g[x] \in H
    BY <1>3, <2>1
  <2>3. ASSUME NEW v \in 1 .. count, NEW r \in rows
        PROVE  \E x \in S : p[BitIndex(count, v, r, 1)] = g[x]
    <3>1. <<r, v>> \in S /\ g[<<r, v>>] = p[BitIndex(count, v, r, 1)]
      OBVIOUS
    <3> QED
      BY <3>1
  <2> HIDE DEF g, S
  <2> QED
    BY <2>1, <2>2, <2>3
<1>8. ASSUME NEW x \in S, NEW y \in S, g[x] = g[y] PROVE x = y
  <2>1. BitIndex(count, x[2], x[1], 1) = BitIndex(count, y[2], y[1], 1)
    BY <1>4, <1>6, <1>8
  <2>2. x[2] = y[2] /\ x[1] = y[1]
    <3>1. /\ x[1] \in 1 .. RS_N /\ x[2] \in 1 .. count
          /\ y[1] \in 1 .. RS_N /\ y[2] \in 1 .. count
      BY <1>3
    <3> QED
      BY <1>2, <2>1, <3>1, BitIndexInjective
  <2> QED
    BY <1>3, <2>2
<1>9. g \in Bijection(S, H)
  <2> HIDE DEF S, H
  <2>1. g \in [S -> H]
    BY <1>7
  <2> HIDE DEF g
  <2>2. g \in Injection(S, H)
    BY <1>8, <2>1 DEF Injection, IsInjective
  <2>3. g \in Surjection(S, H)
    BY <1>7, <2>1 DEF Surjection
  <2> QED
    BY <2>2, <2>3 DEF Bijection
<1>10. IsFiniteSet(S) /\ Cardinality(S) = correction_budget(profile) * count
  <2>1. /\ IsFiniteSet(rows) /\ Cardinality(rows) = correction_budget(profile)
        /\ IsFiniteSet(1 .. count) /\ Cardinality(1 .. count) = count
    BY <1>1, <1>2, FS_Interval
  <2> QED
    BY <2>1, FS_Product
<1>11. Cardinality(H) = Cardinality(S)
  <2> HIDE DEF S, H, g
  <2> QED
    BY <1>9, <1>10, FS_Bijection DEF ExistsBijection
<1>12. H \subseteq BOOTSTRAP_CHANNELS + 1 .. Channels(w, h)
  <2> HIDE DEF H
  <2> QED
    BY <1>4, <1>5, <1>7
<1> HIDE DEF S, H
<1> QED
  BY <1>10, <1>11, <1>12 DEF H

\* A byte with a bit on a hit channel is in one of the promised rows.
LEMMA HitRows ==
    ASSUME NEW w \in Nat, NEW h \in Nat, NEW key, NEW count \in Nat \ {0},
           NEW profile \in Profiles, Spread(Where(key, w, h, count), w, h, count),
           NEW v \in 1 .. count, NEW r \in 1 .. RS_N, NEW b \in 1 .. ByteBits,
           Where(key, w, h, count)[BitIndex(count, v, r, b)] \in Hit(key, w, h, count, profile)
    PROVE  r \in FlippedRows(profile)
<1> DEFINE p == Where(key, w, h, count)
           m == (count * RS_N) * ByteBits
<1>1. correction_budget(profile) \in Nat /\ correction_budget(profile) <= RS_N
      /\ RS_N \in Nat /\ ByteBits \in Nat \ {0}
  BY Sizes
<1>2. PICK u \in 1 .. count, q \in FlippedRows(profile) :
         p[BitIndex(count, v, r, b)] = p[BitIndex(count, u, q, 1)]
  BY DEF Hit
<1>3. q \in 1 .. RS_N /\ 1 \in 1 .. ByteBits
  BY <1>1, <1>2 DEF FlippedRows
<1>4. BitIndex(count, v, r, b) \in 1 .. m /\ BitIndex(count, u, q, 1) \in 1 .. m
  BY <1>3, BitPlace
<1>5. BitIndex(count, v, r, b) = BitIndex(count, u, q, 1)
  <2> HIDE DEF p, m
  <2> QED
    BY <1>2, <1>4 DEF Spread, p, m
<1>6. r = q
  BY <1>3, <1>5, BitIndexInjective
<1> QED
  BY <1>2, <1>6

-----------------------------------------------------------------------------
(* The envelope.                                                           *)

\* Padding fills the last codeword: the padded length is a whole number of
\* them, and no smaller number would do.
LEMMA PaddingFills ==
    ASSUME NEW t \in Nat, NEW k \in Nat \ {0}
    PROVE  /\ Padding(t, k) \in Nat
           /\ t + Padding(t, k) \in Nat
           /\ (t + Padding(t, k)) % k = 0
           /\ (t + Padding(t, k)) \div k \in Nat
           /\ t > 0 => (t + Padding(t, k)) \div k # 0
           /\ \A m \in Nat : m < (t + Padding(t, k)) \div k => m * k < t
<1> DEFINE q == t \div k
           r == t % k
           p == Padding(t, k)
<1>1. q \in Nat /\ r \in 0 .. (k - 1) /\ t = q * k + r /\ q * k \in Nat
  <2>1. q \in Nat /\ r \in 0 .. (k - 1) /\ t = q * k + r
    BY Floor
  <2> HIDE DEF q, r
  <2> QED
    BY <2>1
<1>2. p = (k - r) % k
  BY DEF Padding
<1> HIDE DEF q, r, p
<1>3. CASE r = 0
  <2>1. p = 0
    <3>1. (1 * k + 0) % k = 0
      BY DivisionIsUnique
    <3> QED
      BY <1>2, <1>3, <3>1
  <2>2. (q * k + 0) \div k = q /\ (q * k + 0) % k = 0
    BY <1>1, DivisionIsUnique
  <2>3. t + p = q * k + 0
    BY <1>1, <1>3, <2>1
  <2>4. (t + p) \div k = q /\ (t + p) % k = 0
    BY <2>2, <2>3
  <2>5. \A m \in Nat : m < q => m * k < t
    <3> SUFFICES ASSUME NEW m \in Nat, m < q PROVE m * k < t
      OBVIOUS
    <3>1. (m + 1) * k <= q * k /\ (m + 1) * k = m * k + k /\ m * k \in Nat
      BY <1>1, TimesMonotone
    <3> QED
      BY <1>1, <1>3, <3>1
  <2>6. t > 0 => q # 0
    BY <1>1, <1>3
  <2> QED
    BY <1>1, <2>1, <2>4, <2>5, <2>6 DEF p
<1>4. CASE r # 0
  <2>1. p = k - r
    <3>1. k - r \in 0 .. (k - 1)
      BY <1>1, <1>4
    <3>2. (0 * k + (k - r)) % k = k - r
      BY <3>1, DivisionIsUnique
    <3>3. 0 * k + (k - r) = k - r
      BY <3>1
    <3> QED
      BY <1>2, <3>2, <3>3
  <2>2. ((q + 1) * k + 0) \div k = q + 1 /\ ((q + 1) * k + 0) % k = 0
    BY <1>1, DivisionIsUnique
  <2>3. t + p = (q + 1) * k + 0
    <3>1. (q + 1) * k = q * k + k
      BY <1>1
    <3> QED
      BY <1>1, <2>1, <3>1
  <2>4. (t + p) \div k = q + 1 /\ (t + p) % k = 0
    BY <2>2, <2>3
  <2>5. \A m \in Nat : m < q + 1 => m * k < t
    <3> SUFFICES ASSUME NEW m \in Nat, m < q + 1 PROVE m * k < t
      OBVIOUS
    <3>1. m * k <= q * k /\ m * k \in Nat
      BY <1>1, TimesMonotone
    <3> QED
      BY <1>1, <1>4, <3>1
  <2>6. p \in Nat
    BY <1>1, <2>1
  <2> QED
    BY <1>1, <2>4, <2>5, <2>6 DEF p
<1> QED
  BY <1>3, <1>4

LEMMA CutFirst ==
    ASSUME NEW S, NEW s \in Seq(S), NEW t \in Seq(S), NEW m \in Nat \ {0}, NEW n \in 0 .. Len(s)
    PROVE  SubSeq(s \o t, m, n) = SubSeq(s, m, n)
<1>1. /\ Len(s) \in Nat /\ Len(t) \in Nat
      /\ \A i \in m .. n : i \in 1 .. Len(s) /\ i \in 1 .. Len(s) + Len(t) /\ i <= Len(s)
  BY LenProperties
<1>2. \A i \in m .. n : (s \o t)[i] = s[i] /\ s[i] \in S
  BY <1>1, ConcatProperties, ElementOfSeq
<1> DEFINE a == SubSeq(s \o t, m, n)
           b == SubSeq(s, m, n)
<1>3. /\ m \in Int /\ n \in Int
      /\ \A i \in m .. n : (s \o t)[i] \in S
      /\ \A i \in m .. n : s[i] \in S
  BY <1>2
<1>4. /\ a \in Seq(S) /\ Len(a) = (IF m <= n THEN n - m + 1 ELSE 0)
      /\ \A i \in 1 .. (n - m + 1) : a[i] = (s \o t)[m + i - 1]
  BY <1>3, SubSeqProperties
<1>5. /\ b \in Seq(S) /\ Len(b) = (IF m <= n THEN n - m + 1 ELSE 0)
      /\ \A i \in 1 .. (n - m + 1) : b[i] = s[m + i - 1]
  BY <1>3, SubSeqProperties
<1> HIDE DEF a, b
<1>6. ASSUME NEW i \in 1 .. Len(a) PROVE a[i] = b[i]
  <2>1. i \in 1 .. (n - m + 1) /\ m + i - 1 \in m .. n
    BY <1>3, <1>4, <1>6
  <2> QED
    BY <1>2, <1>4, <1>5, <2>1
<1>7. a = b
  BY <1>4, <1>5, <1>6, SeqEqual
<1> QED
  BY <1>7 DEF a, b

LEMMA CutLast ==
    ASSUME NEW S, NEW s \in Seq(S), NEW t \in Seq(S)
    PROVE  SubSeq(s \o t, Len(s) + 1, Len(s) + Len(t)) = t
<1> DEFINE m == Len(s) + 1
           n == Len(s) + Len(t)
           a == SubSeq(s \o t, m, n)
<1>1. Len(s) \in Nat /\ Len(t) \in Nat
  BY LenProperties
<1>2. /\ m \in Int /\ n \in Int
      /\ \A i \in m .. n : i \in 1 .. Len(s) + Len(t) /\ ~ (i <= Len(s)) /\ i - Len(s) \in 1 .. Len(t)
  BY <1>1
<1>3. \A i \in m .. n : (s \o t)[i] = t[i - Len(s)] /\ t[i - Len(s)] \in S
  BY <1>2, ConcatProperties, ElementOfSeq
<1>4. /\ a \in Seq(S) /\ Len(a) = (IF m <= n THEN n - m + 1 ELSE 0)
      /\ \A i \in 1 .. (n - m + 1) : a[i] = (s \o t)[m + i - 1]
  BY <1>2, <1>3, SubSeqProperties
<1>5. Len(a) = Len(t)
  BY <1>1, <1>4
<1>6. ASSUME NEW i \in 1 .. Len(a) PROVE a[i] = t[i]
  <2>1. i \in 1 .. (n - m + 1) /\ m + i - 1 \in m .. n /\ (m + i - 1) - Len(s) = i
    BY <1>1, <1>5, <1>6
  <2> HIDE DEF a, m, n
  <2> QED
    BY <1>3, <1>4, <2>1
<1> HIDE DEF a
<1>7. a = t
  BY <1>4, <1>5, <1>6, SeqEqual
<1> QED
  BY <1>7 DEF a

\* Where the parts of a body begin, given their lengths.
Begins(start, lens) ==
    start = [i \in 1 .. 6 |-> IF i = 1 THEN 0 ELSE start[i - 1] + lens[i - 1]]

BeginAt(start, a, b, c, d, e) ==
    /\ start[1] = 0 /\ start[2] = a /\ start[3] = a + b /\ start[4] = a + b + c
    /\ start[5] = a + b + c + d /\ start[6] = a + b + c + d + e

LEMMA BeginsAt ==
    ASSUME NEW a \in Nat, NEW b \in Nat, NEW c \in Nat, NEW d \in Nat, NEW e \in Nat
    PROVE  BeginAt(CHOOSE s : Begins(s, <<a, b, c, d, e>>), a, b, c, d, e)
<1> DEFINE lens == <<a, b, c, d, e>>
           s == <<0, a, a + b, a + b + c, a + b + c + d, a + b + c + d + e>>
<1>1. /\ lens[1] = a /\ lens[2] = b /\ lens[3] = c /\ lens[4] = d /\ lens[5] = e
      /\ s[1] = 0 /\ s[2] = a /\ s[3] = a + b /\ s[4] = a + b + c /\ s[5] = a + b + c + d
      /\ s[6] = a + b + c + d + e
      /\ s = [i \in 1 .. 6 |-> s[i]]
  OBVIOUS
<1> HIDE DEF lens, s
<1>2. \A i \in 1 .. 6 : s[i] = IF i = 1 THEN 0 ELSE s[i - 1] + lens[i - 1]
  <2> SUFFICES ASSUME NEW i \in 1 .. 6 PROVE s[i] = IF i = 1 THEN 0 ELSE s[i - 1] + lens[i - 1]
    OBVIOUS
  <2>1. i = 1 \/ (i = 2 /\ i - 1 = 1) \/ (i = 3 /\ i - 1 = 2) \/ (i = 4 /\ i - 1 = 3)
        \/ (i = 5 /\ i - 1 = 4) \/ (i = 6 /\ i - 1 = 5)
    OBVIOUS
  <2> QED
    BY <1>1, <2>1
<1>3. Begins(s, lens)
  BY <1>1, <1>2 DEF Begins
<1> DEFINE t == CHOOSE x : Begins(x, lens)
<1>4. Begins(t, lens)
  BY <1>3
<1> HIDE DEF t
<1>5. \A i \in 1 .. 6 : t[i] = IF i = 1 THEN 0 ELSE t[i - 1] + lens[i - 1]
  BY <1>4 DEF Begins
<1>6. t[1] = 0
  BY <1>5
<1>7. t[2] = a
  <2>1. t[2] = t[1] + lens[1]
    BY <1>5
  <2> QED
    BY <1>1, <1>6, <2>1
<1>8. t[3] = a + b
  <2>1. t[3] = t[2] + lens[2]
    BY <1>5
  <2> QED
    BY <1>1, <1>7, <2>1
<1>9. t[4] = a + b + c
  <2>1. t[4] = t[3] + lens[3]
    BY <1>5
  <2> QED
    BY <1>1, <1>8, <2>1
<1>10. t[5] = a + b + c + d
  <2>1. t[5] = t[4] + lens[4]
    BY <1>5
  <2> QED
    BY <1>1, <1>9, <2>1
<1>11. t[6] = a + b + c + d + e
  <2>1. t[6] = t[5] + lens[5]
    BY <1>5
  <2> QED
    BY <1>1, <1>10, <2>1
<1> QED
  BY <1>6, <1>7, <1>8, <1>9, <1>10, <1>11 DEF t, lens, BeginAt

ItemFields(item) ==
    /\ item.original_len \in Nat /\ item.content \in Contents
    /\ item.name \in Seq(Chars) /\ item.media_type \in Seq(Chars)
    /\ item.attribution \in Seq(Chars) /\ item.frame \in Seq(Chars) /\ item.frame # <<>>
    /\ Len(item.name) \in Nat /\ Len(item.media_type) \in Nat
    /\ Len(item.attribution) \in Nat /\ Len(item.frame) \in Nat \ {0}
    /\ item = [original_len |-> item.original_len, content |-> item.content,
               name |-> item.name, media_type |-> item.media_type,
               attribution |-> item.attribution, frame |-> item.frame]

LEMMA ItemType == \A item \in Items : ItemFields(item)
<1> SUFFICES ASSUME NEW item \in Items PROVE ItemFields(item)
  OBVIOUS
<1>1. item \in [original_len : Nat, content : Contents, name : Seq(Chars),
                media_type : Seq(Chars), attribution : Seq(Chars),
                frame : Seq(Chars) \ {<<>>}]
  BY ConstantsAssumption
<1>2. /\ item.original_len \in Nat /\ item.content \in Contents
      /\ item.name \in Seq(Chars) /\ item.media_type \in Seq(Chars)
      /\ item.attribution \in Seq(Chars) /\ item.frame \in Seq(Chars) /\ item.frame # <<>>
  BY <1>1
<1>3. item = [original_len |-> item.original_len, content |-> item.content,
              name |-> item.name, media_type |-> item.media_type,
              attribution |-> item.attribution, frame |-> item.frame]
  BY <1>1
<1>4. /\ Len(item.name) \in Nat /\ Len(item.media_type) \in Nat
      /\ Len(item.attribution) \in Nat
  BY <1>2, LenProperties
<1>5. Len(item.frame) \in Nat \ {0}
  BY <1>2, EmptySeq
<1> QED
  BY <1>2, <1>3, <1>4, <1>5 DEF ItemFields

LEMMA TaggedType ==
    ASSUME NEW item, ItemFields(item)
    PROVE  TaggedLen(item) \in Nat /\ TaggedLen(item) > 0
<1>1. ENVELOPE_HEADER_LEN \in Nat /\ AEAD_TAG_LEN \in Nat /\ MAX_NAME_LEN \in Nat
  BY ConstantsAssumption
<1> DEFINE a == Len(item.name)
           b == Len(item.media_type)
           c == Len(item.attribution)
           d == Len(item.frame)
<1>2. a \in Nat /\ b \in Nat /\ c \in Nat /\ d \in Nat \ {0}
  BY Zenon DEF ItemFields
<1>3. TaggedLen(item) = ENVELOPE_HEADER_LEN + a + b + c + d + AEAD_TAG_LEN
  BY DEF TaggedLen
<1> HIDE DEF a, b, c, d
<1> QED
  BY <1>1, <1>2, <1>3

\* parse, applied to what serialize wrote, finds the parts again.
Body(item, n) ==
    item.name \o item.media_type \o item.attribution \o item.frame \o [i \in 1 .. n |-> "random"]

PartOf(body, from, to) == SubSeq(body, from + 1, to)

LEMMA PartsOfBody ==
    ASSUME NEW item, ItemFields(item), NEW n \in Nat
    PROVE  LET a == Len(item.name)
               b == Len(item.media_type)
               c == Len(item.attribution)
               d == Len(item.frame)
               body == Body(item, n)
           IN  /\ PartOf(body, 0, a) = item.name
               /\ PartOf(body, a, a + b) = item.media_type
               /\ PartOf(body, a + b, a + b + c) = item.attribution
               /\ PartOf(body, a + b + c, a + b + c + d) = item.frame
               /\ Len(body) = a + b + c + d + n
<1> DEFINE S == Chars \cup {"random"}
           x == item.name
           y == item.media_type
           z == item.attribution
           u == item.frame
           v == [i \in 1 .. n |-> "random"]
           xy == x \o y
           xyz == xy \o z
           xyzu == xyz \o u
           body == xyzu \o v
           a == Len(x)
           b == Len(y)
           c == Len(z)
           d == Len(u)
<1>1. x \in Seq(S) /\ y \in Seq(S) /\ z \in Seq(S) /\ u \in Seq(S)
  <2>1. Chars \subseteq S
    OBVIOUS
  <2> QED
    BY <2>1, SeqMonotonic DEF ItemFields
<1>2. v \in Seq(S) /\ Len(v) = n
  <2>1. v \in [1 .. n -> S] /\ DOMAIN v = 1 .. n
    OBVIOUS
  <2> HIDE DEF v, S
  <2>2. v \in Seq(S)
    BY <2>1
  <2> QED
    BY <2>1, <2>2
<1>3. a \in Nat /\ b \in Nat /\ c \in Nat /\ d \in Nat
  BY DEF ItemFields
<1>4. Body(item, n) = body
  BY DEF Body
<1> HIDE DEF S, x, y, z, u, v
<1>5. xy \in Seq(S) /\ Len(xy) = a + b
  <2>1. xy \in Seq(S) /\ Len(xy) = Len(x) + Len(y)
    BY <1>1, ConcatProperties
  <2> QED
    BY <2>1
<1> HIDE DEF xy
<1>6. xyz \in Seq(S) /\ Len(xyz) = a + b + c
  <2>1. xyz \in Seq(S) /\ Len(xyz) = Len(xy) + Len(z)
    BY <1>1, <1>5, ConcatProperties
  <2> QED
    BY <2>1, <1>5
<1> HIDE DEF xyz
<1>7. xyzu \in Seq(S) /\ Len(xyzu) = a + b + c + d
  <2>1. xyzu \in Seq(S) /\ Len(xyzu) = Len(xyz) + Len(u)
    BY <1>1, <1>6, ConcatProperties
  <2> QED
    BY <2>1, <1>6
<1> HIDE DEF xyzu
<1>8. body \in Seq(S) /\ Len(body) = a + b + c + d + n
  BY <1>2, <1>7, ConcatProperties
<1> HIDE DEF a, b, c, d
<1>9. SubSeq(body, a + b + c + 1, a + b + c + d) = u
  <2>1. a + b + c + 1 \in Nat \ {0} /\ a + b + c + d \in 0 .. Len(xyzu)
    BY <1>3, <1>7
  <2>2. SubSeq(body, a + b + c + 1, a + b + c + d) = SubSeq(xyzu, a + b + c + 1, a + b + c + d)
    BY <1>2, <1>7, <2>1, CutFirst
  <2>3. SubSeq(xyzu, Len(xyz) + 1, Len(xyz) + Len(u)) = u
    BY <1>1, <1>6, CutLast DEF xyzu
  <2> QED
    BY <1>6, <2>2, <2>3 DEF d
<1>10. SubSeq(body, a + b + 1, a + b + c) = z
  <2>1. a + b + 1 \in Nat \ {0} /\ a + b + c \in 0 .. Len(xyzu) /\ a + b + c \in 0 .. Len(xyz)
    BY <1>3, <1>6, <1>7
  <2>2. SubSeq(body, a + b + 1, a + b + c) = SubSeq(xyzu, a + b + 1, a + b + c)
    BY <1>2, <1>7, <2>1, CutFirst
  <2>3. SubSeq(xyzu, a + b + 1, a + b + c) = SubSeq(xyz, a + b + 1, a + b + c)
    BY <1>1, <1>6, <2>1, CutFirst DEF xyzu
  <2>4. SubSeq(xyz, Len(xy) + 1, Len(xy) + Len(z)) = z
    BY <1>1, <1>5, CutLast DEF xyz
  <2> QED
    BY <1>5, <2>2, <2>3, <2>4 DEF c
<1>11. SubSeq(body, a + 1, a + b) = y
  <2>1. a + 1 \in Nat \ {0} /\ a + b \in 0 .. Len(xyzu) /\ a + b \in 0 .. Len(xyz)
        /\ a + b \in 0 .. Len(xy)
    BY <1>3, <1>5, <1>6, <1>7
  <2>2. SubSeq(body, a + 1, a + b) = SubSeq(xyzu, a + 1, a + b)
    BY <1>2, <1>7, <2>1, CutFirst
  <2>3. SubSeq(xyzu, a + 1, a + b) = SubSeq(xyz, a + 1, a + b)
    BY <1>1, <1>6, <2>1, CutFirst DEF xyzu
  <2>4. SubSeq(xyz, a + 1, a + b) = SubSeq(xy, a + 1, a + b)
    BY <1>1, <1>5, <2>1, CutFirst DEF xyz
  <2>5. SubSeq(xy, Len(x) + 1, Len(x) + Len(y)) = y
    BY <1>1, CutLast DEF xy
  <2> QED
    BY <2>2, <2>3, <2>4, <2>5 DEF a, b
<1>12. SubSeq(body, 1, a) = x
  <2>1. 1 \in Nat \ {0} /\ a \in 0 .. Len(xyzu) /\ a \in 0 .. Len(xyz)
        /\ a \in 0 .. Len(xy) /\ a \in 0 .. Len(x)
    BY <1>3, <1>5, <1>6, <1>7 DEF a
  <2>2. SubSeq(body, 1, a) = SubSeq(xyzu, 1, a)
    BY <1>2, <1>7, <2>1, CutFirst
  <2>3. SubSeq(xyzu, 1, a) = SubSeq(xyz, 1, a)
    BY <1>1, <1>6, <2>1, CutFirst DEF xyzu
  <2>4. SubSeq(xyz, 1, a) = SubSeq(xy, 1, a)
    BY <1>1, <1>5, <2>1, CutFirst DEF xyz
  <2>5. SubSeq(xy, 1, a) = SubSeq(x, 1, a)
    BY <1>1, <2>1, CutFirst DEF xy
  <2>6. SubSeq(x, 1, a) = x
    BY <1>1, SubSeqFull DEF a
  <2> QED
    BY <2>2, <2>3, <2>4, <2>5, <2>6
<1> HIDE DEF body
<1>13. 0 + 1 = 1
  OBVIOUS
<1> QED
  BY <1>4, <1>8, <1>9, <1>10, <1>11, <1>12, <1>13 DEF PartOf, x, y, z, u, a, b, c, d

\* What is sealed is what is parsed.
LEMMA ParsedIsSealed ==
    ASSUME NEW item \in Items, MetadataOk(item), item.original_len <= MAX_ORIGINAL_LEN,
           Len(item.frame) <= MAX_COMPRESSED_LEN, NEW k \in Nat \ {0}
    PROVE  Parsed(Serialized(item, k), k) = {item}
<1> DEFINE e == Serialized(item, k)
           n == Padding(TaggedLen(item), k)
           a == Len(item.name)
           b == Len(item.media_type)
           c == Len(item.attribution)
           d == Len(item.frame)
           start == CHOOSE s : Begins(s, e.lens)
           Part(i) == PartOf(e.body, start[i], start[i + 1])
           read(content) ==
               [original_len |-> e.original_len, content |-> content, name |-> Part(1),
                media_type |-> Part(2), attribution |-> Part(3), frame |-> Part(4)]
<1>0. MAX_COMPRESSED_LEN \in Nat
  BY ConstantsAssumption
<1>1. ItemFields(item)
  BY ItemType
<1>2. a \in Nat /\ b \in Nat /\ c \in Nat /\ d \in Nat \ {0} /\ n \in Nat
  BY <1>1, TaggedType, PaddingFills DEF ItemFields
<1>3. /\ e.original_len = item.original_len /\ e.content_hash = item.content
      /\ e.lens = <<a, b, c, d, n>> /\ e.body = Body(item, n)
  BY DEF Serialized, Body
<1>4. /\ start[1] = 0 /\ start[2] = a /\ start[3] = a + b /\ start[4] = a + b + c
      /\ start[5] = a + b + c + d /\ start[6] = a + b + c + d + n
  <2>1. start = CHOOSE s : Begins(s, <<a, b, c, d, n>>)
    BY <1>3
  <2> HIDE DEF a, b, c, d, n, start
  <2>2. BeginAt(CHOOSE s : Begins(s, <<a, b, c, d, n>>), a, b, c, d, n)
    BY <1>2, BeginsAt
  <2>3. BeginAt(start, a, b, c, d, n)
    BY <2>1, <2>2
  <2> QED
    BY <2>3 DEF BeginAt
<1>5. Parsed(e, k) =
        {i \in {read(x) : x \in Decompressed(Part(4), e.original_len)} :
            /\ start[6] = Len(e.body)
            /\ e.original_len <= MAX_ORIGINAL_LEN
            /\ Len(i.frame) \in 1 .. MAX_COMPRESSED_LEN
            /\ MetadataOk(i)
            /\ e.lens[5] = Padding(TaggedLen(i), k)
            /\ i.content = e.content_hash}
  BY DEF Parsed, Begins, PartOf
<1> HIDE DEF start, e
<1>6. /\ Part(1) = item.name /\ Part(2) = item.media_type /\ Part(3) = item.attribution
      /\ Part(4) = item.frame /\ start[6] = Len(e.body)
  <2>1. /\ PartOf(e.body, 0, a) = item.name
        /\ PartOf(e.body, a, a + b) = item.media_type
        /\ PartOf(e.body, a + b, a + b + c) = item.attribution
        /\ PartOf(e.body, a + b + c, a + b + c + d) = item.frame
        /\ Len(e.body) = a + b + c + d + n
    BY <1>1, <1>2, <1>3, PartsOfBody
  <2>2. 1 + 1 = 2 /\ 2 + 1 = 3 /\ 3 + 1 = 4 /\ 4 + 1 = 5
    OBVIOUS
  <2> HIDE DEF a, b, c, d, n
  <2> QED
    BY <1>4, <2>1, <2>2
<1> HIDE DEF Part, n
<1>7. \A x : read(x) = item => x = item.content
  BY <1>1 DEF ItemFields
<1>8. \A x : x = item.content => read(x) = item
  BY <1>1, <1>3, <1>6 DEF ItemFields
<1>9. \A x : read(x).content = x /\ read(x).frame = item.frame
  BY <1>6
<1> HIDE DEF read
<1>10. item.content \in Decompressed(Part(4), e.original_len)
  <2>1. Len(item.frame) \in 1 .. MAX_COMPRESSED_LEN
    BY <1>0, <1>2
  <2>2. item.content \in decompress_static_frame(item.frame, item.original_len)
    BY DEF decompress_static_frame
  <2> QED
    BY <1>3, <1>6, <2>1, <2>2 DEF Decompressed
<1>11. item \in Parsed(e, k)
  <2>1. Len(item.frame) \in 1 .. MAX_COMPRESSED_LEN
    BY <1>0, <1>2
  <2>2. e.lens[5] = Padding(TaggedLen(item), k)
    <3>1. <<a, b, c, d, n>>[5] = n
      OBVIOUS
    <3> QED
      BY <1>3, <3>1 DEF n
  <2>3. item \in {read(x) : x \in Decompressed(Part(4), e.original_len)}
    BY <1>8, <1>10
  <2> QED
    BY <1>3, <1>5, <1>6, <2>1, <2>2, <2>3
<1>12. \A i \in Parsed(e, k) : i = item
  <2> SUFFICES ASSUME NEW i \in Parsed(e, k) PROVE i = item
    OBVIOUS
  <2>1. PICK x : i = read(x)
    BY <1>5
  <2>2. i.content = item.content
    BY <1>3, <1>5
  <2> QED
    BY <1>8, <1>9, <2>1, <2>2
<1> QED
  BY <1>11, <1>12 DEF e

-----------------------------------------------------------------------------
(* What prepare settles.                                                   *)

CoverType(png) ==
    /\ png.width \in Nat /\ png.height \in Nat
    /\ png.raster \in [1 .. Channels(png.width, png.height) -> 0 .. MaxChannel]

LEMMA CoverTyped == \A png \in Covers : CoverType(png)
BY ConstantsAssumption DEF CoverType, Channels

LEMMA DecodedCover ==
    ASSUME NEW png, DecodeError(png) = "Ok"
    PROVE  CapacityError(png.width, png.height) = "Ok"
BY DEF DecodeError

LEMMA NoCapacityYet == \A png : DecodeError(png) # "CapacityExceeded"
BY DEF DecodeError, CapacityError

Count(item, profile) == Prepared(item, profile).codeword_count

LEMMA CountFacts ==
    ASSUME NEW item \in Items, MetadataOk(item), NEW profile \in Profiles
    PROVE  LET t == TaggedLen(item)
               k == DataLen[profile]
           IN  /\ t \in Nat /\ k \in Nat \ {0}
               /\ Count(item, profile) \in Nat \ {0}
               /\ Prepared(item, profile).ciphertext_len % k = 0
               /\ \A m \in Nat : m < Count(item, profile) => m * k < t
<1> DEFINE t == TaggedLen(item)
           k == DataLen[profile]
           q == (t + Padding(t, k)) \div k
<1>1. t \in Nat /\ t > 0
  BY ItemType, TaggedType
<1>2. k \in Nat \ {0}
  BY Sizes
<1>3. Count(item, profile) = q /\ Prepared(item, profile).ciphertext_len = t + Padding(t, k)
  BY DEF Count, Prepared
<1> HIDE DEF t, k
<1>4. /\ q \in Nat /\ q # 0 /\ (t + Padding(t, k)) % k = 0
      /\ \A m \in Nat : m < q => m * k < t
  BY <1>1, <1>2, PaddingFills
<1> HIDE DEF q
<1>5. \A m \in Nat : m < Count(item, profile) => m * k < t
  BY <1>3, <1>4
<1> QED
  BY <1>1, <1>2, <1>3, <1>4, <1>5 DEF t, k

\* What is settled fits.
LEMMA PreparedFits ==
    ASSUME NEW item \in Items, MetadataOk(item), NEW profile \in Profiles, NEW cover,
           PrepareError(item, profile, cover) = "Ok"
    PROVE  /\ Len(item.frame) <= MAX_COMPRESSED_LEN
           /\ Count(item, profile) \in Nat \ {0}
           /\ ~ (Count(item, profile) > max_codewords(cover.width, cover.height))
<1>1. Count(item, profile) \in Nat \ {0}
  BY CountFacts
<1>2. /\ ~ (Len(item.frame) > MAX_COMPRESSED_LEN)
      /\ ~ (Count(item, profile) > max_codewords(cover.width, cover.height))
  BY Zenon DEF PrepareError, Count
<1>3. Len(item.frame) \in Nat /\ MAX_COMPRESSED_LEN \in Nat
  BY ItemType, ConstantsAssumption DEF ItemFields
<1>4. Len(item.frame) <= MAX_COMPRESSED_LEN
  BY <1>2, <1>3
<1> QED
  BY <1>1, <1>2, <1>4

\* What is refused for its size does not fit.
LEMMA RefusedIsTooLarge ==
    ASSUME NEW item \in Items, MetadataOk(item), NEW profile \in Profiles,
           NEW cover, CoverType(cover), CapacityError(cover.width, cover.height) = "Ok",
           PrepareError(item, profile, cover) = "CapacityExceeded"
    PROVE  TaggedLen(item) > max_codewords(cover.width, cover.height) * DataLen[profile]
<1> DEFINE m == max_codewords(cover.width, cover.height)
           n == Count(item, profile)
           t == TaggedLen(item)
           k == DataLen[profile]
<1>1. t \in Nat /\ k \in Nat \ {0} /\ n \in Nat \ {0} /\ \A x \in Nat : x < n => x * k < t
  BY CountFacts
<1>2. m \in Nat /\ m <= MAX_CODEWORDS
  BY Room DEF CoverType, HasRoom
<1>3. n \notin 1 .. MAX_CODEWORDS \/ n > m
  BY DEF PrepareError, Count
<1>4. MAX_CODEWORDS \in Nat
  BY ConstantsAssumption
<1> HIDE DEF m, n, t, k
<1>5. m < n
  BY <1>1, <1>2, <1>3, <1>4
<1>6. m * k < t
  BY <1>1, <1>2, <1>5
<1>7. m * k \in Nat
  BY <1>1, <1>2
<1>8. t > m * k
  BY <1>1, <1>6, <1>7
<1> QED
  BY <1>8 DEF m, t, k

-----------------------------------------------------------------------------
(* The invariant.                                                          *)

\* What sealing has established when it reaches each step.
Sealing ==
    step \in {"inputs", "cover", "prepare", "key", "seal_image"} =>
        /\ call.op = "seal" /\ call.item \in Items /\ call.profile \in Profiles
        /\ call.key \in Keys /\ call.cover \in Covers
        /\ step # "inputs" =>
              /\ call.key.valid /\ call.item.original_len <= MAX_ORIGINAL_LEN
              /\ MetadataOk(call.item)
        /\ step \in {"prepare", "key", "seal_image"} => DecodeError(call.cover) = "Ok"
        /\ step \in {"inputs", "cover", "prepare"} => plan = None
        /\ step \in {"key", "seal_image"} =>
              /\ PrepareError(call.item, call.profile, call.cover) = "Ok"
              /\ plan = Prepared(call.item, call.profile)

\* What opening needs.
Opening ==
    step \in {"bootstrap", "capacity", "derive", "recover", "corrupt"} =>
        /\ capsule # None
        /\ call = [op |-> call.op, key |-> call.key]
        /\ call.op \in {"open", "open_cached", "fixture"}
        /\ step = "corrupt" => call.op = "fixture"

\* What was sealed, and in what.
IsSealed(c) ==
    /\ c.item \in Items /\ MetadataOk(c.item) /\ c.item.original_len <= MAX_ORIGINAL_LEN
    /\ Len(c.item.frame) <= MAX_COMPRESSED_LEN
    /\ c.profile \in Profiles
    /\ c.envelope = Serialized(c.item, DataLen[c.profile])
    /\ c.key \in Keys /\ c.key.valid
    /\ CoverType(c.cover) /\ CapacityError(c.cover.width, c.cover.height) = "Ok"
    /\ Count(c.item, c.profile) \in Nat \ {0}
    /\ Count(c.item, c.profile) <= max_codewords(c.cover.width, c.cover.height)
    /\ c.codewords \in [1 .. Count(c.item, c.profile) -> Patterns]
    /\ c.boot \in Boots
    /\ Holds(c.raster, c.key, c.cover.width, c.cover.height, Count(c.item, c.profile),
             c.codewords, c.boot)

\* The picture in hand is one decode_png can read, whatever was changed in it.
IsPicture(png) ==
    /\ png.width \in Nat /\ png.height \in Nat
    /\ png.raster \in [1 .. Channels(png.width, png.height) -> Nat]
    /\ png = Picture(png.width, png.height, png.raster)

Kept == capsule # None => IsSealed(capsule) /\ IsPicture(image)

IInv == Sealing /\ Opening /\ Kept /\ Survives /\ SealFits

LEMMA InitInv == Init => IInv
BY DEF Init, IInv, Sealing, Opening, Kept, Survives, SealFits, Returned

\* The capsule and the picture are as they were.
Untouched == UNCHANGED <<capsule, image>>

LEMMA KeptUntouched == ASSUME Kept, Untouched PROVE Kept'
BY DEF Kept, Untouched

\* On the way, nothing has been returned.
LEMMA OnTheWay ==
    ASSUME step' # "idle"
    PROVE  Survives' /\ SealFits'
BY DEF Survives, SealFits, Returned

\* No capsule has been disturbed more than it can bear.
Bearable ==
    /\ SameShape /\ call.key = capsule.key
    /\ Disturbed \cap 1 .. BOOTSTRAP_CHANNELS = {}
    /\ Cardinality(Disturbed) <= correction_budget(capsule.profile)

SealAnswer(r) ==
    /\ r = "CapacityExceeded" =>
          TaggedLen(call.item) >
              max_codewords(call.cover.width, call.cover.height) * DataLen[call.profile]
    /\ plan # None => r \in {"Ok", "RandomFailed", "KdfFailed", "PngEncodeFailed"}

OpenAnswer(r, item) ==
    /\ r = "Ok" =>
          /\ item = capsule.item
          /\ call.key.passphrase = capsule.key.passphrase
          /\ SameShape
    /\ Bearable => r \in {"Ok", "KdfFailed"}

\* A call that returns leaves the invariant when its answer is right.
LEMMA ReturnInv ==
    ASSUME IInv, NEW r, Return(r), UNCHANGED <<call, plan>>, Untouched,
           call.op = "seal" => SealAnswer(r),
           call.op \in {"open", "open_cached"} => OpenAnswer(r, opened')
    PROVE  IInv'
<1>1. step' = "idle" /\ result' = r
  BY DEF Return
<1>2. Sealing' /\ Opening'
  BY <1>1 DEF Sealing, Opening
<1>3. Kept'
  BY KeptUntouched DEF IInv
<1>4. Survives'
  <2>1. SameShape' <=> SameShape
    BY DEF SameShape, Untouched
  <2>2. Disturbed' = Disturbed
    BY DEF Disturbed, Untouched
  <2> QED
    BY <1>1, <2>1, <2>2 DEF Survives, Returned, OpenAnswer, Bearable, Untouched
<1>5. SealFits'
  BY <1>1 DEF SealFits, Returned, SealAnswer
<1> QED
  BY <1>2, <1>3, <1>4, <1>5 DEF IInv

LEMMA RefuseInv ==
    ASSUME IInv, NEW r, Refuse(r), call.op = "seal" => SealAnswer(r),
           call.op \in {"open", "open_cached"} => OpenAnswer(r, opened)
    PROVE  IInv'
<1>1. Return(r) /\ UNCHANGED <<call, plan>> /\ Untouched /\ opened' = opened
  BY DEF Refuse, Untouched
<1> QED
  BY <1>1, ReturnInv

-----------------------------------------------------------------------------
(* Sealing.                                                                *)

LEMMA BeginSealInv == ASSUME IInv, BeginSeal PROVE IInv'
<1>1. /\ step' = "inputs" /\ plan' = None /\ capsule = None /\ capsule' = None
  BY DEF BeginSeal
<1>2. PICK item \in Items, profile \in Profiles, key \in Keys, cover \in Covers :
         call' = [op |-> "seal", item |-> item, profile |-> profile, key |-> key,
                  cover |-> cover]
  BY DEF BeginSeal
<1>3. /\ call'.op = "seal" /\ call'.item \in Items /\ call'.profile \in Profiles
      /\ call'.key \in Keys /\ call'.cover \in Covers
  BY <1>2
<1>4. Sealing' /\ Opening' /\ Kept'
  BY <1>1, <1>3 DEF Sealing, Opening, Kept
<1> QED
  BY <1>1, <1>4, OnTheWay DEF IInv

LEMMA ValidateInputsInv == ASSUME IInv, ValidateInputs PROVE IInv'
<1>1. /\ step = "inputs" /\ call.op = "seal" /\ plan = None
      /\ call.item \in Items /\ call.profile \in Profiles
      /\ call.key \in Keys /\ call.cover \in Covers
  BY DEF ValidateInputs, IInv, Sealing
<1>2. ASSUME NEW r \in {"InvalidPassphraseLength", "ContentTooLarge", "InvalidMetadata"},
             Refuse(r)
      PROVE  IInv'
  <2>1. SealAnswer(r) /\ call.op \notin {"open", "open_cached"}
    BY <1>1 DEF SealAnswer
  <2> QED
    BY <1>2, <2>1, RefuseInv
<1>3. CASE /\ call.key.valid /\ call.item.original_len <= MAX_ORIGINAL_LEN
           /\ MetadataOk(call.item) /\ Proceed("cover")
           /\ UNCHANGED <<derived, call, plan, image, capsule, edits, opened>>
  <2>1. step' = "cover" /\ UNCHANGED <<call, plan>> /\ Untouched
    BY <1>3 DEF Proceed, Untouched
  <2>2. Sealing' /\ Opening'
    BY <1>1, <1>3, <2>1 DEF Sealing, Opening
  <2> QED
    BY <2>1, <2>2, KeptUntouched, OnTheWay DEF IInv
<1> QED
  BY <1>2, <1>3 DEF ValidateInputs

LEMMA DecodeCoverInv == ASSUME IInv, DecodeCover PROVE IInv'
<1>1. /\ step = "cover" /\ call.op = "seal" /\ plan = None
      /\ call.item \in Items /\ call.profile \in Profiles
      /\ call.key \in Keys /\ call.cover \in Covers
      /\ call.key.valid /\ call.item.original_len <= MAX_ORIGINAL_LEN
      /\ MetadataOk(call.item)
  BY DEF DecodeCover, IInv, Sealing
<1>2. CASE Refuse(DecodeError(call.cover))
  <2>1. SealAnswer(DecodeError(call.cover)) /\ call.op \notin {"open", "open_cached"}
    BY <1>1, NoCapacityYet DEF SealAnswer
  <2> QED
    BY <1>2, <2>1, RefuseInv
<1>3. CASE /\ DecodeError(call.cover) = "Ok" /\ Proceed("prepare")
           /\ UNCHANGED <<derived, call, plan, image, capsule, edits, opened>>
  <2>1. step' = "prepare" /\ UNCHANGED <<call, plan>> /\ Untouched
    BY <1>3 DEF Proceed, Untouched
  <2>2. DecodeError(call.cover)' = DecodeError(call.cover)
    BY <2>1
  <2>3. Sealing' /\ Opening'
    BY <1>1, <1>3, <2>1, <2>2 DEF Sealing, Opening
  <2> QED
    BY <2>1, <2>3, KeptUntouched, OnTheWay DEF IInv
<1> QED
  BY <1>2, <1>3 DEF DecodeCover

\* What a call that has its cover is known to be.
Typed ==
    /\ call.op = "seal" /\ call.item \in Items /\ call.profile \in Profiles
    /\ call.key \in Keys /\ call.cover \in Covers
    /\ call.key.valid /\ call.item.original_len <= MAX_ORIGINAL_LEN
    /\ MetadataOk(call.item) /\ DecodeError(call.cover) = "Ok"

LEMMA PrepareInv == ASSUME IInv, Prepare PROVE IInv'
<1> DEFINE e == PrepareError(call.item, call.profile, call.cover)
<1>1. step = "prepare" /\ Typed /\ plan = None
  BY DEF Prepare, IInv, Sealing, Typed
<1>2. CASE Refuse("CompressionFailed")
  <2>1. SealAnswer("CompressionFailed") /\ call.op \notin {"open", "open_cached"}
    BY <1>1 DEF SealAnswer, Typed
  <2> QED
    BY <1>2, <2>1, RefuseInv
<1>3. CASE e # "Ok" /\ Refuse(e)
  <2>1. SealAnswer(e)
    <3>1. CoverType(call.cover) /\ CapacityError(call.cover.width, call.cover.height) = "Ok"
      BY <1>1, CoverTyped, DecodedCover DEF Typed
    <3>2. e = "CapacityExceeded" =>
            TaggedLen(call.item) >
              max_codewords(call.cover.width, call.cover.height) * DataLen[call.profile]
      BY <1>1, <3>1, RefusedIsTooLarge DEF Typed
    <3> HIDE DEF e
    <3> QED
      BY <1>1, <3>2 DEF SealAnswer
  <2> QED
    BY <1>1, <1>3, <2>1, RefuseInv DEF Typed
<1>4. CASE /\ e = "Ok" /\ plan' = Prepared(call.item, call.profile) /\ Proceed("key")
           /\ UNCHANGED <<derived, call, image, capsule, edits, opened>>
  <2>1. step' = "key" /\ call' = call /\ Untouched
    BY <1>4 DEF Proceed, Untouched
  <2>2. plan' = Prepared(call'.item, call'.profile)
        /\ PrepareError(call'.item, call'.profile, call'.cover) = "Ok"
        /\ DecodeError(call'.cover) = "Ok"
    BY <1>1, <1>4, <2>1 DEF Typed
  <2>3. Sealing' /\ Opening'
    BY <1>1, <2>1, <2>2 DEF Sealing, Opening, Typed
  <2> QED
    BY <2>1, <2>3, KeptUntouched, OnTheWay DEF IInv
<1> QED
  BY <1>2, <1>3, <1>4 DEF Prepare

LEMMA DrawKeyAndIdInv == ASSUME IInv, DrawKeyAndId PROVE IInv'
<1>1. /\ step = "key" /\ Typed
      /\ PrepareError(call.item, call.profile, call.cover) = "Ok"
      /\ plan = Prepared(call.item, call.profile)
  BY DEF DrawKeyAndId, IInv, Sealing, Typed
<1>2. ASSUME NEW r \in {"RandomFailed", "KdfFailed"}, Refuse(r) PROVE IInv'
  <2>1. SealAnswer(r) /\ call.op \notin {"open", "open_cached"}
    BY <1>1 DEF SealAnswer, Typed
  <2> QED
    BY <1>2, <2>1, RefuseInv
<1>3. CASE /\ Proceed("seal_image")
           /\ UNCHANGED <<call, plan, image, capsule, edits, opened>>
  <2>1. step' = "seal_image" /\ UNCHANGED <<call, plan>> /\ Untouched
    BY <1>3 DEF Proceed, Untouched
  <2>2. plan' = Prepared(call'.item, call'.profile)
        /\ PrepareError(call'.item, call'.profile, call'.cover) = "Ok"
        /\ DecodeError(call'.cover) = "Ok"
    BY <1>1, <2>1 DEF Typed
  <2>3. Sealing' /\ Opening'
    BY <1>1, <2>1, <2>2 DEF Sealing, Opening, Typed
  <2> QED
    BY <2>1, <2>3, KeptUntouched, OnTheWay DEF IInv
<1> QED
  BY <1>2, <1>3 DEF DrawKeyAndId

LEMMA PictureDims ==
    ASSUME NEW w \in Nat, NEW h \in Nat, NEW raster \in [1 .. Channels(w, h) -> Nat]
    PROVE  IsPicture(Picture(w, h, raster))
BY DEF IsPicture, Picture

LEMMA SealImageInv == ASSUME IInv, SealImage PROVE IInv'
<1> DEFINE bits == plan.codeword_count * bits_per_codeword
           w == call.cover.width
           h == call.cover.height
           room == usable_bits(w, h)
           count == Count(call.item, call.profile)
<1>1. /\ step = "seal_image" /\ Typed
      /\ PrepareError(call.item, call.profile, call.cover) = "Ok"
      /\ plan = Prepared(call.item, call.profile)
  BY DEF SealImage, IInv, Sealing, Typed
<1>2. CoverType(call.cover) /\ CapacityError(w, h) = "Ok"
  BY <1>1, CoverTyped, DecodedCover DEF Typed
<1>3. /\ Len(call.item.frame) <= MAX_COMPRESSED_LEN /\ count \in Nat \ {0}
      /\ ~ (count > max_codewords(w, h)) /\ plan.codeword_count = count
  BY <1>1, PreparedFits DEF Typed, Count
<1>4. HasRoom(w, h)
  BY <1>2, Room DEF CoverType
<1>5. count <= max_codewords(w, h)
  BY <1>3, <1>4 DEF HasRoom
<1>6. ~ (bits > room)
  <2>1. count * bits_per_codeword <= room /\ room \in Nat
    BY <1>3, <1>4, <1>5 DEF HasRoom
  <2>2. count * bits_per_codeword \in Nat
    BY <1>3, Sizes
  <2> HIDE DEF room
  <2> QED
    BY <1>3, <2>1, <2>2
<1>7. CASE Refuse(IF bits > room THEN "CapacityExceeded" ELSE "PngEncodeFailed")
  <2>1. Refuse("PngEncodeFailed")
    BY <1>6, <1>7
  <2>2. SealAnswer("PngEncodeFailed") /\ call.op \notin {"open", "open_cached"}
    BY <1>1 DEF SealAnswer, Typed
  <2> QED
    BY <2>1, <2>2, RefuseInv
<1>8. CASE \E codewords \in [1 .. plan.codeword_count -> Patterns], boot \in Boots :
              LET raster == Sealed(codewords, boot)
              IN  /\ image' = Picture(call.cover.width, call.cover.height, raster)
                  /\ capsule' = [item |-> call.item, profile |-> call.profile,
                                 envelope |-> Serialized(call.item, DataLen[call.profile]),
                                 key |-> call.key, cover |-> call.cover,
                                 codewords |-> codewords, boot |-> boot,
                                 raster |-> raster]
                  /\ Return("Ok") /\ UNCHANGED <<derived, call, plan, edits, opened>>
  <2>1. PICK codewords \in [1 .. count -> Patterns], boot \in Boots :
           /\ image' = Picture(w, h, Sealed(codewords, boot))
           /\ capsule' = [item |-> call.item, profile |-> call.profile,
                          envelope |-> Serialized(call.item, DataLen[call.profile]),
                          key |-> call.key, cover |-> call.cover,
                          codewords |-> codewords, boot |-> boot,
                          raster |-> Sealed(codewords, boot)]
           /\ Return("Ok") /\ UNCHANGED <<derived, call, plan, edits, opened>>
    BY <1>3, <1>8
  <2> DEFINE raster == Sealed(codewords, boot)
  <2>2. Holds(raster, call.key, w, h, count, codewords, boot)
    <3>1. call.cover.raster \in [1 .. Channels(w, h) -> 0 .. MaxChannel]
          /\ w \in Nat /\ h \in Nat /\ call.key \in Keys
      BY <1>1, <1>2 DEF CoverType, Typed
    <3> QED
      BY <1>2, <1>3, <1>5, <3>1, SealedHolds
  <2> HIDE DEF raster
  <2>3. IsPicture(image')
    <3>1. raster \in [1 .. Channels(w, h) -> Nat] /\ w \in Nat /\ h \in Nat
      <4>1. MaxChannel \in Nat
        BY ConstantsAssumption
      <4>2. 0 .. MaxChannel \subseteq Nat
        BY <4>1
      <4> QED
        BY <1>2, <2>2, <4>2 DEF Holds, CoverType
    <3> QED
      BY <2>1, <3>1, PictureDims DEF raster
  <2>4. /\ capsule'.item = call.item /\ capsule'.profile = call.profile
        /\ capsule'.envelope = Serialized(call.item, DataLen[call.profile])
        /\ capsule'.key = call.key /\ capsule'.cover = call.cover
        /\ capsule'.codewords = codewords /\ capsule'.boot = boot /\ capsule'.raster = raster
    BY <2>1 DEF raster
  <2>5. IsSealed(capsule')
    BY <1>1, <1>2, <1>3, <1>5, <2>2, <2>4 DEF IsSealed, Typed
  <2>6. step' = "idle" /\ result' = "Ok" /\ call' = call /\ plan' = plan
    BY <2>1 DEF Return
  <2>7. Sealing' /\ Opening' /\ Kept'
    BY <2>3, <2>5, <2>6 DEF Sealing, Opening, Kept
  <2>8. Survives' /\ SealFits'
    BY <1>1, <2>6 DEF Survives, SealFits, Returned, Typed
  <2> QED
    BY <2>7, <2>8 DEF IInv
<1> QED
  BY <1>7, <1>8 DEF SealImage

-----------------------------------------------------------------------------
(* Editing.                                                                *)

LEMMA EditedInv == ASSUME IInv, NEW png, Edited(png), IsPicture(png) PROVE IInv'
<1>1. /\ step' = "idle" /\ call' = None /\ image' = png
      /\ capsule # None /\ capsule' = capsule
  BY DEF Edited
<1>2. Sealing' /\ Opening'
  BY <1>1 DEF Sealing, Opening
<1>3. Kept'
  BY <1>1 DEF IInv, Kept
<1>4. Survives' /\ SealFits'
  BY <1>1 DEF Survives, SealFits, Returned
<1> QED
  BY <1>2, <1>3, <1>4 DEF IInv

PictureOf(a, b, c, w, h, chunks, d, raster) ==
    [oversized |-> a, signed |-> b, rgb8 |-> c, width |-> w, height |-> h,
     chunks |-> chunks, decodes |-> d, raster |-> raster]

LEMMA RasterOfPicture ==
    ASSUME NEW a, NEW b, NEW c, NEW w, NEW h, NEW chunks, NEW d, NEW s, NEW r
    PROVE  [PictureOf(a, b, c, w, h, chunks, d, s) EXCEPT !.raster = r]
           = PictureOf(a, b, c, w, h, chunks, d, r)
BY DEF PictureOf

LEMMA NewRaster ==
    ASSUME NEW w, NEW h, NEW s, NEW r
    PROVE  /\ [Picture(w, h, s) EXCEPT !.raster = r] = Picture(w, h, r)
           /\ Picture(w, h, r).width = w /\ Picture(w, h, r).height = h
           /\ Picture(w, h, r).raster = r
<1>1. PICK t, f, chunks : \A x : Picture(w, h, x) = PictureOf(f, t, t, w, h, chunks, t, x)
  <2>1. \A x : Picture(w, h, x)
                 = PictureOf(FALSE, TRUE, TRUE, w, h, <<"IDAT", "IEND">>, TRUE, x)
    BY DEF Picture, PictureOf
  <2> QED
    BY <2>1, Zenon
<1>2. /\ Picture(w, h, r).width = w /\ Picture(w, h, r).height = h
      /\ Picture(w, h, r).raster = r
  BY DEF Picture
<1> QED
  BY <1>1, <1>2, RasterOfPicture

LEMMA EditChannelInv == ASSUME IInv, NEW c, EditChannel(c) PROVE IInv'
<1> DEFINE w == image.width
           h == image.height
           r == [image.raster EXCEPT ![c] = Flip(@)]
           png == [image EXCEPT !.raster[c] = Flip(@)]
<1>1. c \in DOMAIN image.raster /\ Edited(png) /\ IsPicture(image)
  BY DEF EditChannel, Edited, IInv, Kept
<1>2. w \in Nat /\ h \in Nat /\ image.raster \in [1 .. Channels(w, h) -> Nat]
      /\ image = Picture(w, h, image.raster)
  BY <1>1 DEF IsPicture
<1>3. r \in [1 .. Channels(w, h) -> Nat]
  BY <1>1, <1>2, FlipParity
<1>4. png = Picture(w, h, r)
  <2>1. png = [image EXCEPT !.raster = r]
    OBVIOUS
  <2> HIDE DEF w, h, r, png
  <2>2. [image EXCEPT !.raster = r] = [Picture(w, h, image.raster) EXCEPT !.raster = r]
    BY <1>2
  <2> QED
    BY <2>1, <2>2, NewRaster
<1>5. IsPicture(png)
  <2> HIDE DEF r, w, h, png
  <2> QED
    BY <1>2, <1>3, <1>4, PictureDims
<1> QED
  BY <1>1, <1>5, EditedInv

LEMMA CropInv == ASSUME IInv, Crop PROVE IInv'
<1> DEFINE w == image.width
           h == image.height
           s == image.raster
           m == Channels(w, h - 1)
           n == Channels(w, h)
           r == SubSeq(s, 1, m)
<1>1. h > 1 /\ Edited(Picture(w, h - 1, r)) /\ IsPicture(image)
  BY DEF Crop, Edited, IInv, Kept
<1>2. w \in Nat /\ h \in Nat /\ s \in [1 .. n -> Nat]
  BY <1>1 DEF IsPicture
<1>3. h - 1 \in Nat
  BY <1>1, <1>2
<1>4. m \in Nat /\ n \in Nat /\ m <= n
  <2> DEFINE x == 3 * w
  <2>1. x \in Nat /\ m = x * (h - 1) /\ n = x * h
    BY <1>2 DEF Channels
  <2> HIDE DEF x, h, m, n
  <2>2. (h - 1) * x <= h * x /\ (h - 1) * x \in Nat /\ h * x \in Nat
    BY <1>2, <1>3, <2>1, TimesMonotone
  <2> QED
    BY <1>2, <1>3, <2>1, <2>2
<1>5. r \in [1 .. m -> Nat]
  <2> HIDE DEF m, n, s
  <2>1. s \in Seq(Nat) /\ Len(s) = n
    BY <1>2, <1>4
  <2>2. r = [i \in 1 .. m |-> s[i]]
    BY <1>4, <2>1
  <2>3. \A i \in 1 .. m : s[i] \in Nat
    BY <1>2, <1>4
  <2> QED
    BY <2>2, <2>3
<1>6. IsPicture(Picture(w, h - 1, r))
  <2> HIDE DEF r, w, h
  <2> QED
    BY <1>2, <1>3, <1>5, PictureDims
<1> QED
  BY <1>1, <1>6, EditedInv

LEMMA ReshapeInv == ASSUME IInv, Reshape PROVE IInv'
<1> DEFINE w == image.width
           h == image.height
<1>1. Edited(Picture(h, w, image.raster)) /\ IsPicture(image)
  BY DEF Reshape, Edited, IInv, Kept
<1>2. w \in Nat /\ h \in Nat /\ image.raster \in [1 .. Channels(w, h) -> Nat]
  BY <1>1 DEF IsPicture
<1>3. Channels(w, h) = Channels(h, w)
  BY <1>2 DEF Channels
<1>4. IsPicture(Picture(h, w, image.raster))
  <2> HIDE DEF w, h
  <2> QED
    BY <1>2, <1>3, PictureDims
<1> QED
  BY <1>1, <1>4, EditedInv

LEMMA EditInv == ASSUME IInv, EditPicture PROVE IInv'
BY EditChannelInv, CropInv, ReshapeInv DEF EditPicture

-----------------------------------------------------------------------------
(* Opening.                                                                *)

\* A step on the way, which leaves the capsule and the picture alone.
LEMMA OpensOn ==
    ASSUME IInv, step' \in {"bootstrap", "capacity", "derive", "recover", "corrupt"},
           Untouched, capsule # None, call' = [op |-> call'.op, key |-> call'.key],
           call'.op \in {"open", "open_cached", "fixture"},
           step' = "corrupt" => call'.op = "fixture"
    PROVE  IInv'
<1>1. Sealing'
  BY DEF Sealing
<1>2. Opening'
  BY DEF Opening, Untouched
<1>3. step' # "idle"
  OBVIOUS
<1> QED
  BY <1>1, <1>2, <1>3, KeptUntouched, OnTheWay DEF IInv

LEMMA BeginOpenInv == ASSUME IInv, BeginOpen PROVE IInv'
<1>1. PICK key \in Keys, op \in {"open", "open_cached", "fixture"} :
         call' = [op |-> op, key |-> key]
  BY DEF BeginOpen
<1>2. step' = "bootstrap" /\ Untouched /\ capsule # None
  BY DEF BeginOpen, Untouched
<1>3. call' = [op |-> call'.op, key |-> call'.key]
      /\ call'.op \in {"open", "open_cached", "fixture"}
  BY <1>1
<1> QED
  BY <1>2, <1>3, OpensOn

\* What is known of the capsule and the picture while it is being opened.
LEMMA SealedFacts ==
    ASSUME Kept, capsule # None
    PROVE  LET count == Count(capsule.item, capsule.profile)
               w == capsule.cover.width
               h == capsule.cover.height
           IN  /\ IsSealed(capsule) /\ IsPicture(image)
               /\ w \in Nat /\ h \in Nat /\ CapacityError(w, h) = "Ok" /\ HasRoom(w, h)
               /\ count \in Nat \ {0} /\ count <= max_codewords(w, h)
               /\ capsule.codewords \in [1 .. count -> Patterns]
               /\ Len(capsule.codewords) = count
               /\ Spread(Where(capsule.key, w, h, count), w, h, count)
               /\ Holds(capsule.raster, capsule.key, w, h, count, capsule.codewords,
                        capsule.boot)
<1> DEFINE count == Count(capsule.item, capsule.profile)
           w == capsule.cover.width
           h == capsule.cover.height
<1>1. IsSealed(capsule) /\ IsPicture(image)
  BY DEF Kept
<1>2. /\ w \in Nat /\ h \in Nat /\ CapacityError(w, h) = "Ok" /\ capsule.key \in Keys
      /\ count \in Nat \ {0} /\ count <= max_codewords(w, h)
      /\ capsule.codewords \in [1 .. count -> Patterns]
      /\ Holds(capsule.raster, capsule.key, w, h, count, capsule.codewords, capsule.boot)
  BY <1>1 DEF IsSealed, CoverType
<1> HIDE DEF count, w, h
<1>3. HasRoom(w, h)
  BY <1>2, Room
<1>4. Len(capsule.codewords) = count
  <2>1. capsule.codewords \in Seq(Patterns) /\ DOMAIN capsule.codewords = 1 .. count
    BY <1>2
  <2> QED
    BY <1>2, <2>1
<1>5. Spread(Where(capsule.key, w, h, count), w, h, count)
  BY <1>2, WhereIsSpread
<1> QED
  BY <1>1, <1>2, <1>3, <1>4, <1>5 DEF count, w, h

LEMMA SavedChunks == ChunksOk(<<"IDAT", "IEND">>)
<1> DEFINE s == <<"IDAT", "IEND">>
<1>1. Len(s) = 2 /\ s[1] = "IDAT" /\ s[2] = "IEND" /\ DOMAIN s = 1 .. 2
  OBVIOUS
<1> HIDE DEF s
<1>2. 2 \in DOMAIN s /\ 1 .. (2 - 1) = {1}
  BY <1>1
<1>3. ChunksOk(s)
  BY <1>1, <1>2 DEF ChunksOk
<1> QED
  BY <1>3 DEF s

\* A picture of the capsule's shape whose bootstrap is intact is read.
LEMMA BearableReads ==
    ASSUME Kept, capsule # None, Bearable
    PROVE  DecodeError(image) = "Ok" /\ extract_bootstrap(image.raster) = capsule.boot
<1> DEFINE w == image.width
           h == image.height
<1>1. w = capsule.cover.width /\ h = capsule.cover.height
  BY DEF Bearable, SameShape
<1>2. IsPicture(image) /\ CapacityError(w, h) = "Ok" /\ HasRoom(w, h) /\ IsSealed(capsule)
  BY <1>1, SealedFacts
<1>3. image = Picture(w, h, image.raster) /\ image.raster \in [1 .. Channels(w, h) -> Nat]
  BY <1>2 DEF IsPicture
<1>4. DecodeError(image) = "Ok"
  <2>1. /\ image.oversized = FALSE /\ image.signed = TRUE /\ image.rgb8 = TRUE
        /\ image.chunks = <<"IDAT", "IEND">> /\ image.decodes = TRUE
    <3> HIDE DEF w, h
    <3> QED
      BY <1>3 DEF Picture
  <2> QED
    BY <1>2, <2>1, SavedChunks DEF DecodeError
<1>5. \A c \in 1 .. BOOTSTRAP_CHANNELS :
         Parity(image.raster[c]) = Parity(capsule.raster[c])
  <2> SUFFICES ASSUME NEW c \in 1 .. BOOTSTRAP_CHANNELS
               PROVE  Parity(image.raster[c]) = Parity(capsule.raster[c])
    OBVIOUS
  <2>1. c \in DOMAIN image.raster
    <3>1. BOOTSTRAP_CHANNELS \in Nat /\ Channels(w, h) \in Nat
          /\ BOOTSTRAP_CHANNELS <= Channels(w, h)
      BY <1>2, Sizes DEF HasRoom
    <3> QED
      BY <1>3, <3>1
  <2>2. c \notin Disturbed
    BY DEF Bearable
  <2> QED
    BY <2>1, <2>2 DEF Disturbed
<1>6. \A c \in 1 .. BOOTSTRAP_CHANNELS : Parity(capsule.raster[c]) = capsule.boot[c]
  BY <1>2 DEF IsSealed, Holds
<1>7. capsule.boot \in [1 .. BOOTSTRAP_CHANNELS -> {0, 1}]
  BY <1>2, ConstantsAssumption DEF IsSealed, BOOTSTRAP_CHANNELS
<1>8. extract_bootstrap(image.raster) = capsule.boot
  BY <1>5, <1>6, <1>7 DEF extract_bootstrap
<1> QED
  BY <1>4, <1>8

\* An opening that refuses has a reason.
LEMMA RefuseOpening ==
    ASSUME IInv, NEW r, Refuse(r), r # "Ok", ~Bearable \/ r = "KdfFailed",
           call.op \in {"open", "open_cached", "fixture"}
    PROVE  IInv'
<1>1. OpenAnswer(r, opened)
  BY DEF OpenAnswer
<1>2. call.op # "seal"
  OBVIOUS
<1> QED
  BY <1>1, <1>2, RefuseInv

LEMMA ReadBootstrapInv == ASSUME IInv, ReadBootstrap PROVE IInv'
<1>1. /\ step = "bootstrap" /\ capsule # None /\ Kept
      /\ call = [op |-> call.op, key |-> call.key]
      /\ call.op \in {"open", "open_cached", "fixture"}
  BY DEF ReadBootstrap, IInv, Opening
<1>2. Bearable => DecodeError(image) = "Ok" /\ extract_bootstrap(image.raster) = capsule.boot
  BY <1>1, BearableReads
<1>3. CASE DecodeError(image) # "Ok" /\ Refuse(DecodeError(image))
  BY <1>1, <1>2, <1>3, RefuseOpening
<1>4. CASE /\ extract_bootstrap(image.raster) # capsule.boot
           /\ \E e \in ParseErrors : Refuse(e)
  <2>1. PICK e \in ParseErrors : Refuse(e)
    BY <1>4
  <2>2. e # "Ok"
    BY DEF ParseErrors
  <2> QED
    BY <1>1, <1>2, <1>4, <2>1, <2>2, RefuseOpening
<1>5. CASE /\ Proceed("capacity")
           /\ UNCHANGED <<derived, call, plan, image, capsule, edits, opened>>
  <2>1. step' = "capacity" /\ call' = call /\ Untouched
    BY <1>5 DEF Proceed, Untouched
  <2> QED
    BY <1>1, <2>1, OpensOn
<1> QED
  BY <1>3, <1>4, <1>5 DEF ReadBootstrap

LEMMA CheckCapacityInv == ASSUME IInv, CheckCapacity PROVE IInv'
<1> DEFINE count == Len(capsule.codewords)
           fits == /\ count <= max_codewords(image.width, image.height)
                   /\ count * bits_per_codeword <= usable_bits(image.width, image.height)
<1>1. /\ step = "capacity" /\ capsule # None /\ Kept
      /\ call = [op |-> call.op, key |-> call.key]
      /\ call.op \in {"open", "open_cached", "fixture"}
  BY DEF CheckCapacity, IInv, Opening
<1>2. Bearable => fits
  <2> SUFFICES ASSUME Bearable PROVE fits
    OBVIOUS
  <2>1. /\ count \in Nat
        /\ count <= max_codewords(capsule.cover.width, capsule.cover.height)
        /\ HasRoom(capsule.cover.width, capsule.cover.height)
    BY <1>1, SealedFacts
  <2>2. image.width = capsule.cover.width /\ image.height = capsule.cover.height
    BY DEF Bearable, SameShape
  <2> HIDE DEF count
  <2> QED
    BY <2>1, <2>2 DEF HasRoom
<1>3. CASE ~fits /\ Refuse("CapacityExceeded")
  <2> HIDE DEF fits
  <2> QED
    BY <1>1, <1>2, <1>3, RefuseOpening
<1>4. CASE /\ Proceed("derive")
           /\ UNCHANGED <<derived, call, plan, image, capsule, edits, opened>>
  <2>1. step' = "derive" /\ call' = call /\ Untouched
    BY <1>4 DEF Proceed, Untouched
  <2> QED
    BY <1>1, <2>1, OpensOn
<1> QED
  BY <1>3, <1>4 DEF CheckCapacity

LEMMA DeriveKeyInv == ASSUME IInv, DeriveKey PROVE IInv'
<1>1. /\ step = "derive" /\ capsule # None /\ Kept
      /\ call = [op |-> call.op, key |-> call.key]
      /\ call.op \in {"open", "open_cached", "fixture"}
  BY DEF DeriveKey, IInv, Opening
<1>2. Bearable => call.key = capsule.key /\ call.key.valid
  BY <1>1, SealedFacts DEF Bearable, IsSealed
<1>3. CASE ~call.key.valid /\ Refuse("InvalidPassphraseLength")
  BY <1>1, <1>2, <1>3, RefuseOpening
<1>4. CASE call.key.collection # capsule.key.collection /\ Refuse("RecoveryFailed")
  BY <1>1, <1>2, <1>4, RefuseOpening
<1>5. CASE Refuse("KdfFailed")
  BY <1>1, <1>5, RefuseOpening
<1>6. CASE /\ call' = [call EXCEPT !.key.collection = capsule.key.collection]
           /\ Proceed(IF call.op = "fixture" THEN "corrupt" ELSE "recover")
           /\ UNCHANGED <<plan, image, capsule, edits, opened>>
  <2>1. step' = (IF call.op = "fixture" THEN "corrupt" ELSE "recover") /\ Untouched
    BY <1>6 DEF Proceed, Untouched
  <2>2. call' = [op |-> call.op,
                 key |-> [call.key EXCEPT !.collection = capsule.key.collection]]
    BY <1>1, <1>6
  <2>3. call' = [op |-> call'.op, key |-> call'.key] /\ call'.op = call.op
    BY <2>2
  <2> QED
    BY <1>1, <2>1, <2>3, OpensOn
<1> QED
  BY <1>3, <1>4, <1>5, <1>6 DEF DeriveKey

-----------------------------------------------------------------------------
(* Recovering.                                                             *)

\* Whatever is recovered is what was sealed, with its key and in its shape.
LEMMA RecoveredIsSealed ==
    ASSUME Kept, capsule # None, NEW png, NEW item \in Recovered(png)
    PROVE  /\ item = capsule.item /\ call.key = capsule.key
           /\ png.width = capsule.cover.width /\ png.height = capsule.cover.height
<1>1. /\ call.key = capsule.key
      /\ <<png.width, png.height>> = <<capsule.cover.width, capsule.cover.height>>
      /\ item \in Parsed(capsule.envelope, DataLen[capsule.profile])
  BY Zenon DEF Recovered
<1>2. Parsed(capsule.envelope, DataLen[capsule.profile]) = {capsule.item}
  BY SealedFacts, ParsedIsSealed, Sizes DEF IsSealed
<1> QED
  BY <1>1, <1>2

\* What every codeword can bear is recovered.
LEMMA RecoveredWhen ==
    ASSUME Kept, capsule # None, NEW png, call.key = capsule.key,
           png.width = capsule.cover.width, png.height = capsule.cover.height,
           NEW count, count = Count(capsule.item, capsule.profile),
           \A v \in 1 .. count :
              Wrong(Received(png.raster, capsule.key, png.width, png.height, count)[v],
                    capsule.codewords[v]) <= correction_budget(capsule.profile)
    PROVE  Recovered(png) = {capsule.item}
<1>1. Len(capsule.codewords) = count
  BY SealedFacts
<1>2. PayloadPositions(png) = Where(capsule.key, png.width, png.height, count)
  BY <1>1 DEF PayloadPositions, Where
<1>3. Deinterleaved(extract_payload(png.raster, PayloadPositions(png), count * RS_N), count)
      = Received(png.raster, capsule.key, png.width, png.height, count)
  BY <1>2 DEF Received
<1>4. Recovered(png) = Parsed(capsule.envelope, DataLen[capsule.profile])
  BY <1>1, <1>3 DEF Recovered
<1>5. Parsed(capsule.envelope, DataLen[capsule.profile]) = {capsule.item}
  BY SealedFacts, ParsedIsSealed, Sizes DEF IsSealed
<1> QED
  BY <1>4, <1>5

LEMMA BearableRecovered ==
    ASSUME Kept, capsule # None, Bearable
    PROVE  Recovered(image) = {capsule.item}
<1> DEFINE count == Count(capsule.item, capsule.profile)
           w == capsule.cover.width
           h == capsule.cover.height
           budget == correction_budget(capsule.profile)
           wrong(v) == Wrong(Received(image.raster, capsule.key, w, h, count)[v],
                             capsule.codewords[v])
<1>1. image.width = w /\ image.height = h /\ call.key = capsule.key
  BY DEF Bearable, SameShape
<1>2. /\ w \in Nat /\ h \in Nat /\ count \in Nat \ {0}
      /\ capsule.codewords \in [1 .. count -> Patterns] /\ capsule.profile \in Profiles
      /\ Spread(Where(capsule.key, w, h, count), w, h, count)
      /\ Holds(capsule.raster, capsule.key, w, h, count, capsule.codewords, capsule.boot)
  BY SealedFacts DEF IsSealed
<1>3. DOMAIN image.raster = 1 .. Channels(w, h)
  BY <1>1, SealedFacts DEF IsPicture
<1>4. Disturbed = Differ(image.raster, capsule.raster)
  BY DEF Disturbed, Differ
<1>5. Cardinality(Disturbed) <= budget /\ budget \in Nat
  BY <1>2, Sizes DEF Bearable
<1> HIDE DEF count, w, h
<1>6. ASSUME NEW v \in 1 .. count PROVE wrong(v) <= budget
  <2>1. /\ IsFiniteSet(Disturbed) /\ wrong(v) \in Nat /\ wrong(v) <= Cardinality(Disturbed)
    BY <1>2, <1>3, <1>4, WrongBound
  <2>2. Cardinality(Disturbed) \in Nat
    BY <2>1, FS_CardinalityType
  <2> HIDE DEF wrong, budget
  <2> QED
    BY <1>5, <2>1, <2>2
<1> HIDE DEF budget
<1>7. \A v \in 1 .. count :
         Wrong(Received(image.raster, capsule.key, image.width, image.height, count)[v],
               capsule.codewords[v]) <= budget
  BY <1>1, <1>6
<1> QED
  BY <1>1, <1>7, RecoveredWhen DEF count, w, h, budget

LEMMA RecoverInv == ASSUME IInv, Recover PROVE IInv'
<1>1. /\ step = "recover" /\ capsule # None /\ Kept
      /\ call.op \in {"open", "open_cached", "fixture"}
  BY DEF Recover, IInv, Opening
<1>2. CASE \E item \in Recovered(image) :
              /\ opened' = item /\ Return("Ok")
              /\ UNCHANGED <<derived, call, plan, image, capsule, edits>>
  <2>1. PICK item \in Recovered(image) :
           /\ opened' = item /\ Return("Ok")
           /\ UNCHANGED <<derived, call, plan, image, capsule, edits>>
    BY <1>2
  <2>2. item = capsule.item /\ call.key = capsule.key /\ SameShape
    BY <1>1, RecoveredIsSealed DEF SameShape
  <2>3. OpenAnswer("Ok", opened')
    BY <2>1, <2>2 DEF OpenAnswer
  <2>4. UNCHANGED <<call, plan>> /\ Untouched /\ call.op # "seal"
    BY <1>1, <2>1 DEF Untouched
  <2> QED
    BY <2>1, <2>3, <2>4, ReturnInv
<1>3. CASE Recovered(image) = {} /\ Refuse("RecoveryFailed")
  <2>1. ~Bearable
    BY <1>1, <1>3, BearableRecovered
  <2> QED
    BY <1>1, <1>3, <2>1, RefuseOpening
<1> QED
  BY <1>2, <1>3 DEF Recover

-----------------------------------------------------------------------------
(* The corruption fixture.                                                 *)

\* The channels it flips.
Flipped(png) ==
    {PayloadPositions(png)[(b - 1) * ByteBits + 1] :
        b \in {(r - 1) * Len(capsule.codewords) + w :
                  r \in FlippedRows(capsule.profile), w \in 1 .. Len(capsule.codewords)}}

LEMMA CorruptedPicture ==
    ASSUME NEW png, IsPicture(png)
    PROVE  /\ IsPicture(Corrupted(png))
           /\ Corrupted(png).width = png.width /\ Corrupted(png).height = png.height
           /\ Corrupted(png).raster =
                 [c \in DOMAIN png.raster |->
                    IF c \in Flipped(png) THEN Flip(png.raster[c]) ELSE png.raster[c]]
<1> DEFINE w == png.width
           h == png.height
           r == [c \in DOMAIN png.raster |->
                    IF c \in Flipped(png) THEN Flip(png.raster[c]) ELSE png.raster[c]]
<1>1. w \in Nat /\ h \in Nat /\ png.raster \in [1 .. Channels(w, h) -> Nat]
      /\ png = Picture(w, h, png.raster)
  BY DEF IsPicture
<1>2. Corrupted(png) = [png EXCEPT !.raster = r]
  BY DEF Corrupted, Flipped
<1>3. r \in [1 .. Channels(w, h) -> Nat]
  BY <1>1, FlipParity
<1> HIDE DEF r
<1>4. /\ Corrupted(png) = Picture(w, h, r) /\ Corrupted(png).raster = r
      /\ Corrupted(png).width = w /\ Corrupted(png).height = h
  <2> HIDE DEF w, h
  <2>1. [png EXCEPT !.raster = r] = [Picture(w, h, png.raster) EXCEPT !.raster = r]
    BY <1>1
  <2>2. Corrupted(png) = Picture(w, h, r)
    BY <1>2, <2>1, NewRaster
  <2> QED
    BY <2>2, NewRaster
<1>5. IsPicture(Picture(w, h, r))
  <2> HIDE DEF w, h
  <2> QED
    BY <1>1, <1>3, PictureDims
<1> QED
  BY <1>4, <1>5 DEF r

LEMMA MakeFixtureInv == ASSUME IInv, MakeFixture PROVE IInv'
<1>1. /\ step = "corrupt" /\ capsule # None /\ Kept /\ call.op = "fixture"
  BY DEF MakeFixture, IInv, Opening
<1>2. ASSUME NEW r, Refuse(r) PROVE IInv'
  BY <1>1, <1>2, RefuseInv
<1>3. CASE /\ image' = Corrupted(image) /\ Return("Ok")
           /\ UNCHANGED <<derived, call, plan, capsule, opened>>
  <2>1. step' = "idle" /\ call'.op = "fixture" /\ capsule' = capsule
    BY <1>1, <1>3 DEF Return
  <2>2. Sealing' /\ Opening'
    BY <2>1 DEF Sealing, Opening
  <2>3. Kept'
    BY <1>1, <1>3, <2>1, CorruptedPicture DEF Kept
  <2>4. Survives' /\ SealFits'
    BY <2>1 DEF Survives, SealFits, Returned
  <2> QED
    BY <2>2, <2>3, <2>4 DEF IInv
<1> QED
  BY <1>2, <1>3 DEF MakeFixture

\* What it flips in a picture of the capsule's shape.
LEMMA FlippedIsHit ==
    ASSUME Kept, capsule # None, call.key = capsule.key, SameShape,
           NEW count, count = Count(capsule.item, capsule.profile)
    PROVE  Flipped(image) = Hit(capsule.key, image.width, image.height, count, capsule.profile)
<1> DEFINE p == Where(capsule.key, image.width, image.height, count)
           rows == FlippedRows(capsule.profile)
<1>1. Len(capsule.codewords) = count
  BY SealedFacts
<1>2. PayloadPositions(image) = p
  BY <1>1 DEF PayloadPositions, Where
<1> HIDE DEF p, rows
<1>3. Flipped(image) =
        {p[(b - 1) * ByteBits + 1] : b \in {(r - 1) * count + v : r \in rows, v \in 1 .. count}}
  BY <1>1, <1>2 DEF Flipped, rows
<1>4. Hit(capsule.key, image.width, image.height, count, capsule.profile)
      = {p[(((r - 1) * count + v) - 1) * ByteBits + 1] : v \in 1 .. count, r \in rows}
  BY DEF Hit, BitIndex, p, rows
<1> QED
  BY <1>3, <1>4

\* Of an intact capsule it flips each promised channel, and no others.
LEMMA FixtureDisturbs ==
    ASSUME Kept, capsule # None, call.key = capsule.key, SameShape, Disturbed = {},
           NEW count, count = Count(capsule.item, capsule.profile)
    PROVE  /\ Differ(Corrupted(image).raster, capsule.raster)
                 = Hit(capsule.key, image.width, image.height, count, capsule.profile)
           /\ Recovered(Corrupted(image)) # {}
<1> DEFINE w == capsule.cover.width
           h == capsule.cover.height
           png == Corrupted(image)
           H == Hit(capsule.key, w, h, count, capsule.profile)
           budget == correction_budget(capsule.profile)
           received == Received(png.raster, capsule.key, w, h, count)
<1>1. image.width = w /\ image.height = h
  BY DEF SameShape
<1>2. /\ w \in Nat /\ h \in Nat /\ count \in Nat \ {0}
      /\ capsule.codewords \in [1 .. count -> Patterns] /\ capsule.profile \in Profiles
      /\ Spread(Where(capsule.key, w, h, count), w, h, count)
      /\ Holds(capsule.raster, capsule.key, w, h, count, capsule.codewords, capsule.boot)
      /\ IsPicture(image)
  BY SealedFacts DEF IsSealed
<1>3. Flipped(image) = H
  BY <1>1, FlippedIsHit
<1> HIDE DEF H, w, h
<1>4. image.raster \in [1 .. Channels(w, h) -> Nat]
  BY <1>1, <1>2 DEF IsPicture
<1>5. /\ png.width = w /\ png.height = h
      /\ png.raster = [c \in 1 .. Channels(w, h) |->
                          IF c \in H THEN Flip(image.raster[c]) ELSE image.raster[c]]
  <2>1. /\ png.width = image.width /\ png.height = image.height
        /\ png.raster = [c \in DOMAIN image.raster |->
                            IF c \in Flipped(image) THEN Flip(image.raster[c])
                            ELSE image.raster[c]]
    BY <1>2, CorruptedPicture
  <2>2. DOMAIN image.raster = 1 .. Channels(w, h)
    BY <1>4
  <2> HIDE DEF png
  <2> QED
    BY <1>1, <1>3, <2>1, <2>2
<1> HIDE DEF png
<1>6. \A c \in 1 .. Channels(w, h) : Parity(image.raster[c]) = Parity(capsule.raster[c])
  BY <1>4 DEF Disturbed
<1>7. H \subseteq 1 .. Channels(w, h)
  <2>1. H \subseteq BOOTSTRAP_CHANNELS + 1 .. Channels(w, h)
    BY <1>2, HitOnce DEF H
  <2>2. BOOTSTRAP_CHANNELS \in Nat
    BY Sizes
  <2> QED
    BY <2>1, <2>2
<1>8. \A c \in 1 .. Channels(w, h) :
         Parity(png.raster[c]) # Parity(capsule.raster[c]) <=> c \in H
  <2> SUFFICES ASSUME NEW c \in 1 .. Channels(w, h)
               PROVE  Parity(png.raster[c]) # Parity(capsule.raster[c]) <=> c \in H
    OBVIOUS
  <2>1. image.raster[c] \in Nat
    BY <1>4
  <2>2. png.raster[c] = IF c \in H THEN Flip(image.raster[c]) ELSE image.raster[c]
    BY <1>5
  <2>3. Parity(Flip(image.raster[c])) # Parity(image.raster[c])
    BY <2>1, FlipParity
  <2> QED
    BY <1>6, <2>2, <2>3
<1>9. DOMAIN png.raster = 1 .. Channels(w, h)
  BY <1>5
<1>10. Differ(png.raster, capsule.raster) = H
  BY <1>7, <1>8, <1>9 DEF Differ
<1>11. ASSUME NEW v \in 1 .. count
       PROVE  Wrong(received[v], capsule.codewords[v]) <= budget
  <2> DEFINE wrong == {r \in 1 .. RS_N : received[v][r] # capsule.codewords[v][r]}
  <2>1. wrong \subseteq FlippedRows(capsule.profile)
    <3> SUFFICES ASSUME NEW r \in 1 .. RS_N, received[v][r] # capsule.codewords[v][r]
                 PROVE  r \in FlippedRows(capsule.profile)
      OBVIOUS
    <3>1. PICK b \in 1 .. ByteBits :
             Where(capsule.key, w, h, count)[BitIndex(count, v, r, b)]
                 \in Differ(png.raster, capsule.raster)
      <4>1. Received(png.raster, capsule.key, w, h, count)[v][r] # capsule.codewords[v][r]
        OBVIOUS
      <4> DEFINE key == capsule.key
                 codewords == capsule.codewords
                 boot == capsule.boot
                 sent == capsule.raster
                 raster == png.raster
      <4>2. /\ w \in Nat /\ h \in Nat /\ count \in Nat \ {0}
            /\ codewords \in [1 .. count -> Patterns]
            /\ Spread(Where(key, w, h, count), w, h, count)
            /\ Holds(sent, key, w, h, count, codewords, boot)
            /\ DOMAIN raster = 1 .. Channels(w, h)
            /\ v \in 1 .. count /\ r \in 1 .. RS_N
            /\ Received(raster, key, w, h, count)[v][r] # codewords[v][r]
        BY <1>2, <1>9, <4>1
      <4> HIDE DEF received, key, codewords, boot, sent, raster
      <4>3. \E b \in 1 .. ByteBits :
               Where(key, w, h, count)[BitIndex(count, v, r, b)] \in Differ(raster, sent)
        BY ONLY <4>2, WrongByte
      <4> QED
        BY <4>3 DEF key, sent, raster
    <3>2. Where(capsule.key, w, h, count)[BitIndex(count, v, r, b)] \in H
      BY <1>10, <3>1
    <3> QED
      BY <1>2, <3>2, HitRows DEF H
  <2>2. budget \in Nat
    BY <1>2, Sizes
  <2> HIDE DEF wrong, budget, received
  <2>3. IsFiniteSet(1 .. budget) /\ Cardinality(1 .. budget) = budget
    BY <2>2, FS_Interval
  <2>4. wrong \subseteq 1 .. budget
    BY <2>1 DEF FlippedRows, budget
  <2>5. Cardinality(wrong) <= budget
    BY <2>3, <2>4, FS_Subset
  <2> QED
    BY <2>5 DEF Wrong, wrong
<1>12. Recovered(png) = {capsule.item}
  <2>1. \A v \in 1 .. count :
           Wrong(Received(png.raster, capsule.key, png.width, png.height, count)[v],
                 capsule.codewords[v]) <= budget
    BY <1>5, <1>11
  <2> HIDE DEF budget, received
  <2> QED
    BY <1>5, <2>1, RecoveredWhen DEF budget, w, h
<1> QED
  BY <1>1, <1>10, <1>12 DEF png, H

-----------------------------------------------------------------------------
(* The theorems.                                                           *)

LEMMA StepInv == ASSUME IInv, [Next]_vars PROVE IInv'
<1>1. CASE Next
  <2>1. CASE Seal
    BY <2>1, BeginSealInv, ValidateInputsInv, DecodeCoverInv, PrepareInv,
       DrawKeyAndIdInv, SealImageInv DEF Seal
  <2>2. CASE EditPicture
    BY <2>2, EditInv
  <2>3. CASE Open
    BY <2>3, BeginOpenInv, ReadBootstrapInv, CheckCapacityInv, DeriveKeyInv,
       RecoverInv, MakeFixtureInv DEF Open
  <2> QED
    BY <1>1, <2>1, <2>2, <2>3 DEF Next
<1>2. CASE UNCHANGED vars
  BY <1>2 DEF vars, IInv, Sealing, Opening, Kept, Survives, SealFits, Returned,
     SameShape, Disturbed
<1> QED
  BY <1>1, <1>2

LEMMA Invariance == Spec => []IInv
BY InitInv, StepInv, PTL DEF Spec

\* A capsule opens as the item that was sealed in it, and as nothing else,
\* whatever the cover and the key, as long as no more channels were disturbed
\* than its profile corrects (open_png_bytes and its variant with a key).
THEOREM SealedIsOpened == Spec => []Survives
<1>1. IInv => Survives
  BY DEF IInv
<1> QED
  BY <1>1, Invariance, PTL

\* Sealing refuses an item for its size only if no padding would make it fit,
\* and embeds whatever it has settled the lengths of (prepare, seal_image).
THEOREM WhatFitsIsSealed == Spec => []SealFits
<1>1. IInv => SealFits
  BY DEF IInv
<1> QED
  BY <1>1, Invariance, PTL

\* The corruption fixture flips exactly what the profile can correct in every
\* codeword (make_bounded_corruption_fixture): it is never refused for it, and
\* no two of its flips meet.
THEOREM FixtureIsExact == Spec => FixtureAtBound
<1> DEFINE Bound ==
             step = "corrupt" /\ SameShape /\ Disturbed = {} /\ call.key = capsule.key =>
               /\ result' # "RecoveryFailed"
               /\ result' = "Ok" =>
                     /\ Disturbed' \cap 1 .. BOOTSTRAP_CHANNELS = {}
                     /\ Cardinality(Disturbed') =
                           correction_budget(capsule.profile) * Len(capsule.codewords)
<1>1. ASSUME IInv, Next PROVE Bound
  <2> SUFFICES ASSUME step = "corrupt", SameShape, Disturbed = {}, call.key = capsule.key
               PROVE  /\ result' # "RecoveryFailed"
                      /\ result' = "Ok" =>
                            /\ Disturbed' \cap 1 .. BOOTSTRAP_CHANNELS = {}
                            /\ Cardinality(Disturbed') =
                                  correction_budget(capsule.profile) * Len(capsule.codewords)
    OBVIOUS
  <2> DEFINE count == Count(capsule.item, capsule.profile)
             H == Hit(capsule.key, image.width, image.height, count, capsule.profile)
  <2>1. MakeFixture
    <3>1. ~ Seal
      BY DEF Seal, BeginSeal, ValidateInputs, DecodeCover, Prepare, DrawKeyAndId, SealImage
    <3>2. ~ EditPicture
      BY DEF EditPicture, EditChannel, Crop, Reshape, Edited
    <3>3. Open => MakeFixture
      BY DEF Open, BeginOpen, ReadBootstrap, CheckCapacity, DeriveKey, Recover
    <3> QED
      BY <1>1, <3>1, <3>2, <3>3 DEF Next
  <2>2. Kept /\ capsule # None
    BY <1>1 DEF IInv, Opening
  <2>3. Recovered(Corrupted(image)) # {} /\ Differ(Corrupted(image).raster, capsule.raster) = H
    BY <2>2, FixtureDisturbs
  <2>4. \/ result' \in {"InvalidPng", "InputTooLarge"}
        \/ result' = "Ok" /\ image' = Corrupted(image) /\ capsule' = capsule
    BY <2>1, <2>3 DEF MakeFixture, Refuse, Return
  <2>5. ASSUME image' = Corrupted(image), capsule' = capsule
        PROVE  /\ Disturbed' \cap 1 .. BOOTSTRAP_CHANNELS = {}
               /\ Cardinality(Disturbed') =
                     correction_budget(capsule.profile) * Len(capsule.codewords)
    <3>1. Disturbed' = H
      BY <2>3, <2>5 DEF Disturbed, Differ
    <3>2. /\ H \subseteq BOOTSTRAP_CHANNELS + 1 .. Channels(image.width, image.height)
          /\ Cardinality(H) = correction_budget(capsule.profile) * count
          /\ Len(capsule.codewords) = count
      <4>1. image.width = capsule.cover.width /\ image.height = capsule.cover.height
        BY DEF SameShape
      <4> QED
        BY <2>2, <4>1, SealedFacts, HitOnce DEF IsSealed
    <3> HIDE DEF H, count
    <3>3. BOOTSTRAP_CHANNELS \in Nat
      BY Sizes
    <3>4. H \cap 1 .. BOOTSTRAP_CHANNELS = {}
      BY <3>2, <3>3
    <3> QED
      BY <3>1, <3>2, <3>4
  <2> HIDE DEF H, count
  <2> QED
    BY <2>4, <2>5
<1>2. IInv /\ [Next]_vars => [Bound]_vars
  BY <1>1
<1> QED
  BY <1>2, Invariance, PTL DEF Spec, FixtureAtBound
=============================================================================

---------------------------- MODULE StegoProofs ----------------------------
(***************************************************************************)
(* For any files, photos, passphrases, density and generator: no symbol is *)
(* ever sealed twice under one key and nonce, and the capacity computed    *)
(* for a set of hosts holds for each of them. The first needs that keys    *)
(* are drawn by calls and nonces by symbols in order; the second is the    *)
(* arithmetic of capacity.rs, undone by embed.rs. And what is read back is *)
(* what was embedded, through the shuffle, photos used again as hosts, and *)
(* damage: a second invariant, ReadingInv, says what each channel of every *)
(* photo may be, and what the calls of extract_file have in hand.          *)
(***************************************************************************)
EXTENDS Stego, Induction, SequenceTheorems

IsSeq(s) == s \in Seq(Range(s))
IsAlbum(photos) == IsSeq(photos) /\ \A i \in DOMAIN photos : IsSeq(photos[i])

Room(hosts, k) ==
    \A i \in DOMAIN hosts :
        ciphertext_bytes(k) <= Len(hosts[i]) - PLAINTEXT_HEADER_CHANNELS

\* A call in progress: its key is the last one drawn, every host has room, and
\* there is one for each symbol.
CallOK ==
    phase = "embedding" =>
        /\ call.id = Len(sessions)
        /\ call.k \in Nat \ {0}
        /\ call.total \in Nat
        /\ IsAlbum(call.hosts) /\ call.hosts # <<>> /\ call.total <= Len(call.hosts)
        /\ Len(images) <= call.total
        /\ Room(call.hosts, call.k)

\* The photos of a call and of the directory, written in order.
PhotosOK ==
    /\ IsAlbum(images) /\ IsAlbum(directory)
    /\ written \in Nat
    /\ phase = "writing" => written < Len(images) /\ written <= Len(directory)
    /\ phase = "embedding" => written = 0

\* What was sealed before is under an older key, or an older nonce of this call.
SealedBefore ==
    /\ IsSeq(sessions)
    /\ \A s \in sealed :
          /\ s.key[2] \in 0 .. Len(sessions)
          /\ phase = "embedding" /\ s.key[2] = call.id
                => s.nonce[3] \in Nat /\ s.nonce[3] < Len(images)

IInv == CallOK /\ PhotosOK /\ SealedBefore /\ SealedOnce /\ NeverPanics

-----------------------------------------------------------------------------
(* Sequences.                                                              *)

LEMMA SeqOfFunction ==
    ASSUME NEW n \in Nat, NEW f, f = [i \in 1 .. n |-> f[i]]
    PROVE  IsSeq(f) /\ Len(f) = n
<1>1. f \in [1 .. n -> Range(f)]
  BY DEF Range
<1> QED
  BY <1>1 DEF IsSeq

LEMMA LengthOf ==
    ASSUME NEW s, IsSeq(s)
    PROVE  Len(s) \in Nat /\ DOMAIN s = 1 .. Len(s) /\ s = [i \in 1 .. Len(s) |-> s[i]]
BY DEF IsSeq

LEMMA AppendSeq ==
    ASSUME NEW s, IsSeq(s), NEW e
    PROVE  /\ IsSeq(Append(s, e)) /\ Len(Append(s, e)) = Len(s) + 1
           /\ \A i \in 1 .. Len(s) : Append(s, e)[i] = s[i]
           /\ Append(s, e)[Len(s) + 1] = e
<1> DEFINE S == Range(s) \cup {e}
           t == Append(s, e)
<1>1. s \in Seq(S) /\ e \in S
  BY DEF IsSeq
<1>2. t \in Seq(S) /\ Len(t) = Len(s) + 1
  BY <1>1
<1>3. /\ \A i \in 1 .. Len(s) : t[i] = s[i]
      /\ t[Len(s) + 1] = e
  BY <1>1
<1> HIDE DEF t
<1>4. Len(t) \in Nat /\ t = [i \in 1 .. Len(t) |-> t[i]]
  BY <1>2
<1>5. IsSeq(t)
  BY <1>4, SeqOfFunction
<1> QED
  BY <1>2, <1>3, <1>5 DEF t

-----------------------------------------------------------------------------
(* Capacity.                                                               *)

\* Rounding down and multiplying back does not exceed.
LEMMA FloorTimes ==
    ASSUME NEW a \in Nat, NEW b \in Nat \ {0}
    PROVE  a \div b \in Nat /\ b * (a \div b) <= a
OBVIOUS

\* The K of a photo fits the photo (photo_k_per_photo, embed_into_host).
LEMMA KFitsPhoto ==
    ASSUME NEW len \in Nat, NEW density \in Densities,
           NEW k \in Nat \ {0}, k <= photo_k_per_photo(len, density)
    PROVE  ciphertext_bytes(k) <= len - PLAINTEXT_HEADER_CHANNELS
<1> DEFINE H == PLAINTEXT_HEADER_CHANNELS
           product == (len - H) * density
           embeddable == product \div DensityScale
           most == (embeddable - AEAD_TAG_LEN) \div CodewordLen
<1>1. /\ AEAD_TAG_LEN \in Nat \ {0} /\ CodewordLen \in Nat \ {0} /\ DensityScale \in Nat \ {0}
      /\ density \in Nat \ {0} /\ density <= DensityScale /\ H = 5
  BY ConstantsAssumption DEF Fields
<1>2. ~ (len <= H) /\ ~ (embeddable <= AEAD_TAG_LEN) /\ k <= most
  <2>1. ~ (len <= H \/ embeddable <= AEAD_TAG_LEN)
    BY DEF photo_k_per_photo
  <2> QED
    BY <2>1 DEF photo_k_per_photo
<1>3. len - H \in Nat
  BY <1>1, <1>2
<1>4. product \in Nat /\ product <= (len - H) * DensityScale
  <2>1. \A x, y, z \in Nat : y <= z => x * y <= x * z /\ x * y \in Nat
    OBVIOUS
  <2> QED
    BY <1>1, <1>3, <2>1
<1> HIDE DEF product
<1>5. embeddable \in Nat /\ DensityScale * embeddable <= product
  BY <1>1, <1>4, FloorTimes
<1> HIDE DEF embeddable
<1>6. embeddable <= len - H
  <2>1. DensityScale * embeddable <= DensityScale * (len - H)
    BY <1>1, <1>3, <1>4, <1>5
  <2>2. \A d \in Nat \ {0}, x, y \in Nat : d * x <= d * y => x <= y
    OBVIOUS
  <2> QED
    BY <1>1, <1>3, <1>5, <2>1, <2>2
<1>7. embeddable - AEAD_TAG_LEN \in Nat
  BY <1>1, <1>2, <1>5
<1>8. most \in Nat /\ CodewordLen * most <= embeddable - AEAD_TAG_LEN
  BY <1>1, <1>7, FloorTimes
<1> HIDE DEF most
<1>9. CodewordLen * k <= CodewordLen * most
  <2>1. \A d, x, y \in Nat : x <= y => d * x <= d * y
    OBVIOUS
  <2> QED
    BY <1>1, <1>2, <1>8, <2>1
<1>10. CodewordLen * k \in Nat /\ CodewordLen * most \in Nat
  BY <1>1, <1>8
<1> HIDE DEF H
<1> QED
  BY <1>1, <1>3, <1>5, <1>6, <1>7, <1>8, <1>9, <1>10 DEF ciphertext_bytes, H

\* The K of a set of hosts fits each of them (compute_k_global).
LEMMA KFitsAll ==
    ASSUME NEW lengths \in SUBSET Nat, NEW density \in Densities,
           compute_k_global(lengths, density) # 0
    PROVE  /\ compute_k_global(lengths, density) \in Nat \ {0}
           /\ lengths # {}
           /\ \A len \in lengths :
                 ciphertext_bytes(compute_k_global(lengths, density))
                     <= len - PLAINTEXT_HEADER_CHANNELS
<1> DEFINE ks == {photo_k_per_photo(len, density) : len \in lengths}
           T == ks \cup {ZION_CODEC_MAX_K}
           k == compute_k_global(lengths, density)
<1>1. ks # {} /\ 0 \notin ks /\ k = Least(T)
  BY DEF compute_k_global
<1>2. ASSUME NEW len \in Nat PROVE photo_k_per_photo(len, density) \in Nat
  <2> DEFINE H == PLAINTEXT_HEADER_CHANNELS
             embeddable == ((len - H) * density) \div DensityScale
  <2>1. /\ AEAD_TAG_LEN \in Nat \ {0} /\ CodewordLen \in Nat \ {0} /\ DensityScale \in Nat \ {0}
        /\ density \in Nat \ {0} /\ H = 5
    BY ConstantsAssumption DEF Fields
  <2>2. CASE len <= H \/ embeddable <= AEAD_TAG_LEN
    BY <2>2 DEF photo_k_per_photo
  <2>3. CASE ~ (len <= H) /\ ~ (embeddable <= AEAD_TAG_LEN)
    <3>1. len - H \in Nat
      BY <2>1, <2>3
    <3>2. (len - H) * density \in Nat
      BY <2>1, <3>1
    <3>3. embeddable \in Nat
      BY <2>1, <3>2, FloorTimes
    <3>4. embeddable - AEAD_TAG_LEN \in Nat
      <4> HIDE DEF embeddable
      <4> QED
        BY <2>1, <2>3, <3>3
    <3>5. (embeddable - AEAD_TAG_LEN) \div CodewordLen \in Nat
      <4> HIDE DEF embeddable
      <4> QED
        BY <2>1, <3>4, FloorTimes
    <3> QED
      BY <2>3, <3>5 DEF photo_k_per_photo
  <2> QED
    BY <2>2, <2>3
<1>3. T \in SUBSET Nat /\ T # {} /\ 0 \notin T
  <2>1. ks \in SUBSET Nat
    BY <1>2
  <2>2. ZION_CODEC_MAX_K \in Nat \ {0}
    BY ConstantsAssumption
  <2> QED
    BY <1>1, <2>1, <2>2
<1>4. k \in T /\ \A t \in T : k <= t
  <2> HIDE DEF T, k
  <2> QED
    BY <1>1, <1>3, LeastExists DEF Least
<1>5. k \in Nat \ {0}
  BY <1>3, <1>4
<1>6. ASSUME NEW len \in lengths
      PROVE  ciphertext_bytes(k) <= len - PLAINTEXT_HEADER_CHANNELS
  <2>1. k <= photo_k_per_photo(len, density)
    <3>1. photo_k_per_photo(len, density) \in T
      OBVIOUS
    <3> HIDE DEF T
    <3> QED
      BY <1>4, <3>1
  <2> HIDE DEF k
  <2> QED
    BY <1>5, <2>1, KFitsPhoto
<1> QED
  BY <1>1, <1>5, <1>6

-----------------------------------------------------------------------------
(* The steps.                                                              *)

LEMMA InitInv == Init => IInv
<1> SUFFICES ASSUME Init PROVE IInv
  OBVIOUS
<1>1. IsSeq(<<>>) /\ IsAlbum(<<>>)
  BY DEF IsSeq, IsAlbum
<1> QED
  BY <1>1 DEF Init, IInv, CallOK, PhotosOK, SealedBefore, SealedOnce, NeverPanics

\* Refusals, the photos on their way, and all that extract_file does.
LEMMA ElsewhereInv ==
    ASSUME IInv, UNCHANGED <<writing, directory, sessions, sealed>>,
           phase' = phase \/ phase' \notin {"embedding", "writing"},
           result' = result \/ result' # <<"panic">>
    PROVE  IInv'
<1>1. /\ call' = call /\ images' = images /\ written' = written
      /\ directory' = directory /\ sessions' = sessions /\ sealed' = sealed
  BY DEF writing
<1>2. CallOK'
  BY <1>1 DEF IInv, CallOK
<1>3. PhotosOK'
  BY <1>1 DEF IInv, PhotosOK
<1>4. SealedBefore' /\ SealedOnce'
  BY <1>1 DEF IInv, SealedBefore, SealedOnce
<1>5. NeverPanics'
  BY DEF IInv, NeverPanics
<1> QED
  BY <1>2, <1>3, <1>4, <1>5 DEF IInv

LEMMA HostsAreAlbums ==
    ASSUME IInv, NEW hosts \in HostLists
    PROVE  IsAlbum(hosts)
<1>1. ASSUME NEW png \in Pngs PROVE IsSeq(load_png_rgb(png))
  <2> DEFINE image == load_png_rgb(png)
  <2>1. 3 * png.pixels \in Nat
    BY ConstantsAssumption
  <2>2. CASE image = [i \in 1 .. (3 * png.pixels) |-> Noise]
    <3> HIDE DEF image
    <3>1. image = [i \in 1 .. (3 * png.pixels) |-> image[i]]
      BY <2>2
    <3>2. IsSeq(image)
      BY <2>1, <3>1, SeqOfFunction
    <3> QED
      BY <3>2 DEF image
  <2>3. CASE image = <<>>
    BY <2>3 DEF IsSeq
  <2> QED
    BY <2>2, <2>3 DEF load_png_rgb, Unreadable
<1>2. ASSUME NEW image \in Range(directory) PROVE IsSeq(image)
  BY DEF IInv, PhotosOK, IsAlbum, Range
<1>3. PICK n \in 0 .. MaxHosts :
         hosts \in [1 .. n -> {load_png_rgb(png) : png \in Pngs} \cup Range(directory)]
  BY DEF HostLists
<1>4. \A i \in DOMAIN hosts : IsSeq(hosts[i])
  BY <1>1, <1>2, <1>3
<1>5. n \in Nat /\ hosts = [i \in 1 .. n |-> hosts[i]]
  BY <1>3
<1>6. IsSeq(hosts)
  BY <1>5, SeqOfFunction
<1> QED
  BY <1>4, <1>6 DEF IsAlbum

LEMMA BeginEmbedInv ==
    ASSUME IInv, NEW file \in Files, NEW hosts \in HostLists, NEW pass \in Passphrases,
           NEW density \in Densities, BeginEmbed(file, hosts, pass, density)
    PROVE  IInv'
<1> DEFINE lengths == {Len(hosts[i]) : i \in DOMAIN hosts}
           k == compute_k_global(lengths, density)
           total == SymbolsUsed(file, k)
           id == Len(sessions) + 1
<1>1. CASE \E error \in {"PngError", "EmptyInput", "NoHostImages", "InsufficientCapacity",
                          "CodecError"} : Fail(error)
  <2>1. result' # <<"panic">> /\ phase' = phase
        /\ UNCHANGED <<writing, directory, sessions, sealed>>
    BY <1>1 DEF Fail
  <2> QED
    BY <2>1, ElsewhereInv
<1>2. CASE /\ k # 0 /\ total <= Len(hosts)
           /\ phase' = "embedding"
           /\ call' = [file |-> file, hosts |-> hosts, pass |-> pass, k |-> k,
                       id |-> id, total |-> total]
           /\ images' = <<>> /\ written' = 0
           /\ sessions' = Append(sessions, [file |-> file, pass |-> pass,
                                            total |-> total, k |-> k])
           /\ UNCHANGED <<result, directory, sealed>>
  <2>1. IsAlbum(hosts) /\ IsSeq(hosts)
    BY HostsAreAlbums DEF IsAlbum
  <2>2. lengths \in SUBSET Nat
    BY <2>1, LengthOf DEF IsAlbum
  <2>3. /\ k \in Nat \ {0} /\ lengths # {}
        /\ \A len \in lengths : ciphertext_bytes(k) <= len - PLAINTEXT_HEADER_CHANNELS
    <3> HIDE DEF lengths
    <3> QED
      BY <1>2, <2>2, KFitsAll
  <2>4. hosts # <<>> /\ Room(hosts, k)
    BY <2>3 DEF Room
  <2> HIDE DEF lengths, k
  <2>5. total \in Nat
    <3>1. Blocks[file] + k - 1 \in Nat
      BY <2>3, ConstantsAssumption
    <3>2. (Blocks[file] + k - 1) \div k \in Nat
      BY <2>3, <3>1, FloorTimes
    <3> QED
      BY <3>2 DEF SymbolsUsed
  <2> HIDE DEF total
  <2>6. /\ IsSeq(sessions) /\ Len(sessions) \in Nat
        /\ IsSeq(sessions') /\ Len(sessions') = Len(sessions) + 1
    <3>1. IsSeq(sessions)
      BY DEF IInv, SealedBefore
    <3> QED
      BY <1>2, <3>1, LengthOf, AppendSeq
  <2>7. Len(<<>>) = 0 /\ IsAlbum(<<>>)
    BY DEF IsAlbum, IsSeq
  <2>8. CallOK'
    BY <1>2, <2>1, <2>3, <2>4, <2>5, <2>6, <2>7 DEF CallOK
  <2>9. PhotosOK'
    BY <1>2, <2>7 DEF IInv, PhotosOK
  <2>10. SealedBefore'
    <3> SUFFICES ASSUME NEW s \in sealed
                 PROVE  /\ s.key[2] \in 0 .. Len(sessions')
                        /\ s.key[2] # call'.id
      BY <1>2, <2>6 DEF SealedBefore
    <3>1. s.key[2] \in 0 .. Len(sessions)
      BY DEF IInv, SealedBefore
    <3> QED
      BY <1>2, <2>6, <3>1
  <2>11. SealedOnce' /\ NeverPanics'
    BY <1>2 DEF IInv, SealedOnce, NeverPanics
  <2> QED
    BY <2>8, <2>9, <2>10, <2>11 DEF IInv
<1> QED
  BY <1>1, <1>2, Zenon DEF BeginEmbed, reading

\* embed_bits_at keeps the shape of an image.
LEMMA EmbeddedSeq ==
    ASSUME NEW image, IsSeq(image), NEW positions, NEW cells
    PROVE  /\ IsSeq(embed_bits_at(image, positions, cells))
           /\ Len(embed_bits_at(image, positions, cells)) = Len(image)
<1> DEFINE t == embed_bits_at(image, positions, cells)
<1>1. Len(image) \in Nat /\ DOMAIN image = 1 .. Len(image)
  BY LengthOf
<1>2. t = [i \in 1 .. Len(image) |->
             IF \E p \in DOMAIN cells : positions[p] = i
             THEN cells[CHOOSE p \in DOMAIN cells : positions[p] = i]
             ELSE image[i]]
  BY <1>1, Zenon DEF embed_bits_at
<1>3. t = [i \in 1 .. Len(image) |-> t[i]]
  <2>1. DOMAIN t = 1 .. Len(image)
    BY <1>2, Zenon
  <2>2. t = [i \in DOMAIN t |-> t[i]]
    BY <1>2, Zenon
  <2> QED
    BY <2>1, <2>2
<1> HIDE DEF t
<1>4. IsSeq(t) /\ Len(t) = Len(image)
  BY <1>1, <1>3, SeqOfFunction
<1> QED
  BY <1>4 DEF t

\* There is a place for each cell of the ciphertext (embed_into_host).
LEMMA PlacesEnough ==
    ASSUME NEW k \in Nat \ {0}, NEW len \in Nat, NEW seed, NEW key, NEW nonce, NEW symbol,
           ciphertext_bytes(k) <= len - PLAINTEXT_HEADER_CHANNELS
    PROVE  ~ (Len(Ciphertext(key, nonce, symbol, k)) > Len(permute_range(len, seed)))
<1> DEFINE n == len - PLAINTEXT_HEADER_CHANNELS
           places == permute_range(len, seed)
           cells == Ciphertext(key, nonce, symbol, k)
<1>1. ciphertext_bytes(k) \in Nat \ {0} /\ n \in Nat /\ n > 0
  <2>1. PLAINTEXT_HEADER_CHANNELS \in Nat /\ CodewordLen \in Nat /\ AEAD_TAG_LEN \in Nat \ {0}
    BY ConstantsAssumption DEF Fields
  <2>2. CodewordLen * k \in Nat
    BY <2>1
  <2>3. ciphertext_bytes(k) \in Nat \ {0}
    BY <2>1, <2>2 DEF ciphertext_bytes
  <2> QED
    BY <2>1, <2>3
<1>2. Len(cells) = ciphertext_bytes(k)
  <2>1. cells = [i \in 1 .. ciphertext_bytes(k) |-> cells[i]]
    BY DEF Ciphertext
  <2> HIDE DEF cells
  <2> QED
    BY <1>1, <2>1, SeqOfFunction
<1>3. Len(places) = n
  <2>1. ~ (n <= 0)
    BY <1>1
  <2>2. places = [p \in 1 .. n |-> places[p]]
    BY <2>1 DEF permute_range
  <2> HIDE DEF places
  <2> QED
    BY <1>1, <2>2, SeqOfFunction
<1> QED
  BY <1>1, <1>2, <1>3

LEMMA EmbedIntoHostInv ==
    ASSUME IInv, EmbedIntoHost
    PROVE  IInv'
<1> DEFINE index == Len(images)
           host == call.hosts[index + 1]
           master == derive_master_key(call.pass, call.id)
           nonce == derive_nonce(master, index)
           symbol == Symbol(call.file, call.id, index, call.total)
           cells == Ciphertext(master, nonce, symbol, call.k)
           titled == embed_bits_at(host, HeaderPositions,
                                   HeaderCells(call.id, index, ciphertext_bytes(call.k)))
           permutation == permute_range(Len(host),
                                        derive_permutation_seed(master, call.id, index))
           made == embed_bits_at(titled, permutation, cells)
           new == [key |-> master, nonce |-> nonce, symbol |-> symbol]
<1>1. /\ phase = "embedding" /\ index < call.total
      /\ sealed' = sealed \cup {new}
      /\ UNCHANGED <<call, written, directory, sessions>>
  BY DEF EmbedIntoHost
<1>2. /\ IsAlbum(images) /\ IsSeq(images) /\ index \in Nat
      /\ IsAlbum(call.hosts) /\ IsSeq(call.hosts)
      /\ call.total \in Nat /\ call.total <= Len(call.hosts)
      /\ call.k \in Nat \ {0} /\ Room(call.hosts, call.k)
  BY <1>1, LengthOf DEF IInv, CallOK, PhotosOK, IsAlbum
<1>3. index + 1 \in DOMAIN call.hosts
  BY <1>1, <1>2, LengthOf
<1>4. IsSeq(host) /\ Len(host) \in Nat
      /\ ciphertext_bytes(call.k) <= Len(host) - PLAINTEXT_HEADER_CHANNELS
  BY <1>2, <1>3, LengthOf DEF IsAlbum, Room
<1>5. ~ (Len(cells) > Len(permutation))
  <2> HIDE DEF host, master, nonce, symbol
  <2> QED
    BY <1>2, <1>4, PlacesEnough
<1>6. images' = Append(images, made) /\ UNCHANGED <<result, phase>>
  BY <1>5, Zenon DEF EmbedIntoHost
<1>7. IsSeq(made)
  <2>1. IsSeq(titled)
    <3> HIDE DEF host
    <3> QED
      BY <1>4, EmbeddedSeq
  <2> HIDE DEF titled, permutation, cells
  <2> QED
    BY <2>1, EmbeddedSeq
<1> HIDE DEF made
<1>8. IsSeq(images') /\ Len(images') = index + 1 /\ IsAlbum(images')
  <2>1. IsSeq(images') /\ Len(images') = index + 1
    BY <1>2, <1>6, AppendSeq
  <2>2. ASSUME NEW i \in DOMAIN images' PROVE IsSeq(images'[i])
    <3>1. i \in 1 .. index + 1
      BY <2>1, LengthOf
    <3>2. CASE i \in 1 .. index
      <4>1. images'[i] = images[i]
        BY <1>2, <1>6, <3>2, AppendSeq
      <4> QED
        BY <1>2, <3>2, <4>1, LengthOf DEF IsAlbum
    <3>3. CASE i = index + 1
      BY <1>2, <1>6, <1>7, <3>3, AppendSeq
    <3> QED
      BY <1>2, <3>1, <3>2, <3>3
  <2> QED
    BY <2>1, <2>2 DEF IsAlbum
<1>9. CallOK'
  BY <1>1, <1>2, <1>6, <1>8 DEF IInv, CallOK
<1>10. PhotosOK'
  BY <1>1, <1>6, <1>8 DEF IInv, PhotosOK
<1>11. new.key[2] = call.id /\ new.nonce[3] = index
  BY DEF derive_master_key, derive_nonce
<1>12. call.id = Len(sessions) /\ Len(sessions) \in Nat /\ IsSeq(sessions)
  BY <1>1, LengthOf DEF IInv, CallOK, SealedBefore
<1> HIDE DEF new
<1>13. SealedBefore'
  <2>1. ASSUME NEW s \in sealed
        PROVE  /\ s.key[2] \in 0 .. Len(sessions)
               /\ s.key[2] = call.id => s.nonce[3] \in Nat /\ s.nonce[3] < index + 1
    BY <1>1, <1>2 DEF IInv, SealedBefore
  <2>2. /\ new.key[2] \in 0 .. Len(sessions)
        /\ new.nonce[3] \in Nat /\ new.nonce[3] < index + 1
    BY <1>2, <1>11, <1>12
  <2> QED
    BY <1>1, <1>6, <1>8, <1>12, <2>1, <2>2 DEF SealedBefore
<1>14. SealedOnce'
  <2>1. ASSUME NEW s \in sealed, s.key = new.key, s.nonce = new.nonce PROVE FALSE
    <3>1. s.key[2] = call.id /\ s.nonce[3] = index
      BY <1>11, <2>1
    <3>2. s.nonce[3] < index
      BY <1>1, <3>1 DEF IInv, SealedBefore
    <3> QED
      BY <1>2, <3>1, <3>2
  <2>2. \A a, b \in sealed : a.key = b.key /\ a.nonce = b.nonce => a = b
    BY DEF IInv, SealedOnce
  <2> QED
    BY <1>1, <2>1, <2>2 DEF SealedOnce
<1>15. NeverPanics'
  BY <1>6 DEF IInv, NeverPanics
<1> QED
  BY <1>9, <1>10, <1>13, <1>14, <1>15 DEF IInv

LEMMA AppendRemainingInv ==
    ASSUME IInv, AppendRemaining
    PROVE  IInv'
<1> DEFINE total == call.total
           hosts == call.hosts
           rest == SubSeq(hosts, total + 1, Len(hosts))
<1>1. /\ phase = "embedding" /\ Len(images) = total
      /\ images' = images \o rest /\ phase' = "writing"
      /\ UNCHANGED <<result, call, written, directory, sessions, sealed>>
  BY DEF AppendRemaining
<1>2. /\ IsAlbum(images) /\ IsSeq(images) /\ total \in Nat
      /\ IsAlbum(hosts) /\ IsSeq(hosts) /\ hosts # <<>> /\ total <= Len(hosts)
      /\ IsAlbum(directory) /\ written = 0
  BY <1>1 DEF IInv, CallOK, PhotosOK, IsAlbum
<1>3. Len(hosts) \in Nat /\ DOMAIN hosts = 1 .. Len(hosts) /\ Len(hosts) # 0
  BY <1>2 DEF IsSeq
<1>4. DOMAIN images = 1 .. total
  BY <1>1, <1>2, LengthOf
<1> DEFINE S == Range(images) \cup Range(hosts)
<1>5. \A image \in S : IsSeq(image)
  BY <1>2 DEF IsAlbum, Range
<1>6. images \in Seq(S) /\ hosts \in Seq(S)
  BY <1>2 DEF IsSeq
<1> HIDE DEF S, hosts, total
<1>7. rest \in Seq(S) /\ Len(rest) = Len(hosts) - total
  <2>1. total + 1 \in Int /\ Len(hosts) \in Int
        /\ \A i \in total + 1 .. Len(hosts) : hosts[i] \in S
    BY <1>2, <1>3, <1>6
  <2>2. /\ rest \in Seq(S)
        /\ Len(rest) = IF total + 1 <= Len(hosts) THEN Len(hosts) - (total + 1) + 1 ELSE 0
    BY <2>1, SubSeqProperties
  <2>3. \A n, m \in Nat : m <= n =>
           (IF m + 1 <= n THEN n - (m + 1) + 1 ELSE 0) = n - m
    OBVIOUS
  <2> HIDE DEF rest
  <2> QED
    BY <1>2, <1>3, <2>2, <2>3
<1>8. images' \in Seq(S) /\ Len(images') = Len(hosts)
  <2> HIDE DEF rest
  <2>1. images \o rest \in Seq(S) /\ Len(images \o rest) = Len(images) + Len(rest)
    BY <1>6, <1>7
  <2> QED
    BY <1>1, <1>2, <1>3, <1>7, <2>1
<1>9. IsAlbum(images')
  <2>1. images' = [i \in 1 .. Len(hosts) |-> images'[i]]
    BY <1>8
  <2>2. IsSeq(images') /\ DOMAIN images' = 1 .. Len(hosts)
    BY <1>3, <2>1, SeqOfFunction
  <2>3. \A i \in DOMAIN images' : images'[i] \in S
    BY <1>8, <2>2
  <2> QED
    BY <1>5, <2>2, <2>3 DEF IsAlbum
<1>10. PhotosOK'
  <2>1. Len(directory) \in Nat
    BY <1>2, LengthOf DEF IsAlbum
  <2>2. phase' = "writing" /\ written' = 0 /\ directory' = directory
    BY <1>1, <1>2
  <2>3. written' < Len(images') /\ written' <= Len(directory') /\ written' \in Nat
    BY <1>3, <1>8, <2>1, <2>2
  <2>4. IsAlbum(directory')
    BY <1>2, <2>2
  <2> QED
    BY <1>9, <2>2, <2>3, <2>4 DEF PhotosOK
<1>11. CallOK' /\ SealedOnce' /\ NeverPanics'
  BY <1>1 DEF IInv, CallOK, SealedOnce, NeverPanics
<1>12. SealedBefore'
  BY <1>1 DEF IInv, SealedBefore
<1> QED
  BY <1>10, <1>11, <1>12 DEF IInv

\* One photo of the directory is replaced, or one added at its end.
LEMMA ReplacedAlbum ==
    ASSUME NEW dir, IsAlbum(dir), NEW i \in 1 .. Len(dir) + 1, NEW image, IsSeq(image)
    PROVE  /\ IsAlbum(Replaced(dir, i, image))
           /\ Len(Replaced(dir, i, image)) >= i
           /\ Len(Replaced(dir, i, image)) \in Nat
<1> DEFINE n == IF i > Len(dir) THEN i ELSE Len(dir)
           t == Replaced(dir, i, image)
<1>1. Len(dir) \in Nat /\ DOMAIN dir = 1 .. Len(dir)
  BY LengthOf DEF IsAlbum
<1>2. n \in Nat /\ n >= i /\ \A m \in 1 .. n : m = i \/ m \in DOMAIN dir
  BY <1>1
<1>3. t = [m \in 1 .. n |-> IF m = i THEN image ELSE dir[m]]
  BY DEF Replaced
<1> HIDE DEF n, t
<1>4. t = [m \in 1 .. n |-> t[m]]
  BY <1>3
<1>5. IsSeq(t) /\ Len(t) = n
  BY <1>2, <1>4, SeqOfFunction
<1>6. \A m \in DOMAIN t : IsSeq(t[m])
  BY <1>2, <1>3 DEF IsAlbum
<1> QED
  BY <1>2, <1>5, <1>6 DEF IsAlbum, t

LEMMA WritingInv ==
    ASSUME IInv, WritePhoto \/ StopWriting
    PROVE  IInv'
<1>1. /\ phase = "writing" /\ phase' # "embedding"
      /\ UNCHANGED <<sessions, sealed>>
      /\ result' = result \/ result' # <<"panic">>
  BY DEF WritePhoto, StopWriting
<1>2. /\ IsAlbum(images) /\ IsAlbum(directory) /\ IsAlbum(<<>>) /\ IsSeq(Unreadable)
      /\ written \in Nat /\ written < Len(images) /\ written <= Len(directory)
      /\ Len(images) \in Nat /\ Len(directory) \in Nat
      /\ DOMAIN images = 1 .. Len(images)
  <2>1. IsAlbum(<<>>) /\ IsSeq(Unreadable)
    BY DEF IsAlbum, IsSeq, Unreadable
  <2> QED
    BY <1>1, <2>1, LengthOf DEF IInv, PhotosOK, IsAlbum
<1>3. written + 1 \in DOMAIN images /\ written + 1 \in 1 .. Len(directory) + 1
  BY <1>2
<1>4. PhotosOK'
  <2>1. CASE WritePhoto
    <3>1. /\ directory' = Replaced(directory, written + 1, images[written + 1])
          /\ written' = written + 1
      BY <2>1 DEF WritePhoto
    <3>2. IsSeq(images[written + 1])
      BY <1>2, <1>3 DEF IsAlbum
    <3>3. IsAlbum(directory') /\ Len(directory') >= written'
      BY <1>2, <1>3, <3>1, <3>2, ReplacedAlbum
    <3>4. CASE written' = Len(images)
      <4>1. phase' = "idle" /\ images' = <<>>
        BY <2>1, <3>4 DEF WritePhoto
      <4> QED
        BY <1>2, <3>1, <3>3, <4>1 DEF PhotosOK
    <3>5. CASE written' # Len(images)
      <4>1. phase' = phase /\ images' = images
        BY <2>1, <3>5 DEF WritePhoto
      <4>2. written' < Len(images')
        <5>1. written' \in Nat /\ written' <= Len(images)
          BY <1>2, <3>1
        <5> QED
          BY <1>2, <3>5, <4>1, <5>1
      <4>3. written' <= Len(directory')
        BY <1>2, <1>3, <3>1, <3>2, ReplacedAlbum
      <4> QED
        BY <1>1, <1>2, <3>1, <3>3, <4>1, <4>2, <4>3 DEF PhotosOK
    <3> QED
      BY <3>4, <3>5
  <2>2. CASE StopWriting
    <3>1. /\ phase' = "idle" /\ images' = <<>> /\ written' = written
          /\ \/ directory' = directory
             \/ directory' = Replaced(directory, written + 1, Unreadable)
      BY <2>2 DEF StopWriting
    <3>2. IsAlbum(directory')
      BY <1>2, <1>3, <3>1, ReplacedAlbum
    <3> QED
      BY <1>2, <3>1, <3>2 DEF PhotosOK
  <2> QED
    BY <2>1, <2>2
<1>5. CallOK' /\ SealedBefore' /\ SealedOnce' /\ NeverPanics'
  BY <1>1 DEF IInv, CallOK, SealedBefore, SealedOnce, NeverPanics
<1> QED
  BY <1>4, <1>5 DEF IInv

LEMMA StepInv == IInv /\ [Next]_vars => IInv'
<1> SUFFICES ASSUME IInv, [Next]_vars PROVE IInv'
  OBVIOUS
<1>1. CASE Embed
  BY <1>1, BeginEmbedInv, EmbedIntoHostInv, AppendRemainingInv, WritingInv DEF Embed
<1>2. ASSUME NEW i, NEW c, Damage(i, c) PROVE IInv'
  BY <1>2, ElsewhereInv DEF Damage
<1>3. ASSUME NEW i, NEW len, Crop(i, len) PROVE IInv'
  BY <1>3, ElsewhereInv DEF Crop
<1>4. CASE Extract
  <2>1. ASSUME NEW r, Return(r), r # <<"panic">> PROVE IInv'
    BY <2>1, ElsewhereInv DEF Return
  <2>2. ASSUME UNCHANGED <<result, writing, directory, sessions, sealed>>,
               phase' = phase \/ phase' \in {"picking", "opening"}
        PROVE  IInv'
    BY <2>2, ElsewhereInv
  <2>3. ASSUME NEW i, Pick(i) PROVE IInv'
    BY <2>1, <2>2, <2>3 DEF Pick
  <2>4. CASE ReadHeaders
    <3>1. ASSUME NEW image, NEW header \in ReadHeader(image), header.error # "none"
          PROVE  header.error # "panic"
      BY <3>1 DEF ReadHeader
    <3> QED
      BY <2>1, <2>2, <2>4, <3>1 DEF ReadHeaders
  <2>5. ASSUME NEW pass, BeginOpen(pass) PROVE IInv'
    BY <2>1, <2>2, <2>5 DEF BeginOpen
  <2>6. CASE OpenImage
    BY <2>1, <2>2, <2>6 DEF OpenImage
  <2>7. CASE Finalize
    BY <2>1, <2>7 DEF Finalize
  <2> QED
    BY <1>4, <2>3, <2>4, <2>5, <2>6, <2>7 DEF Extract
<1>5. CASE UNCHANGED vars
  BY <1>5, ElsewhereInv DEF vars, writing
<1> QED
  BY <1>1, <1>2, <1>3, <1>4, <1>5 DEF Next

LEMMA Invariance == Spec => []IInv
BY InitInv, StepInv, PTL DEF Spec

\* No key and nonce ever seal two symbols, in any number of calls, whatever
\* passphrases they share (embed.rs, kdf.rs).
THEOREM SealsOnce == Spec => []SealedOnce
BY Invariance, PTL DEF IInv

\* Embedding never meets a host too small for the K chosen: the assertion of
\* embed_into_host holds for any hosts, density and sizes (capacity.rs).
THEOREM CapacityHolds == Spec => []NeverPanics
BY Invariance, PTL DEF IInv

-----------------------------------------------------------------------------
(* The shuffle of permute_range.                                           *)

Places(n) == [1 .. n -> PLAINTEXT_HEADER_CHANNELS + 1 .. PLAINTEXT_HEADER_CHANNELS + n]

\* One exchange of the shuffle.
Exchanged(before, seed, i) ==
    LET last == i + 1
        j == (Word(seed, i) % last) + 1
    IN  [before EXCEPT ![last] = before[j], ![j] = before[last]]

\* f is what the shuffle computes, from the last exchange to the first.
Shuffles(f, n, seed) ==
    f = [i \in 1 .. n |-> IF i = n THEN [p \in 1 .. n |-> PLAINTEXT_HEADER_CHANNELS + p]
                          ELSE Exchanged(f[i + 1], seed, i)]

LEMMA HeaderIsFive == PLAINTEXT_HEADER_CHANNELS = 5
BY ConstantsAssumption DEF Fields

LEMMA ExchangedInPlaces ==
    ASSUME NEW n \in Nat \ {0}, NEW seed, NEW i \in 1 .. n - 1, Word(seed, i) \in Nat,
           NEW before \in Places(n)
    PROVE  Exchanged(before, seed, i) \in Places(n)
<1> DEFINE last == i + 1
           j == (Word(seed, i) % last) + 1
<1>1. last \in 1 .. n
  OBVIOUS
<1>2. j \in 1 .. last
  <2> DEFINE w == Word(seed, i)
  <2> HIDE DEF w
  <2>1. w \in Nat
    BY DEF w
  <2>2. last \in Nat \ {0}
    BY <1>1
  <2> HIDE DEF last
  <2>3. w % last \in 0 .. last - 1
    BY <2>1, <2>2
  <2> QED
    BY <2>2, <2>3 DEF w
<1>3. j \in 1 .. n
  <2> HIDE DEF j
  <2> QED
    BY <1>1, <1>2
<1> HIDE DEF j, last
<1>4. before[j] \in PLAINTEXT_HEADER_CHANNELS + 1 .. PLAINTEXT_HEADER_CHANNELS + n
      /\ before[last] \in PLAINTEXT_HEADER_CHANNELS + 1 .. PLAINTEXT_HEADER_CHANNELS + n
  BY <1>1, <1>3 DEF Places
<1>5. [before EXCEPT ![last] = before[j], ![j] = before[last]] \in Places(n)
  BY <1>1, <1>3, <1>4 DEF Places
<1> QED
  BY <1>5 DEF Exchanged, j, last

LEMMA ShuffleExists ==
    ASSUME NEW n \in Nat \ {0}, NEW seed, \A i \in 1 .. n : Word(seed, i) \in Nat
    PROVE  \E f : Shuffles(f, n, seed)
<1> DEFINE D == Places(n)
           first == [p \in 1 .. n |-> PLAINTEXT_HEADER_CHANNELS + p]
           step == [m \in Nat |-> [h \in D |->
                       IF m \in 1 .. n - 1 THEN Exchanged(h, seed, n - m) ELSE h]]
<1>1. first \in D
  BY HeaderIsFive DEF Places
<1>2. \A m \in Nat, h \in D :
        (IF m \in 1 .. n - 1 THEN Exchanged(h, seed, n - m) ELSE h) \in D
  <2> SUFFICES ASSUME NEW m \in 1 .. n - 1, NEW h \in D PROVE Exchanged(h, seed, n - m) \in D
    OBVIOUS
  <2>1. n - m \in 1 .. n - 1 /\ n - m \in 1 .. n
    OBVIOUS
  <2> QED
    BY <2>1, ExchangedInPlaces
<1> HIDE DEF D
<1>3. step \in [Nat -> [D -> D]]
  BY <1>2
<1> HIDE DEF first, step
<1>4. PICK g : CountsOn(g, D, first, step)
  BY <1>1, <1>3, RecursionAt
<1> DEFINE f == [i \in 1 .. n |-> g[n - i]]
<1>5. ASSUME NEW i \in 1 .. n
      PROVE  f[i] = IF i = n THEN first ELSE Exchanged(f[i + 1], seed, i)
  <2>1. CASE i = n
    <3>1. n - i = 0
      BY <2>1
    <3> QED
      BY <2>1, <3>1, <1>4 DEF CountsOn
  <2>2. CASE i # n
    <3> DEFINE m == n - i
    <3>1. m \in Nat \ {0} /\ m \in 1 .. n - 1 /\ n - m = i /\ i + 1 \in 1 .. n
          /\ n - (i + 1) = m - 1 /\ m - 1 \in Nat
      BY <2>2
    <3> HIDE DEF m
    <3>2. g[m] = step[m][g[m - 1]] /\ g[m - 1] \in D
      BY <1>4, <3>1 DEF CountsOn
    <3>3. step[m][g[m - 1]] = Exchanged(g[m - 1], seed, n - m)
      BY <3>1, <3>2 DEF step
    <3>4. f[i] = g[m] /\ f[i + 1] = g[m - 1]
      BY <3>1 DEF m
    <3> HIDE DEF f
    <3> QED
      BY <2>2, <3>1, <3>2, <3>3, <3>4
  <2> QED
    BY <2>1, <2>2
<1>6. f = [i \in 1 .. n |-> IF i = n THEN first ELSE Exchanged(f[i + 1], seed, i)]
  <2>1. f = [i \in 1 .. n |-> f[i]]
    OBVIOUS
  <2> HIDE DEF f
  <2> QED
    BY <1>5, <2>1
<1> QED
  BY <1>6 DEF Shuffles, first

\* The shuffle moves no channel of the header, and none out of the image.
LEMMA ShuffledInPlaces ==
    ASSUME NEW n \in Nat \ {0}, NEW seed, \A i \in 1 .. n : Word(seed, i) \in Nat
    PROVE  Shuffled(n, seed) \in Places(n)
<1> DEFINE f == CHOOSE f : Shuffles(f, n, seed)
<1>1. Shuffled(n, seed) = f[1]
  BY DEF Shuffled, Shuffles, Exchanged
<1>2. Shuffles(f, n, seed)
  BY ShuffleExists
<1> HIDE DEF f
<1> DEFINE S == {m \in Nat : m < n => f[n - m] \in Places(n)}
<1>3. \A i \in 1 .. n :
        f[i] = IF i = n THEN [p \in 1 .. n |-> PLAINTEXT_HEADER_CHANNELS + p]
               ELSE Exchanged(f[i + 1], seed, i)
  BY <1>2 DEF Shuffles
<1>4. 0 \in S
  <2>1. f[n] = [p \in 1 .. n |-> PLAINTEXT_HEADER_CHANNELS + p] /\ n - 0 = n
    BY <1>3
  <2>2. f[n - 0] \in Places(n)
    BY <2>1, HeaderIsFive DEF Places
  <2> QED
    BY <2>2
<1>5. ASSUME NEW m \in Nat, m \in S PROVE m + 1 \in S
  <2> SUFFICES ASSUME m + 1 < n PROVE f[n - (m + 1)] \in Places(n)
    OBVIOUS
  <2> DEFINE i == n - (m + 1)
  <2>1. i \in 1 .. n - 1 /\ i \in 1 .. n /\ i # n /\ i + 1 = n - m
    OBVIOUS
  <2>2. f[i + 1] \in Places(n)
    BY <1>5, <2>1
  <2> HIDE DEF i
  <2>3. f[i] = Exchanged(f[i + 1], seed, i)
    BY <1>3, <2>1
  <2>4. f[i] \in Places(n)
    BY <2>1, <2>2, <2>3, ExchangedInPlaces
  <2> QED
    BY <2>4 DEF i
<1>6. \A m \in Nat : m \in S
  <2> HIDE DEF S
  <2> QED
    BY <1>4, <1>5, Induction
<1>7. n - 1 \in S /\ n - (n - 1) = 1 /\ n - 1 < n
  BY <1>6
<1>8. f[1] \in Places(n)
  BY <1>7
<1> QED
  BY <1>1, <1>8

-----------------------------------------------------------------------------
(* What a photo holds.                                                     *)

\* What symbol index of the embedding id is sealed into, and its bytes.
SealOf(made, id, index) ==
    LET master == derive_master_key(made[id].pass, id)
    IN  [key |-> master, nonce |-> derive_nonce(master, index),
         symbol |-> Symbol(made[id].file, id, index, made[id].total)]

CellOf(made, id, index, n) ==
    CipherCell(SealOf(made, id, index).key, SealOf(made, id, index).nonce,
               SealOf(made, id, index).symbol, n)

\* A byte of the ciphertext of a symbol that was sealed in one of the first top
\* embeddings; the header, if it is of that embedding, is of that symbol.
IsByteOf(image, b, made, id, index) ==
    /\ \E n \in 1 .. ciphertext_bytes(made[id].k) : image[b] = CellOf(made, id, index, n)
    /\ image[3] = HeaderCell("file_id", id) =>
          /\ image[4] \in {Noise, HeaderCell("symbol_index", index)}
          /\ image[5] \in {Noise, HeaderCell("ciphertext_len", ciphertext_bytes(made[id].k))}

IsByte(image, b, top, made, seals) ==
    \E id \in 1 .. top : \E index \in 0 .. made[id].total - 1 :
        /\ SealOf(made, id, index) \in seals
        /\ IsByteOf(image, b, made, id, index)

\* A photo, as the command leaves it and as it is picked, damaged or not.
IsPhoto(image, top, made, seals) ==
    /\ IsSeq(image)
    /\ image = <<>> \/ \E png \in Pngs : Len(image) <= 3 * png.pixels
    /\ 5 \in DOMAIN image =>
          \/ image[5] = Noise
          \/ \E len \in {ciphertext_bytes(made[id].k) : id \in 1 .. top} :
                image[5] = HeaderCell("ciphertext_len", len)
    /\ \A b \in DOMAIN image :
          b > PLAINTEXT_HEADER_CHANNELS => image[b] = Noise \/ IsByte(image, b, top, made, seals)

ArePhotos(photos, top, made, seals) ==
    IsSeq(photos) /\ \A i \in DOMAIN photos : IsPhoto(photos[i], top, made, seals)

SessionOK(made) ==
    /\ made.total \in 1 .. MaxHosts
    /\ made.k \in Nat \ {0}
    /\ made.pass \in Passphrases

SessionsOK ==
    /\ IsSeq(sessions) /\ Len(sessions) <= MaxSessions
    /\ \A id \in 1 .. Len(sessions) : SessionOK(sessions[id])

\* The call in progress is the last session; its hosts are older photos.
CallIsSession ==
    phase = "embedding" =>
        /\ call.id = Len(sessions) /\ call.id \in 1 .. Len(sessions)
        /\ call.file = sessions[call.id].file /\ call.pass = sessions[call.id].pass
        /\ call.total = sessions[call.id].total /\ call.k = sessions[call.id].k
        /\ ArePhotos(call.hosts, call.id - 1, sessions, sealed)

SealsOK ==
    \A s \in sealed :
        \E id \in 1 .. Len(sessions) : \E index \in 0 .. sessions[id].total - 1 :
            s = SealOf(sessions, id, index)

HoldsBytes ==
    /\ ArePhotos(images, Len(sessions), sessions, sealed)
    /\ ArePhotos(directory, Len(sessions), sessions, sealed)
    /\ ArePhotos(picked, Len(sessions), sessions, sealed)

\* What is read back: where the ciphertext of photo n is taken from, and the
\* symbol it opens to.
FileId == headers[1].file_id
Where(n) ==
    permute_range(Len(picked[n]),
        derive_permutation_seed(derive_master_key(passphrase, FileId), FileId,
                                headers[n].symbol_index))
CellsAt(n) == extract_bits_at(picked[n], SubSeq(Where(n), 1, headers[n].ciphertext_len))

OpensAs(n, s) ==
    LET master == derive_master_key(passphrase, FileId)
        nonce == derive_nonce(master, headers[n].symbol_index)
    IN  /\ headers[n].ciphertext_len <= Len(Where(n))
        /\ s.key = master /\ s.nonce = nonce
        /\ CellsAt(n) = Ciphertext(master, nonce, s.symbol, sessions[s.symbol.id].k)

OpenedAs(n, symbol) == \E s \in sealed : OpensAs(n, s) /\ symbol = s.symbol

Started == phase = "opening" \/ (phase = "opened" /\ passphrase # "none")

Reading ==
    /\ phase \in {"idle", "embedding", "writing"} =>
          picked = <<>> /\ headers = <<>> /\ passphrase = "none"
    /\ phase = "picking" => picked # <<>> /\ passphrase = "none"
    /\ IsSeq(headers)
    /\ Len(headers) <= Len(picked)
    /\ \A i \in DOMAIN headers :
          headers[i].error = "none" /\ headers[i] \in ReadHeader(picked[i])

Received ==
    Started =>
        /\ picked # <<>> /\ Len(headers) = Len(picked)
        /\ \A i \in DOMAIN headers : headers[i].file_id = FileId
        /\ IsSeq(received) /\ Len(received) <= Len(picked)
        /\ \A i \in DOMAIN received : OpenedAs(i, received[i])

Outcome ==
    phase = "opened" /\ passphrase # "none" =>
        \/ /\ Len(received) = Len(picked)
           /\ result = IF {received[i].index : i \in DOMAIN received}
                             = 0 .. (received[1].total - 1)
                       THEN <<"Ok", received[1].file>> ELSE <<"ReassemblyFailed">>
        \/ /\ Len(received) < Len(picked)
           /\ result[1] # "Ok"
           /\ \A s \in sealed : ~ OpensAs(Len(received) + 1, s)

ReadingInv == SessionsOK /\ CallIsSession /\ SealsOK /\ HoldsBytes /\ Reading /\ Received /\ Outcome

-----------------------------------------------------------------------------
(* Photos stay photos.                                                     *)

LEMMA PermutedShape ==
    ASSUME NEW len \in Nat, NEW seed
    PROVE  /\ IsSeq(permute_range(len, seed))
           /\ Len(permute_range(len, seed)) =
                 IF len <= PLAINTEXT_HEADER_CHANNELS THEN 0 ELSE len - PLAINTEXT_HEADER_CHANNELS
<1> DEFINE n == len - PLAINTEXT_HEADER_CHANNELS
           places == permute_range(len, seed)
<1>1. CASE n <= 0
  <2>1. places = <<>>
    BY <1>1 DEF permute_range
  <2>2. IsSeq(<<>>) /\ Len(<<>>) = 0
    BY DEF IsSeq
  <2>3. len <= PLAINTEXT_HEADER_CHANNELS
    BY <1>1, HeaderIsFive
  <2> QED
    BY <2>1, <2>2, <2>3
<1>2. CASE ~ (n <= 0)
  <2>1. n \in Nat /\ ~ (len <= PLAINTEXT_HEADER_CHANNELS)
    BY <1>2, HeaderIsFive
  <2>2. places = [p \in 1 .. n |-> places[p]]
    BY <1>2 DEF permute_range
  <2> HIDE DEF places
  <2>3. IsSeq(places) /\ Len(places) = n
    BY <2>1, <2>2, SeqOfFunction
  <2> QED
    BY <2>1, <2>3 DEF places
<1> QED
  BY <1>1, <1>2

\* The bytes of a ciphertext go to channels of the photo, none of the header's.
LEMMA PermutedPlaces ==
    ASSUME NEW len \in Nat, NEW png \in Pngs, len <= 3 * png.pixels,
           NEW pass \in Passphrases, NEW id \in 1 .. MaxSessions, NEW index \in 0 .. MaxHosts
    PROVE  LET where == permute_range(len,
                            derive_permutation_seed(derive_master_key(pass, id), id, index))
           IN  \A p \in 1 .. len - PLAINTEXT_HEADER_CHANNELS :
                  where[p] \in PLAINTEXT_HEADER_CHANNELS + 1 .. len
<1> DEFINE n == len - PLAINTEXT_HEADER_CHANNELS
           seed == derive_permutation_seed(derive_master_key(pass, id), id, index)
           where == permute_range(len, seed)
<1> SUFFICES ASSUME NEW p \in 1 .. n PROVE where[p] \in PLAINTEXT_HEADER_CHANNELS + 1 .. len
  OBVIOUS
<1>1. n \in Nat \ {0} /\ PLAINTEXT_HEADER_CHANNELS + n = len
  BY HeaderIsFive
<1>2. \A i \in 1 .. n : Word(seed, i) \in Nat
  <2>1. 3 * png.pixels \in Nat
    BY ConstantsAssumption
  <2> HIDE DEF n
  <2>2. \A i \in 1 .. n : i \in 1 .. (3 * png.pixels)
    BY <1>1, <2>1, HeaderIsFive
  <2> QED
    BY <2>2, GeneratorAssumption
<1> HIDE DEF seed
<1>3. Shuffled(n, seed) \in Places(n)
  <2> HIDE DEF n
  <2> QED
    BY <1>1, <1>2, ShuffledInPlaces
<1>4. where[p] = Shuffled(n, seed)[p]
  <2>1. ~ (n <= 0)
    BY <1>1
  <2> QED
    BY <2>1 DEF permute_range
<1>5. Shuffled(n, seed)[p] \in PLAINTEXT_HEADER_CHANNELS + 1 .. PLAINTEXT_HEADER_CHANNELS + n
  <2> HIDE DEF n
  <2> QED
    BY <1>3 DEF Places
<1> QED
  BY <1>1, <1>4, <1>5

\* Later embeddings take nothing from what a photo is.
LEMMA PhotoStays ==
    ASSUME NEW top \in Nat, NEW made, NEW seals, NEW after \in Nat, NEW later, NEW more,
           top <= after, \A id \in 1 .. top : later[id] = made[id], seals \subseteq more,
           NEW image, IsPhoto(image, top, made, seals)
    PROVE  IsPhoto(image, after, later, more)
<1>1. ASSUME NEW b, IsByte(image, b, top, made, seals)
      PROVE  IsByte(image, b, after, later, more)
  <2>0. PICK id \in 1 .. top : \E index \in 0 .. made[id].total - 1 :
           SealOf(made, id, index) \in seals /\ IsByteOf(image, b, made, id, index)
    BY <1>1 DEF IsByte
  <2>1. PICK index \in 0 .. made[id].total - 1 :
           SealOf(made, id, index) \in seals /\ IsByteOf(image, b, made, id, index)
    BY <2>0
  <2>2. id \in 1 .. after /\ later[id] = made[id]
    OBVIOUS
  <2>3. SealOf(later, id, index) = SealOf(made, id, index)
    BY <2>2 DEF SealOf
  <2>4. IsByteOf(image, b, later, id, index)
    BY <2>1, <2>2, <2>3 DEF IsByteOf, CellOf
  <2> QED
    BY <2>1, <2>2, <2>3, <2>4 DEF IsByte
<1>2. ASSUME NEW len \in {ciphertext_bytes(made[id].k) : id \in 1 .. top}
      PROVE  len \in {ciphertext_bytes(later[id].k) : id \in 1 .. after}
  <2>1. PICK id \in 1 .. top : len = ciphertext_bytes(made[id].k)
    OBVIOUS
  <2>2. id \in 1 .. after /\ later[id] = made[id]
    OBVIOUS
  <2> QED
    BY <2>1, <2>2
<1> QED
  BY <1>1, <1>2 DEF IsPhoto

LEMMA PhotosStay ==
    ASSUME NEW top \in Nat, NEW made, NEW seals, NEW after \in Nat, NEW later, NEW more,
           top <= after, \A id \in 1 .. top : later[id] = made[id], seals \subseteq more,
           NEW photos, ArePhotos(photos, top, made, seals)
    PROVE  ArePhotos(photos, after, later, more)
BY PhotoStays DEF ArePhotos

LEMMA FreshPhoto ==
    ASSUME NEW png \in Pngs, NEW top \in Nat, NEW made, NEW seals
    PROVE  IsPhoto(load_png_rgb(png), top, made, seals)
<1> DEFINE image == load_png_rgb(png)
<1>1. 3 * png.pixels \in Nat
  BY ConstantsAssumption
<1>2. CASE image = [i \in 1 .. (3 * png.pixels) |-> Noise]
  <2> HIDE DEF image
  <2>1. image = [i \in 1 .. (3 * png.pixels) |-> image[i]] /\ \A i \in DOMAIN image : image[i] = Noise
    BY <1>2
  <2>2. IsSeq(image) /\ Len(image) = 3 * png.pixels
    BY <1>1, <2>1, SeqOfFunction
  <2>3. Len(image) <= 3 * png.pixels
    BY <1>1, <2>2
  <2> QED
    BY <2>1, <2>2, <2>3 DEF IsPhoto, image
<1>3. CASE image = <<>>
  <2>1. IsSeq(<<>>) /\ DOMAIN <<>> = {}
    BY DEF IsSeq
  <2> HIDE DEF image
  <2> QED
    BY <1>3, <2>1 DEF IsPhoto, image
<1> QED
  BY <1>2, <1>3 DEF load_png_rgb, Unreadable

LEMMA EmptyPhoto ==
    ASSUME NEW top, NEW made, NEW seals
    PROVE  IsPhoto(Unreadable, top, made, seals)
BY DEF IsPhoto, Unreadable, IsSeq

\* Noise in a channel of the header hides it; in another, a byte.
LEMMA DamagedPhoto ==
    ASSUME NEW image, NEW top \in Nat, NEW made, NEW seals, IsPhoto(image, top, made, seals),
           NEW c \in DOMAIN image
    PROVE  IsPhoto([image EXCEPT ![c] = Noise], top, made, seals)
<1> DEFINE t == [image EXCEPT ![c] = Noise]
<1>1. IsSeq(image) /\ Len(image) \in Nat /\ DOMAIN image = 1 .. Len(image)
      /\ image = [i \in 1 .. Len(image) |-> image[i]]
  BY LengthOf DEF IsPhoto
<1>2. DOMAIN t = DOMAIN image /\ t[c] = Noise /\ \A b \in DOMAIN image : b # c => t[b] = image[b]
  BY <1>1
<1>3. t = [i \in 1 .. Len(image) |-> t[i]]
  BY <1>1
<1> HIDE DEF t
<1>4. IsSeq(t) /\ Len(t) = Len(image)
  BY <1>1, <1>3, SeqOfFunction
<1>5. \A b \in DOMAIN image : t[b] = Noise \/ t[b] = image[b]
  BY <1>2
<1>6. t = <<>> \/ \E png \in Pngs : Len(t) <= 3 * png.pixels
  BY <1>1, <1>3, <1>4 DEF IsPhoto
<1>7. ASSUME NEW b \in DOMAIN image, b > PLAINTEXT_HEADER_CHANNELS, t[b] = image[b],
             IsByte(image, b, top, made, seals)
      PROVE  IsByte(t, b, top, made, seals)
  <2>0. PICK id \in 1 .. top : \E index \in 0 .. made[id].total - 1 :
           SealOf(made, id, index) \in seals /\ IsByteOf(image, b, made, id, index)
    BY <1>7 DEF IsByte
  <2>1. PICK index \in 0 .. made[id].total - 1 :
           SealOf(made, id, index) \in seals /\ IsByteOf(image, b, made, id, index)
    BY <2>0
  <2>2. 3 \in DOMAIN image /\ 4 \in DOMAIN image /\ 5 \in DOMAIN image
    BY <1>1, <1>7, HeaderIsFive
  <2>3. Noise # HeaderCell("file_id", id)
    BY DEF Noise, HeaderCell
  <2>4. IsByteOf(t, b, made, id, index)
    BY <1>5, <1>7, <2>1, <2>2, <2>3 DEF IsByteOf
  <2> QED
    BY <2>1, <2>4 DEF IsByte
<1>8. \A b \in DOMAIN t :
         b > PLAINTEXT_HEADER_CHANNELS => t[b] = Noise \/ IsByte(t, b, top, made, seals)
  BY <1>2, <1>5, <1>7 DEF IsPhoto
<1>9. 5 \in DOMAIN t =>
          \/ t[5] = Noise
          \/ \E len \in {ciphertext_bytes(made[id].k) : id \in 1 .. top} :
                t[5] = HeaderCell("ciphertext_len", len)
  BY <1>2, <1>5 DEF IsPhoto
<1> QED
  BY <1>4, <1>6, <1>8, <1>9 DEF IsPhoto, t

LEMMA CroppedPhoto ==
    ASSUME NEW image, NEW top \in Nat, NEW made, NEW seals, IsPhoto(image, top, made, seals),
           NEW len \in Nat, len < Len(image)
    PROVE  IsPhoto(SubSeq(image, 1, len), top, made, seals)
<1> DEFINE t == SubSeq(image, 1, len)
<1>1. IsSeq(image) /\ Len(image) \in Nat /\ DOMAIN image = 1 .. Len(image)
      /\ image = [i \in 1 .. Len(image) |-> image[i]]
  BY LengthOf DEF IsPhoto
<1>2. /\ t = [i \in 1 .. len |-> t[i]]
      /\ \A b \in 1 .. len : t[b] = image[b]
  <2>1. image \in Seq(Range(image)) /\ 1 \in Int /\ len \in Int
        /\ \A i \in 1 .. len : image[i] \in Range(image)
    BY <1>1 DEF IsSeq, Range
  <2>2. t \in Seq(Range(image))
        /\ Len(t) = (IF 1 <= len THEN len - 1 + 1 ELSE 0)
        /\ \A i \in 1 .. len - 1 + 1 : t[i] = image[1 + i - 1]
    BY <2>1, SubSeqProperties
  <2> HIDE DEF t
  <2>3. Len(t) = len /\ \A i \in 1 .. len : t[i] = image[i]
    BY <2>2
  <2> QED
    BY <2>2, <2>3
<1> HIDE DEF t
<1>3. IsSeq(t) /\ Len(t) = len /\ DOMAIN t = 1 .. len /\ \A b \in DOMAIN t : b \in DOMAIN image
  BY <1>1, <1>2, SeqOfFunction
<1>4. \E png \in Pngs : Len(t) <= 3 * png.pixels
  <2>1. image # <<>>
    BY <1>1
  <2>2. PICK png \in Pngs : Len(image) <= 3 * png.pixels
    BY <2>1 DEF IsPhoto
  <2>3. 3 * png.pixels \in Nat
    BY ConstantsAssumption
  <2>4. len <= 3 * png.pixels
    BY <1>1, <2>2, <2>3
  <2> QED
    BY <1>3, <2>4
<1>5. ASSUME NEW b \in DOMAIN t, b > PLAINTEXT_HEADER_CHANNELS,
             IsByte(image, b, top, made, seals)
      PROVE  IsByte(t, b, top, made, seals)
  <2>0. PICK id \in 1 .. top : \E index \in 0 .. made[id].total - 1 :
           SealOf(made, id, index) \in seals /\ IsByteOf(image, b, made, id, index)
    BY <1>5 DEF IsByte
  <2>1. PICK index \in 0 .. made[id].total - 1 :
           SealOf(made, id, index) \in seals /\ IsByteOf(image, b, made, id, index)
    BY <2>0
  <2>2. 3 \in 1 .. len /\ 4 \in 1 .. len /\ 5 \in 1 .. len /\ b \in 1 .. len
    BY <1>3, <1>5, HeaderIsFive
  <2>3. t[3] = image[3] /\ t[4] = image[4] /\ t[5] = image[5] /\ t[b] = image[b]
    BY <1>2, <2>2
  <2>4. IsByteOf(t, b, made, id, index)
    BY <2>1, <2>3 DEF IsByteOf
  <2> QED
    BY <2>1, <2>4 DEF IsByte
<1>6. \A b \in DOMAIN t :
         b > PLAINTEXT_HEADER_CHANNELS => t[b] = Noise \/ IsByte(t, b, top, made, seals)
  BY <1>2, <1>3, <1>5 DEF IsPhoto
<1>7. 5 \in DOMAIN t =>
          \/ t[5] = Noise
          \/ \E l \in {ciphertext_bytes(made[id].k) : id \in 1 .. top} :
                t[5] = HeaderCell("ciphertext_len", l)
  BY <1>2, <1>3 DEF IsPhoto
<1> QED
  BY <1>3, <1>4, <1>6, <1>7 DEF IsPhoto, t

-----------------------------------------------------------------------------
(* A symbol is embedded.                                                   *)

\* What embed_into_host makes of a host for symbol index of the embedding id.
Titled(host, made, id, index) ==
    embed_bits_at(host, HeaderPositions, HeaderCells(id, index, ciphertext_bytes(made[id].k)))

Embedded(host, made, id, index) ==
    LET one == SealOf(made, id, index)
    IN  embed_bits_at(Titled(host, made, id, index),
                      permute_range(Len(host), derive_permutation_seed(one.key, id, index)),
                      Ciphertext(one.key, one.nonce, one.symbol, made[id].k))

LEMMA EmbeddedAt ==
    ASSUME NEW image, NEW positions, NEW cells, NEW i \in DOMAIN image
    PROVE  LET t == embed_bits_at(image, positions, cells)
           IN  \/ t[i] = image[i] /\ \A p \in DOMAIN cells : positions[p] # i
               \/ \E p \in DOMAIN cells : positions[p] = i /\ t[i] = cells[p]
<1> DEFINE t == embed_bits_at(image, positions, cells)
           Here(p) == positions[p] = i
<1>1. t[i] = IF \E p \in DOMAIN cells : Here(p)
             THEN cells[CHOOSE p \in DOMAIN cells : Here(p)] ELSE image[i]
  BY Zenon DEF embed_bits_at
<1> HIDE DEF t
<1>2. CASE \E p \in DOMAIN cells : Here(p)
  <2> DEFINE q == CHOOSE p \in DOMAIN cells : Here(p)
  <2>1. q \in DOMAIN cells /\ Here(q)
    BY <1>2, Zenon
  <2>2. t[i] = cells[q]
    BY <1>1, <1>2
  <2> HIDE DEF q
  <2> QED
    BY <2>1, <2>2 DEF t
<1>3. CASE ~ \E p \in DOMAIN cells : Here(p)
  BY <1>1, <1>3 DEF t
<1> QED
  BY <1>2, <1>3

LEMMA CiphertextCells ==
    ASSUME NEW key, NEW nonce, NEW symbol, NEW k \in Nat \ {0}
    PROVE  /\ ciphertext_bytes(k) \in Nat \ {0}
           /\ DOMAIN Ciphertext(key, nonce, symbol, k) = 1 .. ciphertext_bytes(k)
           /\ \A n \in 1 .. ciphertext_bytes(k) :
                 Ciphertext(key, nonce, symbol, k)[n] = CipherCell(key, nonce, symbol, n)
           /\ IsSeq(Ciphertext(key, nonce, symbol, k))
           /\ Len(Ciphertext(key, nonce, symbol, k)) = ciphertext_bytes(k)
<1> DEFINE cells == Ciphertext(key, nonce, symbol, k)
<1>1. ciphertext_bytes(k) \in Nat \ {0}
  <2>1. CodewordLen \in Nat /\ AEAD_TAG_LEN \in Nat \ {0}
    BY ConstantsAssumption
  <2>2. CodewordLen * k \in Nat
    BY <2>1
  <2> QED
    BY <2>1, <2>2 DEF ciphertext_bytes
<1>2. /\ cells = [i \in 1 .. ciphertext_bytes(k) |-> cells[i]]
      /\ DOMAIN cells = 1 .. ciphertext_bytes(k)
      /\ \A n \in 1 .. ciphertext_bytes(k) : cells[n] = CipherCell(key, nonce, symbol, n)
  BY DEF Ciphertext
<1> HIDE DEF cells
<1>3. IsSeq(cells) /\ Len(cells) = ciphertext_bytes(k)
  BY <1>1, <1>2, SeqOfFunction
<1> QED
  BY <1>1, <1>2, <1>3 DEF cells

\* The header is written whole, and nothing over it.
LEMMA TitledAt ==
    ASSUME NEW host, IsSeq(host), Len(host) > PLAINTEXT_HEADER_CHANNELS,
           NEW made, NEW id, NEW index
    PROVE  LET t == Titled(host, made, id, index)
           IN  /\ IsSeq(t) /\ Len(t) = Len(host)
               /\ t[3] = HeaderCell("file_id", id)
               /\ t[4] = HeaderCell("symbol_index", index)
               /\ t[5] = HeaderCell("ciphertext_len", ciphertext_bytes(made[id].k))
               /\ \A i \in DOMAIN host : i > PLAINTEXT_HEADER_CHANNELS => t[i] = host[i]
<1> DEFINE cells == HeaderCells(id, index, ciphertext_bytes(made[id].k))
           t == Titled(host, made, id, index)
<1>1. Len(host) \in Nat /\ DOMAIN host = 1 .. Len(host)
  BY LengthOf
<1>2. DOMAIN cells = 1 .. 5
      /\ cells[3] = HeaderCell("file_id", id) /\ cells[4] = HeaderCell("symbol_index", index)
      /\ cells[5] = HeaderCell("ciphertext_len", ciphertext_bytes(made[id].k))
  BY DEF HeaderCells
<1>3. \A p \in 1 .. 5 : HeaderPositions[p] = p
  BY HeaderIsFive DEF HeaderPositions
<1>4. t = embed_bits_at(host, HeaderPositions, cells)
  BY DEF Titled
<1> HIDE DEF cells, t
<1>5. IsSeq(t) /\ Len(t) = Len(host)
  BY <1>4, EmbeddedSeq
<1>6. ASSUME NEW i \in DOMAIN host
      PROVE  \/ t[i] = host[i] /\ \A p \in DOMAIN cells : HeaderPositions[p] # i
             \/ \E p \in DOMAIN cells : HeaderPositions[p] = i /\ t[i] = cells[p]
  BY <1>4, EmbeddedAt
<1>7. \A i \in 1 .. 5 : t[i] = cells[i]
  <2> SUFFICES ASSUME NEW i \in 1 .. 5 PROVE t[i] = cells[i]
    OBVIOUS
  <2>1. i \in DOMAIN host
    BY <1>1, HeaderIsFive
  <2> QED
    BY <1>2, <1>3, <1>6, <2>1
<1>8. \A i \in DOMAIN host : i > 5 => t[i] = host[i]
  BY <1>1, <1>2, <1>3, <1>6
<1> QED
  BY <1>2, <1>5, <1>7, <1>8, HeaderIsFive DEF t

LEMMA EmbeddedPhoto ==
    ASSUME NEW made, NEW id \in 1 .. MaxSessions, SessionOK(made[id]),
           NEW index \in 0 .. made[id].total - 1,
           NEW seals, NEW more, seals \subseteq more, SealOf(made, id, index) \in more,
           NEW host, IsPhoto(host, id - 1, made, seals),
           ciphertext_bytes(made[id].k) <= Len(host) - PLAINTEXT_HEADER_CHANNELS
    PROVE  IsPhoto(Embedded(host, made, id, index), id, made, more)
<1> DEFINE one == SealOf(made, id, index)
           k == made[id].k
           len == Len(host)
           titled == Titled(host, made, id, index)
           where == permute_range(len, derive_permutation_seed(one.key, id, index))
           cells == Ciphertext(one.key, one.nonce, one.symbol, k)
           t == Embedded(host, made, id, index)
<1>1. IsSeq(host) /\ len \in Nat /\ DOMAIN host = 1 .. len
  BY LengthOf DEF IsPhoto
<1>2. /\ k \in Nat \ {0} /\ made[id].pass \in Passphrases /\ index \in 0 .. MaxHosts
      /\ id \in Nat /\ id - 1 \in Nat /\ id \in 1 .. id
  <2>1. made[id].total \in 1 .. MaxHosts /\ MaxHosts \in Nat /\ MaxSessions \in Nat
    BY ConstantsAssumption DEF SessionOK
  <2> QED
    BY <2>1 DEF SessionOK
<1>3. /\ ciphertext_bytes(k) \in Nat \ {0}
      /\ DOMAIN cells = 1 .. ciphertext_bytes(k)
      /\ \A n \in 1 .. ciphertext_bytes(k) : cells[n] = CellOf(made, id, index, n)
  <2>1. k \in Nat \ {0}
    BY <1>2
  <2> HIDE DEF k, one
  <2>2. /\ ciphertext_bytes(k) \in Nat \ {0}
        /\ DOMAIN cells = 1 .. ciphertext_bytes(k)
        /\ \A n \in 1 .. ciphertext_bytes(k) :
              cells[n] = CipherCell(one.key, one.nonce, one.symbol, n)
    BY <2>1, CiphertextCells
  <2>3. \A n : CellOf(made, id, index, n) = CipherCell(one.key, one.nonce, one.symbol, n)
    BY DEF CellOf, one
  <2> QED
    BY <2>2, <2>3
<1>4. len > PLAINTEXT_HEADER_CHANNELS /\ len # 0
  BY <1>1, <1>3, HeaderIsFive
<1>5. PICK png \in Pngs : len <= 3 * png.pixels
  <2>1. host # <<>>
    BY <1>1, <1>4
  <2> QED
    BY <2>1 DEF IsPhoto
<1>6. \A p \in 1 .. len - PLAINTEXT_HEADER_CHANNELS :
         where[p] \in PLAINTEXT_HEADER_CHANNELS + 1 .. len
  <2>1. one.key = derive_master_key(made[id].pass, id)
    BY DEF SealOf
  <2> HIDE DEF len
  <2> QED
    BY <1>1, <1>2, <1>5, <2>1, PermutedPlaces
<1>7. \A p \in DOMAIN cells : where[p] > 5
  <2> HIDE DEF where, cells, len, k
  <2>1. \A p \in DOMAIN cells : p \in 1 .. len - PLAINTEXT_HEADER_CHANNELS
    BY <1>1, <1>3, HeaderIsFive DEF k, len
  <2> QED
    BY <1>1, <1>6, <2>1, HeaderIsFive
<1>8. /\ IsSeq(titled) /\ Len(titled) = len
      /\ titled[3] = HeaderCell("file_id", id)
      /\ titled[4] = HeaderCell("symbol_index", index)
      /\ titled[5] = HeaderCell("ciphertext_len", ciphertext_bytes(k))
      /\ \A i \in DOMAIN host : i > PLAINTEXT_HEADER_CHANNELS => titled[i] = host[i]
  BY <1>1, <1>4, TitledAt
<1>9. DOMAIN titled = 1 .. len
  BY <1>8, LengthOf
<1>10. t = embed_bits_at(titled, where, cells)
  BY DEF Embedded
<1> HIDE DEF t, titled, where, cells
<1>11. IsSeq(t) /\ Len(t) = len /\ DOMAIN t = 1 .. len
  <2>1. IsSeq(t) /\ Len(t) = len
    BY <1>8, <1>10, EmbeddedSeq
  <2> QED
    BY <2>1, LengthOf
<1>12. ASSUME NEW i \in 1 .. len
       PROVE  \/ t[i] = titled[i]
              \/ \E p \in DOMAIN cells : where[p] = i /\ t[i] = cells[p]
  BY <1>9, <1>10, <1>12, EmbeddedAt
<1>13. \A i \in 1 .. 5 : t[i] = titled[i]
  <2> SUFFICES ASSUME NEW i \in 1 .. 5 PROVE t[i] = titled[i]
    OBVIOUS
  <2>1. i \in 1 .. len
    BY <1>1, <1>4, HeaderIsFive
  <2> QED
    BY <1>7, <1>12, <2>1
<1>14. /\ t[3] = HeaderCell("file_id", id) /\ t[4] = HeaderCell("symbol_index", index)
       /\ t[5] = HeaderCell("ciphertext_len", ciphertext_bytes(k))
  BY <1>8, <1>13
<1>15. ASSUME NEW b \in DOMAIN t, b > PLAINTEXT_HEADER_CHANNELS
       PROVE  t[b] = Noise \/ IsByte(t, b, id, made, more)
  <2>0. b \in 1 .. len /\ b \in DOMAIN host
    BY <1>1, <1>11
  <2>1. CASE \E p \in DOMAIN cells : where[p] = b /\ t[b] = cells[p]
    <3>1. \E n \in 1 .. ciphertext_bytes(k) : t[b] = CellOf(made, id, index, n)
      BY <1>3, <2>1
    <3>2. IsByteOf(t, b, made, id, index)
      BY <1>14, <3>1 DEF IsByteOf
    <3> QED
      BY <1>2, <3>2 DEF IsByte
  <2>2. CASE t[b] = host[b]
    <3>1. CASE host[b] = Noise
      BY <2>2, <3>1
    <3>2. CASE IsByte(host, b, id - 1, made, seals)
      <4>0. PICK i \in 1 .. id - 1 : \E n \in 0 .. made[i].total - 1 :
               SealOf(made, i, n) \in seals /\ IsByteOf(host, b, made, i, n)
        BY <3>2 DEF IsByte
      <4>1. PICK n \in 0 .. made[i].total - 1 :
               SealOf(made, i, n) \in seals /\ IsByteOf(host, b, made, i, n)
        BY <4>0
      <4>2. i \in 1 .. id /\ i # id
        BY <1>2
      <4>3. t[3] # HeaderCell("file_id", i)
        BY <1>14, <4>2 DEF HeaderCell
      <4>4. IsByteOf(t, b, made, i, n)
        BY <2>2, <4>1, <4>3 DEF IsByteOf
      <4>5. SealOf(made, i, n) \in more
        BY <4>1
      <4> QED
        BY <4>2, <4>4, <4>5 DEF IsByte
    <3> QED
      BY <1>15, <2>0, <3>1, <3>2 DEF IsPhoto
  <2> QED
    BY <1>8, <1>12, <1>15, <2>0, <2>1, <2>2
<1>16. \E l \in {ciphertext_bytes(made[i].k) : i \in 1 .. id} : t[5] = HeaderCell("ciphertext_len", l)
  BY <1>2, <1>14
<1>17. \E x \in Pngs : Len(t) <= 3 * x.pixels
  BY <1>5, <1>11
<1> QED
  BY <1>11, <1>15, <1>16, <1>17 DEF IsPhoto, t

-----------------------------------------------------------------------------
(* The steps of an embedding.                                              *)

LEMMA InitRead == Init => ReadingInv
<1> SUFFICES ASSUME Init PROVE ReadingInv
  OBVIOUS
<1>1. IsSeq(<<>>) /\ Len(<<>>) = 0 /\ DOMAIN <<>> = {}
  BY DEF IsSeq
<1>2. /\ phase = "idle" /\ images = <<>> /\ directory = <<>> /\ sessions = <<>>
      /\ sealed = {} /\ picked = <<>> /\ headers = <<>> /\ passphrase = "none"
  BY DEF Init
<1>3. SessionsOK
  BY <1>1, <1>2, ConstantsAssumption DEF SessionsOK
<1>4. CallIsSession /\ SealsOK
  BY <1>2 DEF CallIsSession, SealsOK
<1>5. HoldsBytes
  BY <1>1, <1>2 DEF HoldsBytes, ArePhotos
<1>6. Reading /\ Received /\ Outcome
  BY <1>1, <1>2 DEF Reading, Received, Outcome, Started
<1> QED
  BY <1>3, <1>4, <1>5, <1>6 DEF ReadingInv

LEMMA NotReading ==
    ASSUME Reading, UNCHANGED reading, phase \in {"idle", "embedding", "writing"},
           phase' \in {"idle", "embedding", "writing"}
    PROVE  Reading' /\ Received' /\ Outcome'
BY DEF Reading, Received, Outcome, Started, reading

LEMMA SealsStay ==
    ASSUME SessionsOK, SealsOK, UNCHANGED <<sessions, sealed>>, phase' # "embedding"
    PROVE  SessionsOK' /\ SealsOK' /\ CallIsSession'
BY DEF SessionsOK, SealsOK, CallIsSession

LEMMA HostsArePhotos ==
    ASSUME IInv, ReadingInv, NEW hosts \in HostLists
    PROVE  ArePhotos(hosts, Len(sessions), sessions, sealed) /\ Len(hosts) <= MaxHosts
<1>0. Len(sessions) \in Nat
  BY LengthOf DEF ReadingInv, SessionsOK
<1>1. PICK n \in 0 .. MaxHosts :
         hosts \in [1 .. n -> {load_png_rgb(png) : png \in Pngs} \cup Range(directory)]
  BY DEF HostLists
<1>2. n \in Nat /\ n <= MaxHosts /\ hosts = [i \in 1 .. n |-> hosts[i]]
  BY <1>1, ConstantsAssumption
<1>3. IsSeq(hosts) /\ Len(hosts) = n
  BY <1>2, SeqOfFunction
<1>4. ASSUME NEW i \in DOMAIN hosts PROVE IsPhoto(hosts[i], Len(sessions), sessions, sealed)
  <2>1. CASE \E png \in Pngs : hosts[i] = load_png_rgb(png)
    BY <1>0, <2>1, FreshPhoto
  <2>2. CASE hosts[i] \in Range(directory)
    BY <2>2 DEF ReadingInv, HoldsBytes, ArePhotos, Range
  <2> QED
    BY <1>1, <2>1, <2>2
<1> QED
  BY <1>2, <1>3, <1>4 DEF ArePhotos

LEMMA BeginEmbedRead ==
    ASSUME IInv, ReadingInv, IInv', NEW file \in Files, NEW hosts \in HostLists,
           NEW pass \in Passphrases, NEW density \in Densities,
           BeginEmbed(file, hosts, pass, density)
    PROVE  ReadingInv'
<1> DEFINE lengths == {Len(hosts[i]) : i \in DOMAIN hosts}
           k == compute_k_global(lengths, density)
           total == SymbolsUsed(file, k)
           id == Len(sessions) + 1
           made == [file |-> file, pass |-> pass, total |-> total, k |-> k]
<1>1. CASE \E error \in {"PngError", "EmptyInput", "NoHostImages", "InsufficientCapacity",
                          "CodecError"} : Fail(error)
  <2>1. phase = "idle" /\ phase' = phase
        /\ UNCHANGED <<writing, directory, sessions, sealed, reading>>
    BY <1>1 DEF Fail, BeginEmbed
  <2>2. Reading' /\ Received' /\ Outcome'
    BY <2>1, NotReading DEF ReadingInv
  <2>3. SessionsOK' /\ SealsOK' /\ CallIsSession'
    BY <2>1, SealsStay DEF ReadingInv
  <2>4. HoldsBytes'
    BY <2>1 DEF ReadingInv, HoldsBytes, reading, writing
  <2> QED
    BY <2>2, <2>3, <2>4 DEF ReadingInv
<1>2. CASE /\ phase = "idle" /\ Len(sessions) < MaxSessions
           /\ Blocks[file] # 0 /\ k # 0 /\ total <= Len(hosts)
           /\ phase' = "embedding"
           /\ call' = [file |-> file, hosts |-> hosts, pass |-> pass, k |-> k,
                       id |-> id, total |-> total]
           /\ images' = <<>>
           /\ sessions' = Append(sessions, made)
           /\ UNCHANGED <<directory, sealed, reading>>
  <2> HIDE DEF k
  <2>1. k \in Nat \ {0} /\ total \in Nat
    BY <1>2 DEF IInv, CallOK
  <2>2. total # 0
    <3>1. Blocks[file] \in Nat \ {0}
      BY <1>2, ConstantsAssumption
    <3>2. Blocks[file] + k - 1 \in Nat /\ Blocks[file] + k - 1 >= k
      BY <2>1, <3>1
    <3>3. \A a \in Nat, b \in Nat \ {0} : a >= b => a \div b # 0
      OBVIOUS
    <3> QED
      BY <2>1, <3>2, <3>3 DEF SymbolsUsed
  <2> HIDE DEF total
  <2>3. ArePhotos(hosts, Len(sessions), sessions, sealed) /\ Len(hosts) <= MaxHosts
    BY HostsArePhotos
  <2>4. Len(hosts) \in Nat /\ MaxHosts \in Nat
    BY <2>3, LengthOf, ConstantsAssumption DEF ArePhotos
  <2>5. SessionOK(made)
    <3>1. total \in 1 .. MaxHosts
      BY <1>2, <2>1, <2>2, <2>3, <2>4
    <3> QED
      BY <2>1, <3>1 DEF SessionOK
  <2> HIDE DEF made
  <2>6. IsSeq(sessions) /\ Len(sessions) \in Nat /\ DOMAIN sessions = 1 .. Len(sessions)
    BY LengthOf DEF ReadingInv, SessionsOK
  <2>7. /\ IsSeq(sessions') /\ Len(sessions') = id
        /\ \A i \in 1 .. Len(sessions) : sessions'[i] = sessions[i]
        /\ sessions'[id] = made
    BY <1>2, <2>6, AppendSeq
  <2>8. SessionsOK'
    <3>1. id <= MaxSessions /\ MaxSessions \in Nat
      BY <1>2, <2>6, ConstantsAssumption
    <3>2. ASSUME NEW i \in 1 .. id PROVE SessionOK(sessions'[i])
      <4>1. CASE i = id
        BY <2>5, <2>7, <4>1
      <4>2. CASE i # id
        <5>1. i \in 1 .. Len(sessions)
          BY <2>6, <4>2
        <5> QED
          BY <2>7, <5>1 DEF ReadingInv, SessionsOK
      <4> QED
        BY <4>1, <4>2
    <3> QED
      BY <2>7, <3>1, <3>2 DEF SessionsOK
  <2>9. SealsOK'
    <3> SUFFICES ASSUME NEW s \in sealed
                 PROVE  \E i \in 1 .. Len(sessions') : \E n \in 0 .. sessions'[i].total - 1 :
                           s = SealOf(sessions', i, n)
      BY <1>2 DEF SealsOK
    <3>1. PICK i \in 1 .. Len(sessions) : \E n \in 0 .. sessions[i].total - 1 :
             s = SealOf(sessions, i, n)
      BY DEF ReadingInv, SealsOK
    <3>2. PICK n \in 0 .. sessions[i].total - 1 : s = SealOf(sessions, i, n)
      BY <3>1
    <3>3. sessions'[i] = sessions[i] /\ i \in 1 .. Len(sessions')
      BY <2>6, <2>7
    <3>4. SealOf(sessions', i, n) = SealOf(sessions, i, n)
      BY <3>3 DEF SealOf
    <3> QED
      BY <3>2, <3>3, <3>4
  <2>10. HoldsBytes'
    <3>1. ArePhotos(<<>>, id, sessions', sealed')
      BY DEF ArePhotos, IsSeq
    <3>2. picked' = picked /\ directory' = directory /\ sealed' = sealed
      BY <1>2 DEF reading
    <3>3. ArePhotos(directory, Len(sessions), sessions, sealed)
          /\ ArePhotos(picked, Len(sessions), sessions, sealed)
      BY DEF ReadingInv, HoldsBytes
    <3>4. Len(sessions) <= id /\ id \in Nat /\ sealed \subseteq sealed
      BY <2>6
    <3>5. ArePhotos(directory, id, sessions', sealed) /\ ArePhotos(picked, id, sessions', sealed)
      BY <2>6, <2>7, <3>3, <3>4, PhotosStay
    <3> QED
      BY <1>2, <2>7, <3>1, <3>2, <3>5 DEF HoldsBytes
  <2>11. CallIsSession'
    <3>1. ArePhotos(hosts, Len(sessions), sessions', sealed)
      <4>1. Len(sessions) <= Len(sessions) /\ sealed \subseteq sealed
        BY <2>6
      <4> QED
        BY <2>3, <2>6, <2>7, <4>1, PhotosStay
    <3>2. id - 1 = Len(sessions) /\ id \in 1 .. id
      BY <2>6
    <3> QED
      BY <1>2, <2>7, <3>1, <3>2 DEF CallIsSession, made
  <2>12. Reading' /\ Received' /\ Outcome'
    BY <1>2, NotReading DEF ReadingInv
  <2> QED
    BY <2>8, <2>9, <2>10, <2>11, <2>12 DEF ReadingInv
<1> QED
  BY <1>1, <1>2, Zenon DEF BeginEmbed

LEMMA EmbedIntoHostRead ==
    ASSUME IInv, ReadingInv, IInv', EmbedIntoHost
    PROVE  ReadingInv'
<1> DEFINE index == Len(images)
           id == call.id
           host == call.hosts[index + 1]
           one == SealOf(sessions, id, index)
           t == Embedded(host, sessions, id, index)
<1>1. /\ phase = "embedding" /\ index < call.total
      /\ UNCHANGED <<call, directory, sessions, reading>>
      /\ phase' \in {"idle", "embedding"}
  BY DEF EmbedIntoHost
<1>2. /\ id = Len(sessions) /\ id \in 1 .. Len(sessions)
      /\ call.file = sessions[id].file /\ call.pass = sessions[id].pass
      /\ call.total = sessions[id].total /\ call.k = sessions[id].k
      /\ ArePhotos(call.hosts, id - 1, sessions, sealed)
  BY <1>1 DEF ReadingInv, CallIsSession
<1>3. /\ IsSeq(images) /\ index \in Nat /\ index + 1 \in DOMAIN call.hosts
      /\ ciphertext_bytes(call.k) <= Len(host) - PLAINTEXT_HEADER_CHANNELS
  <2>1. IsSeq(images) /\ IsSeq(call.hosts) /\ call.total \in Nat /\ call.total <= Len(call.hosts)
    BY <1>1 DEF IInv, PhotosOK, CallOK, IsAlbum
  <2>2. index \in Nat /\ Len(call.hosts) \in Nat /\ DOMAIN call.hosts = 1 .. Len(call.hosts)
    BY <2>1, LengthOf
  <2>3. index + 1 \in DOMAIN call.hosts
    BY <1>1, <2>1, <2>2
  <2> QED
    BY <1>1, <2>1, <2>2, <2>3 DEF IInv, CallOK, Room
<1>4. Len(sessions) \in Nat /\ MaxSessions \in Nat /\ Len(sessions) <= MaxSessions
      /\ SessionOK(sessions[id]) /\ id \in 1 .. MaxSessions
      /\ \A i \in 1 .. Len(sessions) : SessionOK(sessions[i])
  BY <1>2, LengthOf, ConstantsAssumption DEF ReadingInv, SessionsOK
<1>5. sessions[id].total \in Nat /\ index \in 0 .. sessions[id].total - 1
  <2>1. sessions[id].total \in 1 .. MaxHosts
    BY <1>4 DEF SessionOK
  <2>2. MaxHosts \in Nat
    BY ConstantsAssumption
  <2> HIDE DEF index
  <2> QED
    BY <1>1, <1>2, <1>3, <2>1, <2>2
<1>6. sealed' = sealed \cup {one}
  BY <1>2 DEF EmbedIntoHost, SealOf
<1>7. images' = images \/ images' = Append(images, t)
  BY <1>2 DEF EmbedIntoHost, Embedded, Titled, SealOf
<1>8. IsPhoto(t, id, sessions, sealed')
  <2>1. IsPhoto(host, id - 1, sessions, sealed)
    BY <1>2, <1>3 DEF ArePhotos
  <2>2. sealed \subseteq sealed' /\ one \in sealed'
    BY <1>6
  <2>3. ciphertext_bytes(sessions[id].k) <= Len(host) - PLAINTEXT_HEADER_CHANNELS
    BY <1>2, <1>3
  <2> HIDE DEF host, index, id
  <2> QED
    BY <1>4, <1>5, <2>1, <2>2, <2>3, EmbeddedPhoto
<1> HIDE DEF one, t, host
<1>9. HoldsBytes'
  <2>1. sealed \subseteq sealed' /\ Len(sessions) <= Len(sessions)
    BY <1>4, <1>6
  <2>2. /\ ArePhotos(images, Len(sessions), sessions, sealed)
        /\ ArePhotos(directory, Len(sessions), sessions, sealed)
        /\ ArePhotos(picked, Len(sessions), sessions, sealed)
    BY DEF ReadingInv, HoldsBytes
  <2>3. /\ ArePhotos(images, Len(sessions), sessions, sealed')
        /\ ArePhotos(directory, Len(sessions), sessions, sealed')
        /\ ArePhotos(picked, Len(sessions), sessions, sealed')
    BY <1>4, <2>1, <2>2, PhotosStay
  <2>4. ArePhotos(images', Len(sessions), sessions, sealed')
    <3>1. CASE images' = images
      BY <2>3, <3>1
    <3>2. CASE images' = Append(images, t)
      <4>1. /\ IsSeq(images') /\ Len(images') = index + 1
            /\ \A i \in 1 .. index : images'[i] = images[i]
            /\ images'[index + 1] = t
        BY <1>3, <3>2, AppendSeq
      <4>2. ASSUME NEW i \in DOMAIN images' PROVE IsPhoto(images'[i], Len(sessions), sessions, sealed')
        <5>1. i \in 1 .. index + 1 /\ DOMAIN images = 1 .. index
          BY <1>3, <4>1, LengthOf
        <5>2. CASE i \in 1 .. index
          BY <2>3, <4>1, <5>1, <5>2 DEF ArePhotos
        <5>3. CASE i = index + 1
          BY <1>2, <1>8, <4>1, <5>3
        <5> QED
          BY <1>3, <5>1, <5>2, <5>3
      <4> QED
        BY <4>1, <4>2 DEF ArePhotos
    <3> QED
      BY <1>7, <3>1, <3>2
  <2>5. directory' = directory /\ picked' = picked /\ sessions' = sessions
    BY <1>1 DEF reading
  <2> QED
    BY <2>3, <2>4, <2>5 DEF HoldsBytes
<1>10. SessionsOK'
  BY <1>1 DEF ReadingInv, SessionsOK
<1>11. SealsOK'
  <2> SUFFICES ASSUME NEW s \in sealed'
               PROVE  \E i \in 1 .. Len(sessions) : \E n \in 0 .. sessions[i].total - 1 :
                         s = SealOf(sessions, i, n)
    BY <1>1 DEF SealsOK
  <2>1. CASE s = one
    BY <1>2, <1>5, <2>1 DEF one
  <2>2. CASE s \in sealed
    BY <2>2 DEF ReadingInv, SealsOK
  <2> QED
    BY <1>6, <2>1, <2>2
<1>12. CallIsSession'
  <2>1. ArePhotos(call.hosts, id - 1, sessions, sealed')
    <3>1. sealed \subseteq sealed' /\ id - 1 \in Nat /\ id - 1 <= id - 1
      BY <1>4, <1>6
    <3> QED
      BY <1>2, <3>1, PhotosStay
  <2>2. call' = call /\ sessions' = sessions
    BY <1>1
  <2> QED
    BY <1>2, <2>1, <2>2 DEF CallIsSession
<1>13. Reading' /\ Received' /\ Outcome'
  BY <1>1, NotReading DEF ReadingInv
<1> QED
  BY <1>9, <1>10, <1>11, <1>12, <1>13 DEF ReadingInv

LEMMA AppendRemainingRead ==
    ASSUME IInv, ReadingInv, IInv', AppendRemaining
    PROVE  ReadingInv'
<1> DEFINE hosts == call.hosts
           total == call.total
           rest == SubSeq(hosts, total + 1, Len(hosts))
           top == Len(sessions)
<1>1. /\ phase = "embedding" /\ phase' = "writing" /\ images' = images \o rest
      /\ UNCHANGED <<directory, sessions, sealed, reading>>
  BY DEF AppendRemaining
<1>2. /\ top \in Nat /\ call.id = top /\ top - 1 \in Nat /\ top - 1 <= top
      /\ ArePhotos(hosts, top - 1, sessions, sealed)
      /\ ArePhotos(images, top, sessions, sealed)
  <2>1. call.id = top /\ top \in 1 .. top /\ ArePhotos(hosts, call.id - 1, sessions, sealed)
    BY <1>1 DEF ReadingInv, CallIsSession
  <2>2. top \in Nat /\ ArePhotos(images, top, sessions, sealed)
    BY LengthOf DEF ReadingInv, SessionsOK, HoldsBytes
  <2> QED
    BY <2>1, <2>2
<1>3. ArePhotos(hosts, top, sessions, sealed)
  BY <1>2, PhotosStay
<1> DEFINE S == Range(images) \cup Range(hosts)
<1>4. \A image \in S : IsPhoto(image, top, sessions, sealed)
  BY <1>2, <1>3 DEF ArePhotos, Range
<1>5. images \in Seq(S) /\ hosts \in Seq(S) /\ total \in Nat
      /\ Len(hosts) \in Nat /\ DOMAIN hosts = 1 .. Len(hosts)
  <2>1. IsSeq(images) /\ IsSeq(hosts)
    BY <1>2 DEF ArePhotos
  <2>2. total \in Nat
    BY <1>1 DEF IInv, CallOK
  <2> QED
    BY <2>1, <2>2 DEF IsSeq
<1> HIDE DEF S, hosts, total, top
<1>6. rest \in Seq(S)
  <2>1. total + 1 \in Int /\ Len(hosts) \in Int
        /\ \A i \in total + 1 .. Len(hosts) : hosts[i] \in S
    BY <1>5
  <2> QED
    BY <2>1, SubSeqProperties
<1>7. images' \in Seq(S)
  <2> HIDE DEF rest
  <2>1. images \o rest \in Seq(S)
    BY <1>5, <1>6
  <2> QED
    BY <1>1, <2>1
<1>8. ArePhotos(images', top, sessions, sealed)
  <2>1. IsSeq(images')
    BY <1>1 DEF IInv, PhotosOK, IsAlbum
  <2>2. \A i \in DOMAIN images' : images'[i] \in S
    BY <1>7
  <2> QED
    BY <1>4, <2>1, <2>2 DEF ArePhotos
<1>9. HoldsBytes'
  BY <1>1, <1>8 DEF ReadingInv, HoldsBytes, reading, top
<1>10. SessionsOK' /\ SealsOK' /\ CallIsSession'
  BY <1>1, SealsStay DEF ReadingInv
<1>11. Reading' /\ Received' /\ Outcome'
  BY <1>1, NotReading DEF ReadingInv
<1> QED
  BY <1>9, <1>10, <1>11 DEF ReadingInv

LEMMA WritingRead ==
    ASSUME IInv, ReadingInv, IInv', WritePhoto \/ StopWriting
    PROVE  ReadingInv'
<1> DEFINE top == Len(sessions)
<1>1. /\ phase = "writing" /\ phase' \in {"idle", "writing"}
      /\ UNCHANGED <<sessions, sealed, reading>>
      /\ images' \in {images, <<>>}
  BY DEF WritePhoto, StopWriting
<1>2. /\ written + 1 \in DOMAIN images /\ written + 1 \in 1 .. Len(directory) + 1
      /\ IsSeq(directory) /\ Len(directory) \in Nat /\ DOMAIN directory = 1 .. Len(directory)
  <2>1. /\ IsSeq(images) /\ IsSeq(directory) /\ written \in Nat
        /\ written < Len(images) /\ written <= Len(directory)
    BY <1>1 DEF IInv, PhotosOK, IsAlbum
  <2>2. Len(images) \in Nat /\ DOMAIN images = 1 .. Len(images) /\ Len(directory) \in Nat
        /\ DOMAIN directory = 1 .. Len(directory)
    BY <2>1, LengthOf
  <2> QED
    BY <2>1, <2>2
<1>3. /\ ArePhotos(images, top, sessions, sealed)
      /\ ArePhotos(directory, top, sessions, sealed)
      /\ ArePhotos(picked, top, sessions, sealed)
  BY DEF ReadingInv, HoldsBytes
<1>4. ArePhotos(<<>>, top, sessions, sealed) /\ IsPhoto(Unreadable, top, sessions, sealed)
  BY EmptyPhoto DEF ArePhotos, IsSeq
<1>5. PICK image : /\ directory' = directory \/ directory' = Replaced(directory, written + 1, image)
                   /\ IsPhoto(image, top, sessions, sealed)
  <2>1. IsPhoto(images[written + 1], top, sessions, sealed)
    BY <1>2, <1>3 DEF ArePhotos
  <2> QED
    BY <1>4, <2>1 DEF WritePhoto, StopWriting
<1>6. ArePhotos(directory', top, sessions, sealed)
  <2>1. CASE directory' = directory
    BY <1>3, <2>1
  <2>2. CASE directory' = Replaced(directory, written + 1, image)
    <3> DEFINE m == IF written + 1 > Len(directory) THEN written + 1 ELSE Len(directory)
    <3>1. \A i \in 1 .. m : i = written + 1 \/ i \in DOMAIN directory
      BY <1>2
    <3>2. directory' = [i \in 1 .. m |-> IF i = written + 1 THEN image ELSE directory[i]]
      BY <2>2 DEF Replaced
    <3> HIDE DEF m
    <3>3. \A i \in DOMAIN directory' : IsPhoto(directory'[i], top, sessions, sealed)
      BY <1>3, <1>5, <3>1, <3>2 DEF ArePhotos
    <3>4. IsSeq(directory')
      BY DEF IInv, PhotosOK, IsAlbum
    <3> QED
      BY <3>3, <3>4 DEF ArePhotos
  <2> QED
    BY <1>5, <2>1, <2>2
<1>7. HoldsBytes'
  <2>1. ArePhotos(images', top, sessions, sealed)
    BY <1>1, <1>3, <1>4
  <2>2. picked' = picked /\ sessions' = sessions /\ sealed' = sealed
    BY <1>1 DEF reading
  <2> QED
    BY <1>3, <1>6, <2>1, <2>2 DEF HoldsBytes
<1>8. SessionsOK' /\ SealsOK' /\ CallIsSession'
  BY <1>1, SealsStay DEF ReadingInv
<1>9. Reading' /\ Received' /\ Outcome'
  BY <1>1, NotReading DEF ReadingInv
<1> QED
  BY <1>7, <1>8, <1>9 DEF ReadingInv

-----------------------------------------------------------------------------
(* The steps of reading back.                                              *)

\* What reading back leaves alone.
LEMMA ElsewhereRead ==
    ASSUME ReadingInv, UNCHANGED <<images, directory, sessions, sealed>>, phase' # "embedding",
           ArePhotos(picked', Len(sessions), sessions, sealed)
    PROVE  SessionsOK' /\ SealsOK' /\ CallIsSession' /\ HoldsBytes'
<1>1. SessionsOK' /\ SealsOK' /\ CallIsSession'
  BY SealsStay DEF ReadingInv
<1>2. HoldsBytes'
  BY DEF ReadingInv, HoldsBytes
<1> QED
  BY <1>1, <1>2

LEMMA PickedPhotos ==
    ASSUME ReadingInv
    PROVE  ArePhotos(picked, Len(sessions), sessions, sealed) /\ Len(sessions) \in Nat
           /\ IsSeq(picked) /\ Len(picked) \in Nat /\ DOMAIN picked = 1 .. Len(picked)
           /\ IsSeq(headers) /\ Len(headers) \in Nat /\ DOMAIN headers = 1 .. Len(headers)
           /\ Len(headers) <= Len(picked)
BY LengthOf DEF ReadingInv, HoldsBytes, ArePhotos, SessionsOK, Reading

\* A photo on its way: it is another photo, none of whose headers is read yet.
LEMMA AlteredRead ==
    ASSUME ReadingInv, NEW i \in DOMAIN picked, NEW image,
           IsPhoto(image, Len(sessions), sessions, sealed),
           phase = "picking", headers = <<>>, picked' = [picked EXCEPT ![i] = image],
           UNCHANGED <<phase, images, directory, sessions, sealed, headers, passphrase>>
    PROVE  ReadingInv'
<1>1. /\ ArePhotos(picked, Len(sessions), sessions, sealed)
      /\ IsSeq(picked) /\ Len(picked) \in Nat /\ DOMAIN picked = 1 .. Len(picked)
      /\ picked = [n \in 1 .. Len(picked) |-> picked[n]]
  BY PickedPhotos, LengthOf
<1>2. picked' = [n \in 1 .. Len(picked) |-> picked'[n]]
  BY <1>1
<1>3. IsSeq(picked') /\ Len(picked') = Len(picked)
  BY <1>1, <1>2, SeqOfFunction
<1>4. ArePhotos(picked', Len(sessions), sessions, sealed)
  BY <1>1, <1>3 DEF ArePhotos
<1>5. SessionsOK' /\ SealsOK' /\ CallIsSession' /\ HoldsBytes'
  BY <1>4, ElsewhereRead
<1>6. Reading'
  <2>1. IsSeq(<<>>) /\ Len(<<>>) = 0 /\ DOMAIN <<>> = {}
    BY DEF IsSeq
  <2>2. passphrase = "none"
    BY DEF ReadingInv, Reading
  <2>3. picked' # <<>>
    BY <1>1, <1>2
  <2> QED
    BY <1>1, <1>3, <2>1, <2>2, <2>3 DEF Reading
<1>7. Received' /\ Outcome'
  BY DEF Received, Started, Outcome
<1> QED
  BY <1>5, <1>6, <1>7 DEF ReadingInv

LEMMA DamageRead ==
    ASSUME ReadingInv, NEW i \in DOMAIN picked, NEW c \in DOMAIN picked[i], Damage(i, c)
    PROVE  ReadingInv'
<1> DEFINE image == [picked[i] EXCEPT ![c] = Noise]
<1>1. IsPhoto(image, Len(sessions), sessions, sealed)
  <2>1. IsPhoto(picked[i], Len(sessions), sessions, sealed) /\ Len(sessions) \in Nat
    BY PickedPhotos DEF ArePhotos
  <2> QED
    BY <2>1, DamagedPhoto
<1>2. picked' = [picked EXCEPT ![i] = image]
  BY DEF Damage
<1>3. phase = "picking" /\ headers = <<>>
      /\ UNCHANGED <<phase, images, directory, sessions, sealed, headers, passphrase>>
  BY DEF Damage, writing
<1> HIDE DEF image
<1> QED
  BY <1>1, <1>2, <1>3, AlteredRead

LEMMA CropRead ==
    ASSUME ReadingInv, NEW i \in DOMAIN picked, NEW len \in CropLengths, Crop(i, len)
    PROVE  ReadingInv'
<1> DEFINE image == SubSeq(picked[i], 1, len)
<1>1. IsPhoto(image, Len(sessions), sessions, sealed)
  <2>1. IsPhoto(picked[i], Len(sessions), sessions, sealed) /\ Len(sessions) \in Nat
    BY PickedPhotos DEF ArePhotos
  <2>2. len \in Nat /\ len < Len(picked[i])
    BY ConstantsAssumption DEF Crop
  <2> QED
    BY <2>1, <2>2, CroppedPhoto
<1>2. picked' = [picked EXCEPT ![i] = image]
  BY DEF Crop
<1>3. phase = "picking" /\ headers = <<>>
      /\ UNCHANGED <<phase, images, directory, sessions, sealed, headers, passphrase>>
  BY DEF Crop, writing
<1> HIDE DEF image
<1> QED
  BY <1>1, <1>2, <1>3, AlteredRead

LEMMA PickRead ==
    ASSUME ReadingInv, NEW i \in DOMAIN directory, Pick(i)
    PROVE  ReadingInv'
<1> DEFINE image == directory[i]
<1>1. /\ phase \in {"idle", "picking"} /\ headers = <<>> /\ picked' = Append(picked, image)
      /\ phase' \in {"picking", "opened"}
      /\ UNCHANGED <<images, directory, sessions, sealed, headers, passphrase>>
  BY DEF Pick, Return, writing
<1>2. passphrase = "none"
  BY <1>1 DEF ReadingInv, Reading
<1>3. /\ ArePhotos(picked, Len(sessions), sessions, sealed)
      /\ IsSeq(picked) /\ Len(picked) \in Nat /\ DOMAIN picked = 1 .. Len(picked)
  BY PickedPhotos
<1>4. IsPhoto(image, Len(sessions), sessions, sealed)
  BY DEF ReadingInv, HoldsBytes, ArePhotos
<1> HIDE DEF image
<1>5. /\ IsSeq(picked') /\ Len(picked') = Len(picked) + 1
      /\ \A n \in 1 .. Len(picked) : picked'[n] = picked[n]
      /\ picked'[Len(picked) + 1] = image
      /\ DOMAIN picked' = 1 .. Len(picked) + 1
  BY <1>1, <1>3, AppendSeq, LengthOf
<1>6. ArePhotos(picked', Len(sessions), sessions, sealed)
  <2> SUFFICES ASSUME NEW n \in 1 .. Len(picked) + 1
               PROVE  IsPhoto(picked'[n], Len(sessions), sessions, sealed)
    BY <1>5 DEF ArePhotos
  <2>1. n \in 1 .. Len(picked) \/ n = Len(picked) + 1
    BY <1>3
  <2> QED
    BY <1>3, <1>4, <1>5, <2>1 DEF ArePhotos
<1>7. SessionsOK' /\ SealsOK' /\ CallIsSession' /\ HoldsBytes'
  BY <1>1, <1>6, ElsewhereRead
<1>8. Reading'
  <2>1. IsSeq(<<>>) /\ Len(<<>>) = 0 /\ DOMAIN <<>> = {}
    BY DEF IsSeq
  <2>2. picked' # <<>>
    BY <1>3, <1>5
  <2> QED
    BY <1>1, <1>2, <1>3, <1>5, <2>1, <2>2 DEF Reading
<1>9. Received' /\ Outcome'
  BY <1>1, <1>2 DEF Received, Started, Outcome
<1> QED
  BY <1>7, <1>8, <1>9 DEF ReadingInv

LEMMA ReadHeadersRead ==
    ASSUME ReadingInv, ReadHeaders
    PROVE  ReadingInv'
<1>1. /\ phase = "picking" /\ Len(headers) < Len(picked) /\ phase' \in {"picking", "opened"}
      /\ UNCHANGED <<images, directory, sessions, sealed, picked, passphrase>>
  BY DEF ReadHeaders, Return, writing
<1>2. passphrase = "none" /\ picked # <<>>
  BY <1>1 DEF ReadingInv, Reading
<1>3. SessionsOK' /\ SealsOK' /\ CallIsSession' /\ HoldsBytes'
  BY <1>1, PickedPhotos, ElsewhereRead
<1>4. Received' /\ Outcome'
  BY <1>1, <1>2 DEF Received, Started, Outcome
<1>5. PICK header \in ReadHeader(picked[Len(headers) + 1]) :
         \/ phase' = "opened" /\ headers' = headers
         \/ header.error = "none" /\ headers' = Append(headers, header)
  BY DEF ReadHeaders, Return
<1>6. IsSeq(headers) /\ Len(headers) \in Nat /\ DOMAIN headers = 1 .. Len(headers)
      /\ Len(picked) \in Nat /\ Len(headers) <= Len(picked)
  BY PickedPhotos
<1>7. /\ IsSeq(headers') /\ Len(headers') <= Len(picked)
      /\ \A i \in DOMAIN headers' :
            headers'[i].error = "none" /\ headers'[i] \in ReadHeader(picked[i])
  <2>1. \A i \in DOMAIN headers : headers[i].error = "none" /\ headers[i] \in ReadHeader(picked[i])
    BY DEF ReadingInv, Reading
  <2>2. CASE headers' = headers
    BY <1>6, <2>1, <2>2
  <2>3. CASE header.error = "none" /\ headers' = Append(headers, header)
    <3>1. /\ IsSeq(headers') /\ Len(headers') = Len(headers) + 1
          /\ \A n \in 1 .. Len(headers) : headers'[n] = headers[n]
          /\ headers'[Len(headers) + 1] = header
          /\ DOMAIN headers' = 1 .. Len(headers) + 1
      BY <1>6, <2>3, AppendSeq, LengthOf
    <3>2. ASSUME NEW i \in DOMAIN headers'
          PROVE  headers'[i].error = "none" /\ headers'[i] \in ReadHeader(picked[i])
      <4>1. i \in 1 .. Len(headers) \/ i = Len(headers) + 1
        BY <1>6, <3>1
      <4> QED
        BY <1>5, <1>6, <2>1, <2>3, <3>1, <4>1
    <3> QED
      BY <1>1, <1>6, <3>1, <3>2
  <2> QED
    BY <1>5, <2>2, <2>3
<1>8. Reading'
  BY <1>1, <1>2, <1>7 DEF Reading
<1> QED
  BY <1>3, <1>4, <1>8 DEF ReadingInv

\* A header that was read is what is written there, or a guess at damage.
LEMMA HeaderRead ==
    ASSUME ReadingInv, NEW i \in DOMAIN headers
    PROVE  /\ i \in DOMAIN picked
           /\ Len(picked[i]) >= PLAINTEXT_HEADER_CHANNELS
           /\ headers[i].file_id \in FieldValues(picked[i], 3, Ids)
           /\ headers[i].symbol_index \in FieldValues(picked[i], 4, Indices)
           /\ headers[i].ciphertext_len \in FieldValues(picked[i], 5, CiphertextLens)
           /\ headers[i].ciphertext_len \in Nat
<1> DEFINE image == picked[i]
           h == headers[i]
<1>1. h \in ReadHeader(image) /\ h.error = "none" /\ i \in DOMAIN picked
      /\ IsPhoto(image, Len(sessions), sessions, sealed) /\ Len(sessions) \in Nat
      /\ Len(image) \in Nat /\ DOMAIN image = 1 .. Len(image)
  <2>1. h \in ReadHeader(image) /\ h.error = "none" /\ i \in DOMAIN picked
    BY PickedPhotos DEF ReadingInv, Reading
  <2>2. IsPhoto(image, Len(sessions), sessions, sealed) /\ Len(sessions) \in Nat
    BY <2>1, PickedPhotos DEF ArePhotos
  <2> HIDE DEF image, h
  <2> QED
    BY <2>1, <2>2, LengthOf DEF IsPhoto
<1> HIDE DEF image, h
<1>2. ~ (Len(image) < PLAINTEXT_HEADER_CHANNELS) /\ image[1] = HeaderCell("magic", 1)
  BY <1>1 DEF ReadHeader
<1>3. /\ h.file_id \in FieldValues(image, 3, Ids)
      /\ h.symbol_index \in FieldValues(image, 4, Indices)
      /\ h.ciphertext_len \in FieldValues(image, 5, CiphertextLens)
  <2>1. PICK id \in FieldValues(image, 3, Ids), index \in FieldValues(image, 4, Indices),
             len \in FieldValues(image, 5, CiphertextLens) :
           h = [error |-> "none", file_id |-> id, symbol_index |-> index, ciphertext_len |-> len]
    BY <1>1, <1>2 DEF ReadHeader
  <2> QED
    BY <2>1
<1>4. Len(image) >= PLAINTEXT_HEADER_CHANNELS
  BY <1>1, <1>2, HeaderIsFive
<1>5. \A k \in Nat \ {0} : ciphertext_bytes(k) \in Nat
  BY CiphertextCells
<1>6. h.ciphertext_len \in Nat
  <2>1. 5 \in DOMAIN image
    BY <1>1, <1>4, HeaderIsFive
  <2>2. CASE image[5] # Noise
    <3>1. PICK len \in {ciphertext_bytes(sessions[id].k) : id \in 1 .. Len(sessions)} :
             image[5] = HeaderCell("ciphertext_len", len)
      BY <1>1, <2>1, <2>2 DEF IsPhoto
    <3>2. PICK id \in 1 .. Len(sessions) : len = ciphertext_bytes(sessions[id].k)
      BY <3>1
    <3>3. sessions[id].k \in Nat \ {0}
      BY <3>2 DEF ReadingInv, SessionsOK, SessionOK
    <3>4. len \in Nat
      BY <1>5, <3>2, <3>3
    <3>5. image[5][1] = Fields[5] /\ image[5][2] = len
      BY <3>1 DEF HeaderCell, Fields
    <3> QED
      BY <1>3, <2>2, <3>4, <3>5 DEF FieldValues
  <2>3. CASE image[5] = Noise
    <3>1. h.ciphertext_len \in CiphertextLens
      BY <1>3, <2>3 DEF FieldValues
    <3>2. 1 \in Nat \ {0} /\ ZION_CODEC_MAX_K \in Nat \ {0}
      BY ConstantsAssumption
    <3>3. ciphertext_bytes(1) \in Nat /\ ciphertext_bytes(ZION_CODEC_MAX_K) \in Nat
      BY <1>5, <3>2
    <3>4. CiphertextLens \subseteq Nat
      BY <3>3 DEF CiphertextLens
    <3> QED
      BY <3>1, <3>4
  <2> QED
    BY <2>2, <2>3
<1> QED
  BY <1>1, <1>3, <1>4, <1>6 DEF image, h

LEMMA BeginOpenRead ==
    ASSUME ReadingInv, NEW pass \in Passphrases, BeginOpen(pass)
    PROVE  ReadingInv'
<1>1. /\ phase = "picking" /\ Len(headers) = Len(picked) /\ phase' \in {"opening", "opened"}
      /\ UNCHANGED <<images, directory, sessions, sealed, picked, headers>>
      /\ \/ phase' = "opened" /\ passphrase' = passphrase
         \/ /\ \A i \in DOMAIN headers : headers[i].file_id = headers[1].file_id
            /\ phase' = "opening" /\ received' = <<>>
  BY DEF BeginOpen, Return, writing
<1>2. passphrase = "none" /\ picked # <<>>
  BY <1>1 DEF ReadingInv, Reading
<1>3. SessionsOK' /\ SealsOK' /\ CallIsSession' /\ HoldsBytes'
  BY <1>1, PickedPhotos, ElsewhereRead
<1>4. Reading'
  BY <1>1 DEF ReadingInv, Reading
<1>5. Received'
  <2>1. IsSeq(<<>>) /\ Len(<<>>) = 0 /\ DOMAIN <<>> = {} /\ 0 <= Len(picked)
    BY PickedPhotos DEF IsSeq
  <2> QED
    BY <1>1, <1>2, <2>1 DEF Received, Started, FileId
<1>6. Outcome'
  BY <1>1, <1>2 DEF Outcome
<1> QED
  BY <1>3, <1>4, <1>5, <1>6 DEF ReadingInv

LEMMA OpensAsBefore ==
    ASSUME UNCHANGED <<picked, headers, passphrase, sessions>>, NEW n, NEW s
    PROVE  OpensAs(n, s)' <=> OpensAs(n, s)
<1>1. FileId' = FileId
  BY DEF FileId
<1>2. Where(n)' = Where(n)
  BY <1>1 DEF Where
<1>3. CellsAt(n)' = CellsAt(n)
  BY <1>2 DEF CellsAt
<1> QED
  BY <1>1, <1>2, <1>3 DEF OpensAs

LEMMA OpenImageRead ==
    ASSUME ReadingInv, OpenImage
    PROVE  ReadingInv'
<1> DEFINE n == Len(received) + 1
<1>1. /\ phase = "opening" /\ n <= Len(picked) /\ phase' \in {"opening", "opened"}
      /\ UNCHANGED <<images, directory, sessions, sealed, picked, headers, passphrase>>
  BY DEF OpenImage, Return, writing
<1>2. SessionsOK' /\ SealsOK' /\ CallIsSession' /\ HoldsBytes'
  BY <1>1, PickedPhotos, ElsewhereRead
<1>3. Reading'
  BY <1>1 DEF ReadingInv, Reading
<1>4. /\ picked # <<>> /\ Len(headers) = Len(picked)
      /\ \A i \in DOMAIN headers : headers[i].file_id = FileId
      /\ IsSeq(received) /\ Len(received) \in Nat /\ DOMAIN received = 1 .. Len(received)
      /\ Len(received) <= Len(picked) /\ Len(picked) \in Nat
      /\ \A i \in DOMAIN received : OpenedAs(i, received[i])
  BY <1>1, LengthOf, PickedPhotos DEF ReadingInv, Received, Started
<1>5. FileId' = FileId
  BY <1>1 DEF FileId
<1>6. \A i, s : OpensAs(i, s)' <=> OpensAs(i, s)
  BY <1>1, OpensAsBefore
<1>7. \A i, symbol : OpenedAs(i, symbol)' <=> OpenedAs(i, symbol)
  BY <1>1, <1>6 DEF OpenedAs
<1>8. \/ /\ ~ (headers[n].ciphertext_len <= Len(Where(n)))
         /\ phase' = "opened" /\ received' = received /\ result' = <<"InvalidStegoImage">>
      \/ /\ \A s \in sealed : ~ OpensAs(n, s)
         /\ phase' = "opened" /\ received' = received /\ result' = <<"AeadAuthFailed">>
      \/ /\ \E symbol : OpenedAs(n, symbol) /\ received' = Append(received, symbol)
         /\ phase' = phase
  <2> DEFINE master == derive_master_key(passphrase, FileId)
             symbols == Opened(master, derive_nonce(master, headers[n].symbol_index), CellsAt(n))
             len == headers[n].ciphertext_len
  <2>1. \/ len > Len(Where(n)) /\ Return(<<"InvalidStegoImage">>) /\ received' = received
        \/ len <= Len(Where(n)) /\ symbols = {} /\ Return(<<"AeadAuthFailed">>)
           /\ received' = received
        \/ /\ len <= Len(Where(n))
           /\ \E symbol \in symbols : received' = Append(received, symbol)
           /\ phase' = phase
    BY Zenon DEF OpenImage, Where, CellsAt, FileId
  <2>2. \A s \in sealed : OpensAs(n, s) => s.symbol \in symbols
    BY DEF Opened, OpensAs
  <2>3. ASSUME NEW symbol \in symbols, len <= Len(Where(n)) PROVE OpenedAs(n, symbol)
    <3>1. PICK s \in sealed :
             /\ s.key = master /\ s.nonce = derive_nonce(master, headers[n].symbol_index)
             /\ CellsAt(n) = Ciphertext(master, derive_nonce(master, headers[n].symbol_index),
                                        s.symbol, sessions[s.symbol.id].k)
             /\ symbol = s.symbol
      BY DEF Opened
    <3>2. OpensAs(n, s)
      BY <2>3, <3>1 DEF OpensAs
    <3> QED
      BY <3>1, <3>2 DEF OpenedAs
  <2>4. len > Len(Where(n)) => ~ (len <= Len(Where(n)))
    <3>1. n \in DOMAIN headers
      BY <1>1, <1>4, PickedPhotos
    <3>2. len \in Nat
      BY <3>1, HeaderRead
    <3>3. n \in DOMAIN picked
      BY <3>1, HeaderRead
    <3>4. Len(picked[n]) \in Nat
      BY <3>3, PickedPhotos, LengthOf DEF ArePhotos, IsPhoto
    <3>5. Len(Where(n)) \in Nat
      BY <3>4, PermutedShape, LengthOf DEF Where
    <3> HIDE DEF len, n
    <3> QED
      BY <3>2, <3>5
  <2> HIDE DEF symbols, len, n
  <2> QED
    BY <2>1, <2>2, <2>3, <2>4 DEF Return, len
<1>9. Received'
  <2>1. CASE received' = received
    BY <1>1, <1>4, <1>5, <1>7, <2>1 DEF Received
  <2>2. CASE \E symbol : OpenedAs(n, symbol) /\ received' = Append(received, symbol)
    <3>1. PICK symbol : OpenedAs(n, symbol) /\ received' = Append(received, symbol)
      BY <2>2
    <3>2. /\ IsSeq(received') /\ Len(received') = n
          /\ \A i \in 1 .. Len(received) : received'[i] = received[i]
          /\ received'[n] = symbol
          /\ DOMAIN received' = 1 .. n
      BY <1>4, <3>1, AppendSeq, LengthOf
    <3>3. ASSUME NEW i \in DOMAIN received' PROVE OpenedAs(i, received'[i])
      <4>1. i \in 1 .. Len(received) \/ i = n
        BY <1>4, <3>2
      <4> QED
        BY <1>4, <3>1, <3>2, <4>1
    <3> QED
      BY <1>1, <1>4, <1>5, <1>7, <3>2, <3>3 DEF Received
  <2> QED
    BY <1>8, <2>1, <2>2
<1>10. Outcome'
  <2>1. CASE phase' = phase
    BY <1>1, <2>1 DEF Outcome
  <2>2. CASE /\ received' = received
             /\ result' \in {<<"InvalidStegoImage">>, <<"AeadAuthFailed">>}
             /\ \A s \in sealed : ~ OpensAs(n, s)
    <3>1. Len(received) < Len(picked)
      BY <1>1, <1>4
    <3>2. result'[1] # "Ok"
      BY <2>2
    <3>3. n' = n
      BY <2>2
    <3>4. Where(n)' = Where(n)
      BY <1>1, <1>5, <3>3 DEF Where
    <3>5. CellsAt(n)' = CellsAt(n)
      BY <1>1, <3>3, <3>4 DEF CellsAt
    <3>6. ASSUME NEW s \in sealed PROVE ~ OpensAs(n, s)'
      <4>1. ~ OpensAs(n, s)
        BY <2>2
      <4> HIDE DEF n
      <4> QED
        BY <1>1, <1>5, <3>3, <3>4, <3>5, <4>1 DEF OpensAs
    <3>7. \A s \in sealed' : ~ OpensAs(n, s)'
      BY <1>1, <3>6
    <3> QED
      BY <1>1, <2>2, <3>1, <3>2, <3>7 DEF Outcome
  <2>3. \A s : OpensAs(n, s) => headers[n].ciphertext_len <= Len(Where(n))
    BY DEF OpensAs
  <2> QED
    BY <1>8, <2>1, <2>2, <2>3
<1> QED
  BY <1>2, <1>3, <1>9, <1>10 DEF ReadingInv

LEMMA FinalizeRead ==
    ASSUME ReadingInv, Finalize
    PROVE  ReadingInv'
<1>1. /\ phase = "opening" /\ phase' = "opened" /\ Len(received) = Len(picked)
      /\ UNCHANGED <<images, directory, sessions, sealed, picked, headers, passphrase, received>>
      /\ result' = IF {received[i].index : i \in DOMAIN received} = 0 .. (received[1].total - 1)
                   THEN <<"Ok", received[1].file>> ELSE <<"ReassemblyFailed">>
  BY Zenon DEF Finalize, Return, writing
<1>2. SessionsOK' /\ SealsOK' /\ CallIsSession' /\ HoldsBytes'
  BY <1>1, PickedPhotos, ElsewhereRead
<1>3. Reading'
  BY <1>1 DEF ReadingInv, Reading
<1>4. Received'
  <2>1. FileId' = FileId
    BY <1>1 DEF FileId
  <2>2. \A i, s : OpensAs(i, s)' <=> OpensAs(i, s)
    BY <1>1, OpensAsBefore
  <2>3. \A i, symbol : OpenedAs(i, symbol)' <=> OpenedAs(i, symbol)
    BY <1>1, <2>2 DEF OpenedAs
  <2>4. Started
    BY <1>1 DEF Started
  <2> QED
    BY <1>1, <2>1, <2>3, <2>4 DEF ReadingInv, Received
<1>5. Outcome'
  BY <1>1, Zenon DEF Outcome
<1> QED
  BY <1>2, <1>3, <1>4, <1>5 DEF ReadingInv

LEMMA StepRead == IInv /\ IInv' /\ ReadingInv /\ [Next]_vars => ReadingInv'
<1> SUFFICES ASSUME IInv, IInv', ReadingInv, [Next]_vars PROVE ReadingInv'
  OBVIOUS
<1>1. CASE Embed
  BY <1>1, BeginEmbedRead, EmbedIntoHostRead, AppendRemainingRead, WritingRead DEF Embed
<1>2. ASSUME NEW i \in DOMAIN picked, NEW c \in DOMAIN picked[i], Damage(i, c) PROVE ReadingInv'
  BY <1>2, DamageRead
<1>3. ASSUME NEW i \in DOMAIN picked, NEW len \in CropLengths, Crop(i, len) PROVE ReadingInv'
  BY <1>3, CropRead
<1>4. CASE Extract
  BY <1>4, PickRead, ReadHeadersRead, BeginOpenRead, OpenImageRead, FinalizeRead DEF Extract
<1>5. CASE UNCHANGED vars
  <2>1. /\ phase' = phase /\ result' = result /\ call' = call /\ images' = images
        /\ directory' = directory /\ sessions' = sessions /\ sealed' = sealed
        /\ picked' = picked /\ headers' = headers /\ passphrase' = passphrase
        /\ received' = received
    BY <1>5 DEF vars
  <2>2. SessionsOK' /\ CallIsSession' /\ SealsOK' /\ HoldsBytes' /\ Reading'
    BY <2>1 DEF ReadingInv, SessionsOK, CallIsSession, SealsOK, HoldsBytes, Reading
  <2>3. \A i, s : OpensAs(i, s)' <=> OpensAs(i, s)
    BY <2>1, OpensAsBefore
  <2>4. Received'
    BY <2>1, <2>3 DEF ReadingInv, Received, Started, FileId, OpenedAs
  <2>5. Outcome'
    <3>1. (Len(received) + 1)' = Len(received) + 1
      BY <2>1
    <3> DEFINE n == Len(received) + 1
               whole == {received[i].index : i \in DOMAIN received} = 0 .. (received[1].total - 1)
    <3>2. n' = n
      BY <2>1
    <3>3. ASSUME NEW s PROVE OpensAs(n, s)' <=> OpensAs(n, s)
      <4>1. FileId' = FileId
        BY <2>1 DEF FileId
      <4>2. Where(n)' = Where(n)
        BY <2>1, <3>2, <4>1 DEF Where
      <4>3. CellsAt(n)' = CellsAt(n)
        BY <2>1, <3>2, <4>2 DEF CellsAt
      <4> HIDE DEF n
      <4> QED
        BY <2>1, <3>2, <4>1, <4>2, <4>3 DEF OpensAs
    <3>4. whole' = whole
      BY <2>1
    <3> HIDE DEF whole
    <3>5. Outcome = (phase = "opened" /\ passphrase # "none" =>
            \/ /\ Len(received) = Len(picked)
               /\ result = IF whole THEN <<"Ok", received[1].file>> ELSE <<"ReassemblyFailed">>
            \/ /\ Len(received) < Len(picked)
               /\ result[1] # "Ok"
               /\ \A s \in sealed : ~ OpensAs(n, s))
      BY Zenon DEF Outcome, whole
    <3>6. Outcome' = (phase' = "opened" /\ passphrase' # "none" =>
            \/ /\ Len(received') = Len(picked')
               /\ result' = IF whole' THEN <<"Ok", received'[1].file>> ELSE <<"ReassemblyFailed">>
            \/ /\ Len(received') < Len(picked')
               /\ result'[1] # "Ok"
               /\ \A s \in sealed' : ~ OpensAs(n, s)')
      BY Zenon DEF Outcome, whole
    <3>7. Outcome
      BY DEF ReadingInv
    <3> HIDE DEF n
    <3> QED
      BY <2>1, <3>3, <3>4, <3>5, <3>6, <3>7
  <2> QED
    BY <2>2, <2>4, <2>5 DEF ReadingInv
<1> QED
  BY <1>1, <1>2, <1>3, <1>4, <1>5 DEF Next

-----------------------------------------------------------------------------
(* What the invariant says of a file that was read back.                   *)

\* A ciphertext that opens is the one of a symbol of this embedding, whole.
LEMMA OpensRight ==
    ASSUME ReadingInv, Started, NEW i \in DOMAIN picked, NEW s \in sealed, OpensAs(i, s)
    PROVE  /\ FileId \in 1 .. Len(sessions) /\ sessions[FileId].pass = passphrase
           /\ headers[i].symbol_index \in 0 .. sessions[FileId].total - 1
           /\ s.symbol = Symbol(sessions[FileId].file, FileId, headers[i].symbol_index,
                                sessions[FileId].total)
           /\ Carries(picked[i], FileId, headers[i].symbol_index)
<1> DEFINE image == picked[i]
           h == headers[i].symbol_index
           len == headers[i].ciphertext_len
           f == FileId
           where == Where(i)
           head == SubSeq(where, 1, len)
<1>1. PICK id \in 1 .. Len(sessions) : \E index \in 0 .. sessions[id].total - 1 :
         s = SealOf(sessions, id, index)
  BY DEF ReadingInv, SealsOK
<1>2. PICK index \in 0 .. sessions[id].total - 1 : s = SealOf(sessions, id, index)
  BY <1>1
<1> DEFINE made == sessions[id]
           master == derive_master_key(made.pass, id)
<1>3. /\ s.key = master /\ s.nonce = derive_nonce(master, index)
      /\ s.symbol = Symbol(made.file, id, index, made.total)
  BY <1>2 DEF SealOf
<1>4. /\ len <= Len(where)
      /\ s.key = derive_master_key(passphrase, f)
      /\ s.nonce = derive_nonce(derive_master_key(passphrase, f), h)
      /\ extract_bits_at(image, head)
            = Ciphertext(s.key, s.nonce, s.symbol, sessions[s.symbol.id].k)
  BY DEF OpensAs, CellsAt
<1>5. f = id /\ made.pass = passphrase
  BY <1>3, <1>4 DEF derive_master_key
<1>6. h = index
  BY <1>3, <1>4 DEF derive_nonce
<1>7. s.symbol.id = id
  BY <1>3 DEF Symbol
<1> DEFINE cells == Ciphertext(s.key, s.nonce, s.symbol, made.k)
<1>8. /\ ciphertext_bytes(made.k) \in Nat \ {0} /\ DOMAIN cells = 1 .. ciphertext_bytes(made.k)
      /\ Len(cells) = ciphertext_bytes(made.k)
  <2>1. made.k \in Nat \ {0}
    BY <1>1 DEF ReadingInv, SessionsOK, SessionOK
  <2> HIDE DEF made
  <2> QED
    BY <2>1, CiphertextCells
<1>9. i \in DOMAIN headers
  BY PickedPhotos DEF ReadingInv, Received
<1>10. len \in Nat
  BY <1>9, HeaderRead
<1>11. IsSeq(where) /\ Len(where) \in Nat /\ DOMAIN where = 1 .. Len(where)
  <2>1. Len(image) \in Nat
    BY PickedPhotos, LengthOf DEF ArePhotos, IsPhoto
  <2>2. IsSeq(where)
    BY <2>1, PermutedShape DEF Where
  <2> HIDE DEF where
  <2> QED
    BY <2>2, LengthOf
<1>12. where = permute_range(Len(image),
                  derive_permutation_seed(derive_master_key(made.pass, id), id, index))
  BY <1>5, <1>6 DEF Where
<1> HIDE DEF where, len, h, f, made, cells
<1>13. head = [p \in 1 .. len |-> where[p]]
  <2>1. where \in Seq(Range(where)) /\ 1 \in Int /\ len \in Int
        /\ \A p \in 1 .. len : where[p] \in Range(where)
    BY <1>4, <1>10, <1>11 DEF IsSeq, Range
  <2>2. head \in Seq(Range(where))
        /\ Len(head) = (IF 1 <= len THEN len - 1 + 1 ELSE 0)
        /\ \A p \in 1 .. len - 1 + 1 : head[p] = where[1 + p - 1]
    BY <2>1, SubSeqProperties
  <2> HIDE DEF head
  <2>3. head = [p \in 1 .. Len(head) |-> head[p]] /\ Len(head) = len
    BY <1>10, <2>2
  <2>4. \A p \in 1 .. len : head[p] = where[p]
    BY <1>10, <2>2
  <2> QED
    BY <2>3, <2>4
<1> HIDE DEF head
<1>14. extract_bits_at(image, head) = [p \in 1 .. len |-> image[where[p]]]
  BY <1>13 DEF extract_bits_at
<1>15. [p \in 1 .. len |-> image[where[p]]] = cells
  BY <1>4, <1>7, <1>14 DEF cells, made
<1>16. 1 .. len = 1 .. ciphertext_bytes(made.k)
  BY <1>8, <1>15
<1>17. len = ciphertext_bytes(made.k)
  <2> DEFINE L == ciphertext_bytes(made.k)
  <2>1. L \in Nat \ {0} /\ 1 .. len = 1 .. L
    BY <1>8, <1>16
  <2> HIDE DEF L
  <2>2. L \in 1 .. L /\ 1 \in 1 .. L
    BY <2>1
  <2>3. L \in 1 .. len /\ 1 \in 1 .. len
    BY <2>1, <2>2
  <2>4. len \in 1 .. len
    BY <1>10, <2>3
  <2>5. len \in 1 .. L
    BY <2>1, <2>4
  <2> QED
    BY <1>10, <2>1, <2>3, <2>5 DEF L
<1>18. Len(where) >= Len(cells) /\ \A p \in DOMAIN cells : image[where[p]] = cells[p]
  BY <1>4, <1>8, <1>10, <1>11, <1>15, <1>17
<1>19. Carries(image, id, index)
  BY <1>3, <1>12, <1>18 DEF Carries, cells, made
<1> QED
  BY <1>1, <1>2, <1>3, <1>5, <1>6, <1>19 DEF made, h, f

\* A photo that presents a symbol gives it back under its passphrase.
LEMMA PresentedOpens ==
    ASSUME ReadingInv, NEW i \in DOMAIN headers, NEW id \in 1 .. Len(sessions),
           NEW index \in 0 .. sessions[id].total - 1, passphrase = sessions[id].pass,
           Presents(picked[i], id, index)
    PROVE  /\ headers[i].file_id = id /\ headers[i].symbol_index = index
           /\ FileId = id => \E s \in sealed : OpensAs(i, s)
<1> DEFINE image == picked[i]
           made == sessions[id]
           one == SealOf(sessions, id, index)
           seed == derive_permutation_seed(derive_master_key(made.pass, id), id, index)
           where == permute_range(Len(image), seed)
           cells == Ciphertext(one.key, one.nonce, one.symbol, made.k)
           L == ciphertext_bytes(made.k)
<1>1. /\ IsPhoto(image, Len(sessions), sessions, sealed)
      /\ Len(image) \in Nat /\ DOMAIN image = 1 .. Len(image)
      /\ Len(image) >= 5
  <2>1. i \in DOMAIN picked /\ Len(image) >= PLAINTEXT_HEADER_CHANNELS
    BY HeaderRead
  <2> QED
    BY <2>1, PickedPhotos, LengthOf, HeaderIsFive DEF ArePhotos, IsPhoto
<1>2. /\ one.key = derive_master_key(made.pass, id)
      /\ one.nonce = derive_nonce(one.key, index)
      /\ one.symbol = Symbol(made.file, id, index, made.total)
  BY DEF SealOf
<1>3. /\ Len(where) >= Len(cells) /\ \A n \in DOMAIN cells : image[where[n]] = cells[n]
      /\ image[3] = HeaderCell("file_id", id)
      /\ image[4] # Noise /\ image[5] # Noise
  BY <1>2, HeaderIsFive DEF Presents, Carries
<1>4. made.k \in Nat \ {0} /\ made.pass \in Passphrases /\ index \in 0 .. MaxHosts
      /\ id \in 1 .. MaxSessions
  <2>1. SessionOK(made) /\ Len(sessions) <= MaxSessions /\ Len(sessions) \in Nat
    BY LengthOf DEF ReadingInv, SessionsOK
  <2>2. MaxHosts \in Nat /\ MaxSessions \in Nat /\ made.total \in 1 .. MaxHosts
    BY <2>1, ConstantsAssumption DEF SessionOK
  <2>3. index \in 0 .. MaxHosts
    BY <2>2
  <2>4. id \in 1 .. MaxSessions
    BY <2>1, <2>2
  <2> QED
    BY <2>1, <2>3, <2>4 DEF SessionOK
<1>5. /\ L \in Nat \ {0} /\ DOMAIN cells = 1 .. L /\ Len(cells) = L
      /\ \A n \in 1 .. L : cells[n] = CipherCell(one.key, one.nonce, one.symbol, n)
  <2> HIDE DEF made, one
  <2> QED
    BY <1>4, CiphertextCells
<1>6. IsSeq(where) /\ Len(where) = (IF Len(image) <= 5 THEN 0 ELSE Len(image) - 5)
  <2> HIDE DEF image, seed
  <2> QED
    BY <1>1, PermutedShape, HeaderIsFive
<1>7. \A p \in 1 .. Len(image) - 5 : where[p] \in 6 .. Len(image)
  <2>1. image # <<>>
    BY <1>1
  <2>2. PICK png \in Pngs : Len(image) <= 3 * png.pixels
    BY <1>1, <2>1 DEF IsPhoto
  <2> HIDE DEF image, made
  <2> QED
    BY <1>1, <1>4, <2>2, PermutedPlaces, HeaderIsFive
<1> HIDE DEF where, cells, L
<1>8. Len(image) > 5 /\ 1 \in 1 .. Len(image) - 5 /\ 1 \in 1 .. L
  BY <1>1, <1>3, <1>5, <1>6
<1> DEFINE b == where[1]
<1>9. b \in DOMAIN image /\ b > 5 /\ image[b] = CipherCell(one.key, one.nonce, one.symbol, 1)
  <2>1. b \in 6 .. Len(image)
    BY <1>7, <1>8
  <2>2. image[b] = cells[1] /\ cells[1] = CipherCell(one.key, one.nonce, one.symbol, 1)
    BY <1>3, <1>5, <1>8
  <2> HIDE DEF b, one, image
  <2> QED
    BY <1>1, <2>1, <2>2
<1> HIDE DEF b
<1>10. image[b] # Noise
  BY <1>9 DEF CipherCell, Noise
<1>11. IsByte(image, b, Len(sessions), sessions, sealed)
  BY <1>1, <1>9, <1>10, HeaderIsFive DEF IsPhoto
<1>12. PICK j \in 1 .. Len(sessions) : \E m \in 0 .. sessions[j].total - 1 :
          SealOf(sessions, j, m) \in sealed /\ IsByteOf(image, b, sessions, j, m)
  BY <1>11 DEF IsByte
<1>13. PICK m \in 0 .. sessions[j].total - 1 :
          SealOf(sessions, j, m) \in sealed /\ IsByteOf(image, b, sessions, j, m)
  BY <1>12
<1>14. PICK n : image[b] = CellOf(sessions, j, m, n)
  BY <1>13 DEF IsByteOf
<1>15. j = id /\ m = index
  <2> DEFINE other == SealOf(sessions, j, m)
  <2>1. other.key = one.key /\ other.nonce = one.nonce
    <3> HIDE DEF other, one
    <3>1. CipherCell(one.key, one.nonce, one.symbol, 1)
             = CipherCell(other.key, other.nonce, other.symbol, n)
      BY <1>9, <1>14 DEF CellOf, other
    <3> QED
      BY <3>1 DEF CipherCell
  <2>2. other.key = derive_master_key(sessions[j].pass, j)
        /\ other.nonce = derive_nonce(other.key, m)
    BY DEF SealOf
  <2> HIDE DEF other, one
  <2> QED
    BY <1>2, <2>1, <2>2 DEF derive_master_key, derive_nonce
<1>16. /\ one \in sealed
       /\ image[4] = HeaderCell("symbol_index", index)
       /\ image[5] = HeaderCell("ciphertext_len", L)
  BY <1>3, <1>13, <1>15 DEF IsByteOf, L
<1>17. headers[i].file_id = id
  <2>1. headers[i].file_id \in FieldValues(image, 3, Ids)
    BY HeaderRead
  <2>2. image[3] # Noise /\ image[3][1] = Fields[3] /\ image[3][2] = id
    BY <1>3 DEF HeaderCell, Noise, Fields
  <2> QED
    BY <2>1, <2>2 DEF FieldValues
<1>18. headers[i].symbol_index = index
  <2>1. headers[i].symbol_index \in FieldValues(image, 4, Indices)
    BY HeaderRead
  <2>2. image[4] # Noise /\ image[4][1] = Fields[4] /\ image[4][2] = index
    BY <1>3, <1>16 DEF HeaderCell, Fields
  <2> QED
    BY <2>1, <2>2 DEF FieldValues
<1>19. headers[i].ciphertext_len = L
  <2>1. headers[i].ciphertext_len \in FieldValues(image, 5, CiphertextLens)
    BY HeaderRead
  <2>2. image[5] # Noise /\ image[5][1] = Fields[5] /\ image[5][2] = L
    BY <1>3, <1>16 DEF HeaderCell, Fields
  <2> QED
    BY <2>1, <2>2 DEF FieldValues
<1>20. ASSUME FileId = id PROVE OpensAs(i, one)
  <2>1. Where(i) = where
    BY <1>18, <1>20 DEF Where, where
  <2>2. L <= Len(where)
    BY <1>1, <1>3, <1>5, <1>6, <1>8
  <2> DEFINE head == SubSeq(where, 1, L)
  <2>3. head = [p \in 1 .. L |-> where[p]]
    <3>1. where \in Seq(Range(where)) /\ 1 \in Int /\ L \in Int
          /\ \A p \in 1 .. L : where[p] \in Range(where)
      <4>1. DOMAIN where = 1 .. Len(where) /\ Len(where) \in Nat
        BY <1>6, LengthOf
      <4>2. where \in Seq(Range(where))
        BY <1>6 DEF IsSeq
      <4>3. L \in Nat
        BY <1>5
      <4>4. \A p \in 1 .. L : p \in DOMAIN where
        <5> HIDE DEF where, L
        <5> QED
          BY <2>2, <4>1, <4>3
      <4>5. \A p \in DOMAIN where : where[p] \in Range(where)
        <5> HIDE DEF where
        <5> QED
          BY DEF Range
      <4> QED
        BY <4>2, <4>3, <4>4, <4>5
    <3>2. head \in Seq(Range(where))
          /\ Len(head) = (IF 1 <= L THEN L - 1 + 1 ELSE 0)
          /\ \A p \in 1 .. L - 1 + 1 : head[p] = where[1 + p - 1]
      BY <3>1, SubSeqProperties
    <3> HIDE DEF head
    <3>3. head = [p \in 1 .. Len(head) |-> head[p]] /\ Len(head) = L
      BY <1>5, <3>2
    <3>4. \A p \in 1 .. L : head[p] = where[p]
      BY <1>5, <3>2
    <3> QED
      BY <3>3, <3>4
  <2> HIDE DEF head
  <2>4. extract_bits_at(image, head) = [p \in 1 .. L |-> image[where[p]]]
    BY <2>3 DEF extract_bits_at
  <2>5. [p \in 1 .. L |-> image[where[p]]] = cells
    <3>1. cells = [p \in 1 .. L |-> cells[p]]
      BY <1>5 DEF cells, Ciphertext, L
    <3> QED
      BY <1>3, <1>5, <3>1
  <2>6. CellsAt(i) = cells
    BY <1>19, <2>1, <2>4, <2>5 DEF CellsAt, head
  <2>7. one.symbol.id = id
    BY <1>2 DEF Symbol
  <2>8. Len(Where(i)) >= headers[i].ciphertext_len
    BY <1>5, <1>6, <1>19, <2>1, <2>2
  <2>9. cells = Ciphertext(one.key, one.nonce, one.symbol, sessions[one.symbol.id].k)
    BY <2>7 DEF cells
  <2>10. one.key = derive_master_key(passphrase, FileId)
         /\ one.nonce = derive_nonce(derive_master_key(passphrase, FileId), headers[i].symbol_index)
    BY <1>2, <1>18, <1>20
  <2>11. headers[i].ciphertext_len <= Len(Where(i))
    BY <1>19, <2>1, <2>2
  <2> HIDE DEF one
  <2> QED
    BY <2>6, <2>9, <2>10, <2>11 DEF OpensAs
<1> QED
  BY <1>16, <1>17, <1>18, <1>20

LEMMA SymbolFields ==
    ASSUME NEW file, NEW id, NEW index, NEW total
    PROVE  /\ Symbol(file, id, index, total).file = file
           /\ Symbol(file, id, index, total).index = index
           /\ Symbol(file, id, index, total).total = total
BY DEF Symbol

\* Every photo of an embedding and nothing else: the file is returned.
LEMMA WholeSetIsRead ==
    ASSUME ReadingInv, phase = "opened", passphrase # "none", NEW id \in DOMAIN sessions,
           WholeSet(id, Presents), passphrase = sessions[id].pass
    PROVE  result = <<"Ok", sessions[id].file>>
<1> DEFINE total == sessions[id].total
<1>1. /\ Started /\ picked # <<>> /\ Len(headers) = Len(picked)
      /\ IsSeq(received) /\ Len(received) \in Nat /\ DOMAIN received = 1 .. Len(received)
      /\ \A i \in DOMAIN received : OpenedAs(i, received[i])
      /\ DOMAIN headers = DOMAIN picked /\ DOMAIN picked = 1 .. Len(picked) /\ Len(picked) \in Nat
  BY PickedPhotos, LengthOf DEF ReadingInv, Received, Started
<1>2. id \in 1 .. Len(sessions) /\ total \in 1 .. MaxHosts /\ MaxHosts \in Nat
  <2>1. id \in 1 .. Len(sessions)
    BY LengthOf DEF ReadingInv, SessionsOK
  <2> QED
    BY <2>1, ConstantsAssumption DEF ReadingInv, SessionsOK, SessionOK
<1>3. PICK index \in [DOMAIN picked -> 0 .. (total - 1)] :
         /\ \A n \in 0 .. (total - 1) : \E i \in DOMAIN picked : index[i] = n
         /\ \A i \in DOMAIN picked : Presents(picked[i], id, index[i])
  BY Zenon DEF WholeSet
<1>4. ASSUME NEW i \in DOMAIN picked
      PROVE  /\ headers[i].file_id = id /\ headers[i].symbol_index = index[i]
             /\ FileId = id => \E s \in sealed : OpensAs(i, s)
  <2>1. index[i] \in 0 .. total - 1 /\ Presents(picked[i], id, index[i])
    BY <1>3
  <2>2. i \in DOMAIN headers
    BY <1>1
  <2> QED
    BY <1>2, <2>1, <2>2, PresentedOpens
<1>5. 1 \in DOMAIN picked
  <2>1. Len(picked) # 0
    BY <1>1, PickedPhotos DEF IsSeq
  <2> QED
    BY <1>1, <2>1
<1>6. FileId = id
  BY <1>4, <1>5 DEF FileId
<1>7. Len(received) = Len(picked)
      /\ result = IF {received[i].index : i \in DOMAIN received} = 0 .. (received[1].total - 1)
                  THEN <<"Ok", received[1].file>> ELSE <<"ReassemblyFailed">>
  <2>1. ASSUME Len(received) < Len(picked), \A s \in sealed : ~ OpensAs(Len(received) + 1, s)
        PROVE  FALSE
    <3>1. Len(received) + 1 \in DOMAIN picked
      BY <1>1, <2>1
    <3> QED
      BY <1>4, <1>6, <2>1, <3>1
  <2> QED
    BY <2>1, Zenon DEF ReadingInv, Outcome
<1>8. ASSUME NEW i \in DOMAIN picked
      PROVE  received[i] = Symbol(sessions[id].file, id, index[i], total)
  <2>1. PICK s \in sealed : OpensAs(i, s) /\ received[i] = s.symbol
    BY <1>1, <1>7 DEF OpenedAs
  <2> QED
    BY <1>1, <1>4, <1>6, <2>1, OpensRight
<1>9. \A i \in DOMAIN picked :
         received[i].index = index[i] /\ received[i].total = total
         /\ received[i].file = sessions[id].file
  BY <1>8, SymbolFields
<1>10. {received[i].index : i \in DOMAIN received} = 0 .. (total - 1)
  <2>1. DOMAIN received = DOMAIN picked
    BY <1>1, <1>7
  <2> HIDE DEF total
  <2> QED
    BY <1>3, <1>9, <2>1
<1> QED
  BY <1>5, <1>7, <1>9, <1>10

\* A file is returned: the photos carry all of one embedding.
LEMMA ReadIsWhole ==
    ASSUME ReadingInv, phase = "opened", passphrase # "none", result[1] = "Ok"
    PROVE  \E id \in DOMAIN sessions :
              /\ result[2] = sessions[id].file
              /\ WholeSet(id, Carries) /\ passphrase = sessions[id].pass
<1>1. /\ Started /\ picked # <<>> /\ Len(headers) = Len(picked)
      /\ IsSeq(received) /\ Len(received) \in Nat /\ DOMAIN received = 1 .. Len(received)
      /\ \A i \in DOMAIN received : OpenedAs(i, received[i])
      /\ DOMAIN headers = DOMAIN picked /\ DOMAIN picked = 1 .. Len(picked) /\ Len(picked) \in Nat
  BY PickedPhotos, LengthOf DEF ReadingInv, Received, Started
<1> DEFINE whole == {received[i].index : i \in DOMAIN received} = 0 .. (received[1].total - 1)
           f == FileId
<1>2. Len(received) = Len(picked) /\ whole /\ result = <<"Ok", received[1].file>>
  <2>1. Len(received) = Len(picked)
        /\ result = IF whole THEN <<"Ok", received[1].file>> ELSE <<"ReassemblyFailed">>
    BY Zenon DEF ReadingInv, Outcome
  <2> HIDE DEF whole
  <2> QED
    BY <2>1
<1>3. 1 \in DOMAIN picked /\ DOMAIN received = DOMAIN picked
  <2>1. Len(picked) # 0
    BY <1>1, PickedPhotos DEF IsSeq
  <2> QED
    BY <1>1, <1>2, <2>1
<1>4. ASSUME NEW i \in DOMAIN picked
      PROVE  /\ f \in 1 .. Len(sessions) /\ sessions[f].pass = passphrase
             /\ headers[i].symbol_index \in 0 .. sessions[f].total - 1
             /\ received[i] = Symbol(sessions[f].file, f, headers[i].symbol_index,
                                     sessions[f].total)
             /\ Carries(picked[i], f, headers[i].symbol_index)
  <2>1. PICK s \in sealed : OpensAs(i, s) /\ received[i] = s.symbol
    BY <1>1, <1>3 DEF OpenedAs
  <2> QED
    BY <1>1, <2>1, OpensRight
<1> HIDE DEF f
<1>5. \A i \in DOMAIN picked :
         received[i].index = headers[i].symbol_index /\ received[i].total = sessions[f].total
         /\ received[i].file = sessions[f].file
  BY <1>4, SymbolFields
<1>6. f \in DOMAIN sessions /\ sessions[f].pass = passphrase
  BY <1>3, <1>4, LengthOf DEF ReadingInv, SessionsOK
<1> DEFINE total == sessions[f].total
           index == [i \in DOMAIN picked |-> headers[i].symbol_index]
<1>7. index \in [DOMAIN picked -> 0 .. (total - 1)]
  BY <1>4
<1>8. \A n \in 0 .. (total - 1) : \E i \in DOMAIN picked : index[i] = n
  <2>1. received[1].total = total
    BY <1>3, <1>5
  <2>2. {received[i].index : i \in DOMAIN received} = 0 .. (total - 1)
    BY <1>2, <2>1
  <2> HIDE DEF total
  <2> QED
    BY <1>3, <1>5, <2>2
<1>9. \A i \in DOMAIN picked : Carries(picked[i], f, index[i])
  BY <1>4
<1>10. WholeSet(f, Carries)
  <2> HIDE DEF index
  <2> QED
    BY <1>7, <1>8, <1>9, Zenon DEF WholeSet
<1>11. result[2] = sessions[f].file
  BY <1>2, <1>3, <1>5
<1> QED
  BY <1>6, <1>10, <1>11

LEMMA ReadsBackFrom == ReadingInv => ReadsBack
<1> SUFFICES ASSUME ReadingInv, phase = "opened", passphrase # "none"
             PROVE  /\ \A id \in DOMAIN sessions :
                          WholeSet(id, Presents) /\ passphrase = sessions[id].pass
                             => result = <<"Ok", sessions[id].file>>
                    /\ result[1] = "Ok" =>
                          \E id \in DOMAIN sessions :
                             /\ result[2] = sessions[id].file
                             /\ WholeSet(id, Carries) /\ passphrase = sessions[id].pass
  BY Zenon DEF ReadsBack
<1>1. ASSUME NEW id \in DOMAIN sessions, WholeSet(id, Presents), passphrase = sessions[id].pass
      PROVE  result = <<"Ok", sessions[id].file>>
  BY <1>1, WholeSetIsRead, Zenon
<1>2. ASSUME result[1] = "Ok"
      PROVE  \E id \in DOMAIN sessions :
                /\ result[2] = sessions[id].file
                /\ WholeSet(id, Carries) /\ passphrase = sessions[id].pass
  BY <1>2, ReadIsWhole, Zenon
<1> QED
  BY <1>1, <1>2, Zenon

\* For any photos, in any order, damaged and cropped as they may be, under any
\* passphrase and generator: the photos of one embedding give its file back, and a
\* file is returned only if they carry all of it (extract.rs).
THEOREM ReadsWhatWasEmbedded == Spec => []ReadsBack
<1>1. Init => IInv /\ ReadingInv
  BY InitInv, InitRead
<1>2. IInv /\ ReadingInv /\ [Next]_vars => (IInv /\ ReadingInv)'
  BY StepInv, StepRead
<1>3. IInv /\ ReadingInv => ReadsBack
  BY ReadsBackFrom
<1> QED
  BY <1>1, <1>2, <1>3, PTL DEF Spec
=============================================================================

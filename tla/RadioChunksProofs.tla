--------------------------- MODULE RadioChunksProofs ---------------------------
(***************************************************************************)
(* Proofs about chunks, for any CHUNK_SIZE and MAX_CHUNKS_IN_QUEUE: how    *)
(* often splitChunk doubles the size of a piece, that the pieces are the   *)
(* chunk and follow one another, and what appendToPendings leaves alone.   *)
(***************************************************************************)
EXTENDS RadioChunks, SequenceTheorems, WellFoundedInduction, TLAPS

\* Induction over the natural numbers, for a set.
LEMMA NatSetInduction ==
  ASSUME NEW S, 0 \in S, \A n \in Nat : n \in S => n + 1 \in S
  PROVE  \A n \in Nat : n \in S
<1> DEFINE R == OpToRel(<, Nat)
           T == Nat \ S
<1>1. IsWellFoundedOn(R, Nat)
  BY NatLessThanWellFounded
<1>2. \A x, y \in Nat : x < y => <<x, y>> \in R
  BY DEF OpToRel
<1> HIDE DEF R
<1>3. SUFFICES ASSUME T # {} PROVE FALSE
  OBVIOUS
<1>4. PICK x \in T : \A y \in T : ~ (<<y, x>> \in R)
  <2> HIDE DEF T
  <2>1. T \subseteq Nat
    BY DEF T
  <2> QED BY <1>1, <1>3, <2>1, WFMin
<1>5. x \in Nat /\ x # 0
  BY <1>4
<1>6. x - 1 \in Nat /\ x - 1 < x /\ (x - 1) + 1 = x
  BY <1>5
<1>7. x - 1 \in T
  BY <1>4, <1>6
<1> QED BY <1>2, <1>4, <1>5, <1>6, <1>7

\* Division with a remainder.
LEMMA DivMod ==
  ASSUME NEW a \in Nat, NEW b \in Nat \ {0}
  PROVE  /\ a \div b \in Nat /\ a % b \in Nat /\ a % b < b
         /\ a = b * (a \div b) + (a % b)
BY SMT

LEMMA DivOfLess ==
  ASSUME NEW a \in Nat, NEW b \in Nat \ {0}, a < b
  PROVE  a \div b = 0
BY SMT

-----------------------------------------------------------------------------
(* The size of the pieces.                                                 *)

\* A turn of splitChunk's loop.
Turn(length, size) == IF length \div size > MAX_CHUNKS_IN_QUEUE THEN size * 2 ELSE size

\* The sizes after 0, 1, ... n turns.
Grows(g, length, n) ==
  g = [k \in 0 .. n |-> IF k = 0 THEN CHUNK_SIZE ELSE Turn(length, g[k - 1])]

LEMMA TurnType ==
  ASSUME NEW length \in Nat, NEW size \in Nat \ {0}
  PROVE  Turn(length, size) \in Nat \ {0} /\ Turn(length, size) >= size
BY DEF Turn

\* There are such sizes, however many turns.
LEMMA GrowsExists ==
  ASSUME NEW length \in Nat, NEW n \in Nat
  PROVE  \E g \in [0 .. n -> Nat \ {0}] : Grows(g, length, n)
<1> DEFINE S == {m \in Nat : \E g \in [0 .. m -> Nat \ {0}] : Grows(g, length, m)}
<1>1. 0 \in S
  <2> DEFINE g == [k \in 0 .. 0 |-> CHUNK_SIZE]
  <2>1. g \in [0 .. 0 -> Nat \ {0}]
    BY RadioChunksAssumption
  <2>2. Grows(g, length, 0)
    BY DEF Grows
  <2> QED BY <2>1, <2>2
<1>2. ASSUME NEW m \in Nat, m \in S PROVE m + 1 \in S
  <2>1. PICK g \in [0 .. m -> Nat \ {0}] : Grows(g, length, m)
    BY <1>2
  <2> DEFINE h == [k \in 0 .. m + 1 |-> IF k = m + 1 THEN Turn(length, g[m]) ELSE g[k]]
  <2>2. h \in [0 .. m + 1 -> Nat \ {0}]
    <3>1. g[m] \in Nat \ {0} /\ \A k \in 0 .. m + 1 : k # m + 1 => k \in 0 .. m
      BY <2>1
    <3> QED BY <2>1, <3>1, TurnType
  <2>3. \A k \in 0 .. m + 1 : h[k] = IF k = 0 THEN CHUNK_SIZE ELSE Turn(length, h[k - 1])
    <3> SUFFICES ASSUME NEW k \in 0 .. m + 1
                 PROVE  h[k] = IF k = 0 THEN CHUNK_SIZE ELSE Turn(length, h[k - 1])
      OBVIOUS
    <3>1. CASE k = m + 1
      BY <3>1
    <3>2. CASE k \in 0 .. m
      <4>1. g[k] = IF k = 0 THEN CHUNK_SIZE ELSE Turn(length, g[k - 1])
        BY <2>1, <3>2 DEF Grows
      <4>2. k # m + 1 /\ (k # 0 => k - 1 \in 0 .. m + 1 /\ k - 1 # m + 1)
        BY <3>2
      <4> QED BY <4>1, <4>2
    <3> QED BY <3>1, <3>2
  <2> HIDE DEF h
  <2>4. Grows(h, length, m + 1)
    BY <2>2, <2>3 DEF Grows
  <2>5. \E f \in [0 .. m + 1 -> Nat \ {0}] : Grows(f, length, m + 1)
    BY <2>2, <2>4
  <2> QED BY <2>5
<1> HIDE DEF S
<1>3. n \in S
  BY <1>1, <1>2, NatSetInduction
<1> QED BY <1>3 DEF S

\* RealChunkSize is the size after as many turns as the chunk is long.
LEMMA RealChunkSizeGrows ==
  ASSUME NEW length \in Nat
  PROVE  \E g \in [0 .. length -> Nat \ {0}] :
           Grows(g, length, length) /\ RealChunkSize(length) = g[length]
<1> DEFINE Grown(g) == g = [k \in 0 .. length |->
                              IF k = 0 THEN CHUNK_SIZE
                              ELSE LET size == g[k - 1] IN
                                     IF length \div size > MAX_CHUNKS_IN_QUEUE THEN size * 2 ELSE size]
<1>1. \A g : Grown(g) <=> Grows(g, length, length)
  BY DEF Grows, Turn
<1>2. RealChunkSize(length) = (CHOOSE g : Grown(g))[length]
  BY DEF RealChunkSize
<1>3. PICK made \in [0 .. length -> Nat \ {0}] : Grows(made, length, length)
  BY GrowsExists
<1> HIDE DEF Grown
<1>4. Grown(CHOOSE g : Grown(g))
  BY <1>1, <1>3
<1>5. PICK c : c = CHOOSE g : Grown(g)
  OBVIOUS
<1>6. Grows(c, length, length) /\ RealChunkSize(length) = c[length]
  BY <1>1, <1>2, <1>4, <1>5
<1>7. \A k \in 0 .. length : c[k] = made[k]
  <2> DEFINE S == {k \in Nat : k <= length => c[k] = made[k]}
  <2>1. 0 \in S
    BY <1>3, <1>6 DEF Grows
  <2>2. ASSUME NEW k \in Nat, k \in S PROVE k + 1 \in S
    <3> SUFFICES ASSUME k + 1 <= length PROVE c[k + 1] = made[k + 1]
      OBVIOUS
    <3>1. c[k] = made[k] /\ k + 1 \in 0 .. length /\ k + 1 # 0 /\ (k + 1) - 1 = k
      BY <2>2
    <3>2. c[k + 1] = Turn(length, c[k]) /\ made[k + 1] = Turn(length, made[k])
      BY <1>3, <1>6, <3>1 DEF Grows
    <3> QED BY <3>1, <3>2
  <2> HIDE DEF S
  <2>3. \A k \in Nat : k \in S
    BY <2>1, <2>2, NatSetInduction
  <2> QED BY <2>3 DEF S
<1>8. RealChunkSize(length) = made[length]
  BY <1>6, <1>7
<1> QED BY <1>3, <1>8

\* The loop ends, with a size of which the chunk has no more full pieces than
\* the queue is meant to hold.
THEOREM RealChunkSizeFits ==
  ASSUME NEW length \in Nat
  PROVE  /\ RealChunkSize(length) \in Nat \ {0}
         /\ length \div RealChunkSize(length) <= MAX_CHUNKS_IN_QUEUE
<1>1. PICK g \in [0 .. length -> Nat \ {0}] :
        Grows(g, length, length) /\ RealChunkSize(length) = g[length]
  BY RealChunkSizeGrows
<1> DEFINE Enough(k) == length \div g[k] <= MAX_CHUNKS_IN_QUEUE
           S == {k \in Nat : k <= length => g[k] > k \/ Enough(k)}
<1>2. 0 \in S
  <2>1. g[0] \in Nat \ {0}
    BY <1>1
  <2> QED BY <2>1
<1>3. ASSUME NEW k \in Nat, k \in S PROVE k + 1 \in S
  <2> SUFFICES ASSUME k + 1 <= length PROVE g[k + 1] > k + 1 \/ Enough(k + 1)
    OBVIOUS
  <2>1. /\ g[k] > k \/ Enough(k)
        /\ k \in 0 .. length /\ k + 1 \in 0 .. length /\ k + 1 # 0 /\ (k + 1) - 1 = k
        /\ g[k] \in Nat \ {0}
    BY <1>1, <1>3
  <2>2. g[k + 1] = Turn(length, g[k])
    BY <1>1, <2>1 DEF Grows
  <2>3. CASE Enough(k)
    <3>1. length \div g[k] \in Nat
      BY <2>1, DivMod
    <3>2. g[k + 1] = g[k]
      BY <2>2, <2>3, <3>1, RadioChunksAssumption DEF Turn
    <3> QED BY <2>3, <3>2
  <2>4. CASE ~Enough(k)
    <3>1. length \div g[k] \in Nat
      BY <2>1, DivMod
    <3>2. g[k + 1] = g[k] * 2
      BY <2>2, <2>4, <3>1, RadioChunksAssumption DEF Turn
    <3> QED BY <2>1, <2>4, <3>2
  <2> QED BY <2>3, <2>4
<1> HIDE DEF S
<1>4. length \in S
  BY <1>2, <1>3, NatSetInduction
<1>5. g[length] > length \/ Enough(length)
  BY <1>4 DEF S
<1>6. g[length] \in Nat \ {0}
  BY <1>1
<1>7. CASE g[length] > length
  <2>1. length \div g[length] = 0
    BY <1>6, <1>7, DivOfLess
  <2> QED BY <1>1, <1>6, <2>1, RadioChunksAssumption
<1> QED BY <1>1, <1>5, <1>6, <1>7

-----------------------------------------------------------------------------
(* The pieces.                                                             *)

FileChunks == [kind : {"file"}, start : Nat, length : Nat \ {0}]

\* The chunks of list are, one after the other, the bytes behind from up to to.
Follows(list, from, to) ==
  /\ list \in Seq(FileChunks)
  /\ list = << >> => from = to
  /\ list # << >> => /\ list[1].start = from
                     /\ list[Len(list)].start + list[Len(list)].length = to
  /\ \A i \in 1 .. Len(list) - 1 : list[i + 1].start = list[i].start + list[i].length

\* A multiple and the next one.
LEMMA NextMultiple ==
  ASSUME NEW b \in Nat, NEW q \in Nat
  PROVE  b * q \in Nat /\ b * (q + 1) = b * q + b /\ q * b = b * q
BY SMT

\* Pieces of any size are the chunk, cut; there is one more than the full ones
\* at most.
LEMMA PiecesFollow ==
  ASSUME NEW from \in Nat, NEW length \in Nat, NEW size \in Nat \ {0}
  PROVE  /\ Follows(Pieces(FileChunk(from, length), size), from, from + length)
         /\ Len(Pieces(FileChunk(from, length), size)) <= length \div size + 1
<1> DEFINE full == length \div size
           rest == length % size
           n == IF rest > 0 THEN full + 1 ELSE full
           P == Pieces(FileChunk(from, length), size)
<1>1. full \in Nat /\ rest \in Nat /\ rest < size /\ length = size * full + rest
  BY DivMod
<1>2. P = [i \in 1 .. n |-> FileChunk(from + (i - 1) * size, IF i <= full THEN size ELSE rest)]
  BY DEF Pieces, FileChunk
<1> HIDE DEF full, rest, P
<1>3. n \in Nat /\ n <= full + 1 /\ \A i \in 1 .. n : i > full => rest > 0 /\ i = full + 1
  BY <1>1
<1> HIDE DEF n
<1>4. ASSUME NEW i \in 1 .. n
      PROVE  /\ P[i] \in FileChunks
             /\ P[i].start = from + size * (i - 1)
             /\ P[i].length = IF i <= full THEN size ELSE rest
  <2>1. i - 1 \in Nat
    BY <1>3
  <2>2. (i - 1) * size = size * (i - 1) /\ size * (i - 1) \in Nat
    BY <2>1, NextMultiple
  <2>3. P[i] = FileChunk(from + size * (i - 1), IF i <= full THEN size ELSE rest)
    BY <1>2, <2>2
  <2>4. (IF i <= full THEN size ELSE rest) \in Nat \ {0}
    BY <1>1, <1>3
  <2> HIDE DEF FileChunks
  <2>5. from + size * (i - 1) \in Nat
    BY <2>2
  <2> QED BY <2>3, <2>4, <2>5 DEF FileChunk, FileChunks
<1>5. P \in Seq(FileChunks) /\ Len(P) = n
  <2>1. P = [i \in 1 .. n |-> P[i]]
    BY <1>2
  <2>2. \A i \in 1 .. n : P[i] \in FileChunks
    BY <1>4
  <2> HIDE DEF FileChunks
  <2> QED BY <1>3, <2>1, <2>2, IsASeq
<1>6. \A i \in 1 .. n : i <= full => P[i].start + P[i].length = from + size * i
  <2> SUFFICES ASSUME NEW i \in 1 .. n, i <= full
               PROVE  P[i].start + P[i].length = from + size * i
    OBVIOUS
  <2>1. PICK q \in Nat : q = i - 1
    BY <1>3
  <2>2. size * (q + 1) = size * q + size /\ size * q \in Nat /\ q + 1 = i
    BY <1>3, <2>1, NextMultiple
  <2>3. P[i].start = from + size * q /\ P[i].length = size
    BY <1>4, <2>1
  <2> QED BY <2>2, <2>3
<1>7. \A i \in 1 .. n - 1 : P[i + 1].start = P[i].start + P[i].length
  <2> SUFFICES ASSUME NEW i \in 1 .. n - 1 PROVE P[i + 1].start = P[i].start + P[i].length
    OBVIOUS
  <2>1. i \in 1 .. n /\ i + 1 \in 1 .. n /\ i <= full /\ (i + 1) - 1 = i
    BY <1>1, <1>3
  <2> QED BY <1>4, <1>6, <2>1
<1>8. n = 0 => length = 0
  <2> SUFFICES ASSUME n = 0 PROVE length = 0
    OBVIOUS
  <2>1. full = 0 /\ rest = 0
    BY <1>1, <1>8 DEF n
  <2>2. size * 0 = 0
    OBVIOUS
  <2> QED BY <1>1, <2>1, <2>2
<1>9. n # 0 => P[1].start = from /\ P[n].start + P[n].length = from + length
  <2> SUFFICES ASSUME n # 0 PROVE P[1].start = from /\ P[n].start + P[n].length = from + length
    OBVIOUS
  <2>1. 1 \in 1 .. n /\ n \in 1 .. n /\ size * (1 - 1) = 0
    BY <1>3
  <2>2. P[1].start = from
    BY <1>4, <2>1
  <2>3. CASE n <= full
    <3>1. n = full /\ rest = 0
      BY <1>1, <1>3, <2>3 DEF n
    <3>2. P[n].start + P[n].length = from + size * full
      BY <1>6, <2>1, <3>1
    <3> QED BY <1>1, <2>2, <3>1, <3>2
  <2>4. CASE ~(n <= full)
    <3>1. n - 1 = full
      BY <1>1, <1>3, <2>1, <2>4
    <3>2. P[n].start = from + size * full /\ P[n].length = rest
      BY <1>4, <2>1, <2>4, <3>1
    <3>3. size * full \in Nat
      BY <1>1, NextMultiple
    <3> QED BY <1>1, <2>2, <3>2, <3>3
  <2> QED BY <2>3, <2>4
<1>10. Follows(P, from, from + length)
  <2>1. P = << >> <=> n = 0
    BY <1>3, <1>5, EmptySeq
  <2> HIDE DEF FileChunks
  <2> QED BY <1>5, <1>7, <1>8, <1>9, <2>1 DEF Follows
<1> QED BY <1>3, <1>5, <1>10 DEF full, P

\* splitChunk cuts the chunk into no more pieces than the queue is meant to
\* hold, and a remainder.
THEOREM SplitFollows ==
  ASSUME NEW from \in Nat, NEW length \in Nat
  PROVE  /\ Follows(splitChunk(FileChunk(from, length)), from, from + length)
         /\ Len(splitChunk(FileChunk(from, length))) <= MAX_CHUNKS_IN_QUEUE + 1
<1>1. PICK size \in Nat \ {0} : size = RealChunkSize(length)
  BY RealChunkSizeFits
<1>2. splitChunk(FileChunk(from, length)) = Pieces(FileChunk(from, length), size)
  BY <1>1 DEF splitChunk, FileChunk
<1>3. length \div size \in Nat /\ length \div size <= MAX_CHUNKS_IN_QUEUE
  BY <1>1, RealChunkSizeFits, DivMod
<1> DEFINE P == Pieces(FileChunk(from, length), size)
<1>4. Follows(P, from, from + length) /\ Len(P) <= length \div size + 1
  BY PiecesFollow
<1> HIDE DEF P
<1>5. Len(P) \in Nat
  BY <1>4, LenProperties DEF Follows
<1>6. Len(P) <= MAX_CHUNKS_IN_QUEUE + 1
  BY <1>3, <1>4, <1>5, RadioChunksAssumption
<1> QED BY <1>2, <1>4, <1>6 DEF P

\* Every byte of what the pieces cut is in one of them.
LEMMA FollowsCovers ==
  ASSUME NEW list, NEW from \in Nat, NEW to \in Nat, Follows(list, from, to),
         NEW p \in from + 1 .. to
  PROVE  \E i \in 1 .. Len(list) : list[i].start < p /\ p <= list[i].start + list[i].length
<1> SUFFICES ASSUME \A i \in 1 .. Len(list) : list[i].start < p => list[i].start + list[i].length < p
             PROVE  FALSE
  <2>1. \A i \in 1 .. Len(list) : list[i] \in FileChunks
    BY ElementOfSeq DEF Follows
  <2> QED BY <2>1 DEF FileChunks
<1>1. Len(list) \in Nat /\ (list = << >> <=> Len(list) = 0)
  BY LenProperties, EmptySeq DEF Follows
<1>2. list # << >>
  BY DEF Follows
<1> DEFINE S == {k \in Nat : k + 1 <= Len(list) => list[k + 1].start < p}
<1>3. 0 \in S
  BY <1>2 DEF Follows
<1>4. ASSUME NEW k \in Nat, k \in S PROVE k + 1 \in S
  <2> SUFFICES ASSUME (k + 1) + 1 <= Len(list) PROVE list[(k + 1) + 1].start < p
    OBVIOUS
  <2>1. PICK i \in Nat : i = k + 1
    OBVIOUS
  <2>2. i \in 1 .. Len(list) - 1 /\ i \in 1 .. Len(list) /\ list[i].start < p
    BY <1>1, <1>4, <2>1
  <2>3. list[i + 1].start = list[i].start + list[i].length
    BY <2>2 DEF Follows
  <2> QED BY <2>1, <2>2, <2>3
<1> HIDE DEF S
<1>5. \A k \in Nat : k \in S
  BY <1>3, <1>4, NatSetInduction
<1>6. PICK k \in Nat : k + 1 = Len(list)
  <2>1. Len(list) - 1 \in Nat /\ (Len(list) - 1) + 1 = Len(list)
    BY <1>1, <1>2
  <2> QED BY <2>1
<1>7. list[Len(list)].start < p
  BY <1>5, <1>6 DEF S
<1>8. Len(list) \in 1 .. Len(list)
  BY <1>1, <1>2
<1>9. list[Len(list)].start + list[Len(list)].length < p
  BY <1>7, <1>8
<1> QED BY <1>2, <1>9 DEF Follows

-----------------------------------------------------------------------------
(* The queue.                                                              *)

RAMChunks(D) == [kind : {"ram"}, data : D]

ChunksOf(D) == FileChunks \cup RAMChunks(D)

\* A sequence is its bottom element behind what is left without it.
LEMMA PoppedBackAppend ==
  ASSUME NEW S, NEW s \in Seq(S), s # << >>
  PROVE  PoppedBack(s) \in Seq(S) /\ s = Append(PoppedBack(s), Bottom(s))
<1>1. PICK n \in Nat : n = Len(s) - 1 /\ n + 1 = Len(s)
  BY LenProperties, EmptySeq
<1>2. \A i \in 1 .. n : s[i] \in S
  BY <1>1, ElementOfSeq
<1>3. s[n + 1] \in S
  BY <1>1, ElementOfSeq
<1>4. PoppedBack(s) = SubSeq(s, 1, n)
  BY <1>1 DEF PoppedBack
<1>5. PICK t : t = SubSeq(s, 1, n)
  OBVIOUS
<1>6. t \in Seq(S) /\ Len(t) = n /\ \A i \in 1 .. n : t[i] = s[i]
  <2>1. /\ SubSeq(s, 1, n) \in Seq(S)
        /\ Len(SubSeq(s, 1, n)) = IF 1 <= n THEN n - 1 + 1 ELSE 0
        /\ \A i \in 1 .. n - 1 + 1 : SubSeq(s, 1, n)[i] = s[1 + i - 1]
    BY <1>2, SubSeqProperties
  <2> QED BY <1>1, <1>5, <2>1
<1>7. PICK a : a = Append(t, s[n + 1])
  OBVIOUS
<1>8. a \in Seq(S) /\ Len(a) = n + 1 /\ (\A i \in 1 .. n : a[i] = t[i]) /\ a[n + 1] = s[n + 1]
  BY <1>3, <1>6, <1>7, AppendProperties
<1>9. Len(a) = Len(s) /\ \A i \in 1 .. Len(s) : a[i] = s[i]
  BY <1>1, <1>6, <1>8
<1>10. a = s
  BY <1>8, <1>9, SeqEqual
<1> QED BY <1>1, <1>4, <1>5, <1>6, <1>7, <1>10 DEF Bottom

\* Induction over the sequences of a set, from the front to the back.
LEMMA SeqSetInduction ==
  ASSUME NEW A, NEW S, << >> \in S, \A s \in Seq(A) : \A e \in A : s \in S => Append(s, e) \in S
  PROVE  \A s \in Seq(A) : s \in S
<1> DEFINE N == {n \in Nat : \A s \in Seq(A) : Len(s) = n => s \in S}
<1>1. 0 \in N
  BY EmptySeq
<1>2. ASSUME NEW n \in Nat, n \in N PROVE n + 1 \in N
  <2> SUFFICES ASSUME NEW s \in Seq(A), Len(s) = n + 1 PROVE s \in S
    OBVIOUS
  <2>1. s # << >> /\ Len(s) \in 1 .. Len(s)
    BY EmptySeq
  <2>2. PoppedBack(s) \in Seq(A) /\ s = Append(PoppedBack(s), Bottom(s)) /\ Bottom(s) \in A
    <3>1. Bottom(s) \in A
      BY <2>1, ElementOfSeq DEF Bottom
    <3> QED BY <2>1, <3>1, PoppedBackAppend
  <2>3. Len(s) = Len(PoppedBack(s)) + 1 /\ Len(PoppedBack(s)) \in Nat
    BY <2>2, AppendProperties, LenProperties
  <2>4. Len(PoppedBack(s)) = n
    BY <2>3
  <2> QED BY <1>2, <2>2, <2>4
<1> HIDE DEF N
<1>3. \A n \in Nat : n \in N
  BY <1>1, <1>2, NatSetInduction
<1> QED BY <1>3, LenProperties DEF N

\* Chunks that follow one another do so without the last of them.
LEMMA FollowsAppend ==
  ASSUME NEW s \in Seq(FileChunks), NEW e \in FileChunks, NEW from, NEW to,
         Follows(Append(s, e), from, to)
  PROVE  Follows(s, from, e.start) /\ to = e.start + e.length
<1>1. PICK n \in Nat : n = Len(s)
  BY LenProperties
<1>2. PICK t : t = Append(s, e)
  OBVIOUS
<1>3. Len(t) = n + 1 /\ (\A i \in 1 .. n : t[i] = s[i]) /\ t[n + 1] = e /\ t # << >>
  BY <1>1, <1>2, AppendProperties, EmptySeq
<1>4. /\ t[1].start = from /\ t[n + 1].start + t[n + 1].length = to
      /\ \A i \in 1 .. n : t[i + 1].start = t[i].start + t[i].length
  BY <1>2, <1>3 DEF Follows
<1>5. \A i \in 1 .. n - 1 : s[i + 1].start = s[i].start + s[i].length
  <2>1. \A i \in 1 .. n - 1 : i \in 1 .. n /\ i + 1 \in 1 .. n
    BY <1>1
  <2> QED BY <1>3, <1>4, <2>1
<1>6. CASE n = 0
  <2>1. s = << >> /\ n + 1 = 1
    <3>1. Len(s) = 0
      BY <1>1, <1>6
    <3>2. s = << >>
      BY <3>1, EmptySeq
    <3> QED BY <1>6, <3>2
  <2>2. e.start = from /\ e.start + e.length = to
    BY <1>3, <1>4, <2>1
  <2> QED BY <1>1, <1>5, <2>1, <2>2 DEF Follows
<1>7. CASE n # 0
  <2>1. 1 \in 1 .. n /\ n \in 1 .. n
    BY <1>7
  <2> QED BY <1>1, <1>3, <1>4, <1>5, <2>1 DEF Follows
<1> QED BY <1>6, <1>7

\* A chunk in memory goes to the end.
LEMMA AppendRAM ==
  ASSUME NEW D, NEW tasks \in Seq(ChunksOf(D)), NEW chunk \in RAMChunks(D)
  PROVE  appendToPendings(tasks, chunk) = Append(tasks, chunk)
BY DEF appendToPendings, RAMChunks

\* A chunk of the file is cut behind what was kept of the queue: all of it, or
\* all but the chunk that ends where this one starts, and is cut with it.
Cut(D, tasks, chunk, kept, pieces, from) ==
  /\ kept \in Seq(ChunksOf(D))
  /\ appendToPendings(tasks, chunk) = kept \o pieces
  /\ Follows(pieces, from, chunk.start + chunk.length)
  /\ Len(pieces) <= MAX_CHUNKS_IN_QUEUE + 1
  /\ \/ kept = tasks /\ from = chunk.start
     \/ from < chunk.start /\ tasks = Append(kept, FileChunk(from, chunk.start - from))

LEMMA AppendFile ==
  ASSUME NEW D, NEW tasks \in Seq(ChunksOf(D)), NEW chunk \in FileChunks
  PROVE  \E kept, pieces : \E from \in Nat : Cut(D, tasks, chunk, kept, pieces, from)
<1>1. /\ chunk.kind = "file" /\ chunk.start \in Nat /\ chunk.length \in Nat \ {0}
      /\ chunk = FileChunk(chunk.start, chunk.length)
  BY DEF FileChunks, FileChunk
<1>2. CASE Neighbour(tasks, chunk)
  <2> DEFINE b == tasks[Len(tasks)]
             kept == SubSeq(tasks, 1, Len(tasks) - 1)
             m == FileChunk(b.start, b.length + chunk.length)
  <2>1. /\ tasks # << >> /\ b.kind = "file" /\ b.start + b.length = chunk.start
        /\ appendToPendings(tasks, chunk) = kept \o splitChunk(m)
    BY <1>1, <1>2 DEF Neighbour, Bottom, appendToPendings, PoppedBack, Merged
  <2>2. Len(tasks) \in Nat \ {0} /\ Len(tasks) \in 1 .. Len(tasks)
    BY <2>1, LenProperties, EmptySeq
  <2>3. b \in FileChunks
    <3>1. b \in ChunksOf(D)
      BY <2>2, ElementOfSeq
    <3> QED BY <2>1, <3>1 DEF ChunksOf, RAMChunks
  <2>4. /\ b.start \in Nat /\ b.length \in Nat \ {0} /\ b.start < chunk.start
        /\ b = FileChunk(b.start, chunk.start - b.start)
    BY <1>1, <2>1, <2>3 DEF FileChunks, FileChunk
  <2>5. kept \in Seq(ChunksOf(D)) /\ tasks = Append(kept, b)
    <3>1. kept = PoppedBack(tasks) /\ b = Bottom(tasks)
      BY DEF PoppedBack, Bottom
    <3> QED BY <2>1, <3>1, PoppedBackAppend
  <2>6. PICK l \in Nat : l = b.length + chunk.length
    BY <1>1, <2>4
  <2>7. /\ Follows(splitChunk(m), b.start, b.start + (b.length + chunk.length))
        /\ Len(splitChunk(m)) <= MAX_CHUNKS_IN_QUEUE + 1
    <3>1. m = FileChunk(b.start, l)
      BY <2>6
    <3> HIDE DEF b, m
    <3> QED BY <2>4, <2>6, <3>1, SplitFollows
  <2>8. b.start + (b.length + chunk.length) = chunk.start + chunk.length
    BY <1>1, <2>1, <2>4
  <2> HIDE DEF b, kept, m
  <2>9. Cut(D, tasks, chunk, kept, splitChunk(m), b.start)
    BY <2>1, <2>4, <2>5, <2>7, <2>8 DEF Cut
  <2> QED BY <2>4, <2>9
<1>3. CASE ~Neighbour(tasks, chunk)
  <2>1. appendToPendings(tasks, chunk) = tasks \o splitChunk(chunk)
    BY <1>1, <1>3 DEF appendToPendings
  <2>2. /\ Follows(splitChunk(chunk), chunk.start, chunk.start + chunk.length)
        /\ Len(splitChunk(chunk)) <= MAX_CHUNKS_IN_QUEUE + 1
    BY <1>1, SplitFollows
  <2>3. Cut(D, tasks, chunk, tasks, splitChunk(chunk), chunk.start)
    BY <2>1, <2>2 DEF Cut
  <2> QED BY <1>1, <2>3
<1> QED BY <1>2, <1>3

\* An append keeps the types, and adds a full split and its remainder at most.
LEMMA AppendType ==
  ASSUME NEW D, NEW tasks \in Seq(ChunksOf(D)), NEW chunk \in ChunksOf(D)
  PROVE  /\ appendToPendings(tasks, chunk) \in Seq(ChunksOf(D))
         /\ Len(appendToPendings(tasks, chunk)) <= Len(tasks) + MAX_CHUNKS_IN_QUEUE + 1
<1>0. Len(tasks) \in Nat
  BY LenProperties
<1>1. CASE chunk \in RAMChunks(D)
  <2>1. appendToPendings(tasks, chunk) = Append(tasks, chunk)
    BY <1>1, AppendRAM
  <2>2. Append(tasks, chunk) \in Seq(ChunksOf(D)) /\ Len(Append(tasks, chunk)) = Len(tasks) + 1
    BY AppendProperties
  <2> QED BY <1>0, <2>1, <2>2, RadioChunksAssumption
<1>2. CASE chunk \in FileChunks
  <2>0. PICK kept, pieces : \E from \in Nat : Cut(D, tasks, chunk, kept, pieces, from)
    BY <1>2, AppendFile
  <2>1. PICK from \in Nat : Cut(D, tasks, chunk, kept, pieces, from)
    BY <2>0
  <2>2. pieces \in Seq(ChunksOf(D)) /\ Len(pieces) \in Nat /\ Len(pieces) <= MAX_CHUNKS_IN_QUEUE + 1
    <3>1. pieces \in Seq(FileChunks)
      BY <2>1 DEF Cut, Follows
    <3>2. Len(pieces) \in Nat /\ \A i \in 1 .. Len(pieces) : pieces[i] \in ChunksOf(D)
      BY <3>1, LenProperties, ElementOfSeq DEF ChunksOf
    <3>3. pieces = [i \in 1 .. Len(pieces) |-> pieces[i]]
      BY <3>1, LenProperties
    <3>4. pieces \in Seq(ChunksOf(D))
      BY <3>2, <3>3, IsASeq
    <3> QED BY <2>1, <3>2, <3>4 DEF Cut
  <2>3. kept \in Seq(ChunksOf(D)) /\ Len(kept) \in Nat /\ Len(kept) <= Len(tasks)
    <3>1. kept \in Seq(ChunksOf(D))
      BY <2>1 DEF Cut
    <3>2. CASE kept = tasks
      BY <1>0, <3>1, <3>2
    <3>3. CASE tasks = Append(kept, FileChunk(from, chunk.start - from))
      BY <3>1, <3>3, LenProperties
    <3> QED BY <2>1, <3>2, <3>3 DEF Cut
  <2>4. kept \o pieces \in Seq(ChunksOf(D)) /\ Len(kept \o pieces) = Len(kept) + Len(pieces)
    BY <2>2, <2>3, ConcatProperties
  <2>5. appendToPendings(tasks, chunk) = kept \o pieces
    BY <2>1 DEF Cut
  <2> QED BY <1>0, <2>2, <2>3, <2>4, <2>5, RadioChunksAssumption
<1> QED BY <1>1, <1>2 DEF ChunksOf
====

------------------------- MODULE RadioTaskListProofs -------------------------
(***************************************************************************)
(* Proofs about one client's pending queue, for any size of the pieces,    *)
(* any limit, archive and messages: what is queued and what was written    *)
(* are what was appended.                                                  *)
(***************************************************************************)
EXTENDS RadioTaskList, RadioChunksProofs

(* Flattening, of which FlattenSeq's definition says what the recursion is. *)

Steps(g, ss, n) ==
  \A i \in 1 .. n : g[i] = IF i = 1 THEN ss[i] ELSE g[i - 1] \o ss[i]

LEMMA StepsExist ==
  ASSUME NEW T, NEW ss \in Seq(Seq(T)), NEW n \in Nat, n <= Len(ss)
  PROVE  \E g \in [1 .. n -> Seq(T)] : Steps(g, ss, n)
<1> DEFINE S == {m \in Nat : m <= Len(ss) => \E g \in [1 .. m -> Seq(T)] : Steps(g, ss, m)}
<1>0. Len(ss) \in Nat /\ \A i \in 1 .. Len(ss) : ss[i] \in Seq(T)
  BY LenProperties, ElementOfSeq
<1>1. 0 \in S
  <2>1. PICK g : g = [i \in 1 .. 0 |-> << >>]
    OBVIOUS
  <2>2. g \in [1 .. 0 -> Seq(T)] /\ Steps(g, ss, 0)
    BY <2>1 DEF Steps
  <2> QED BY <2>2
<1>2. ASSUME NEW m \in Nat, m \in S PROVE m + 1 \in S
  <2> SUFFICES ASSUME m + 1 <= Len(ss) PROVE \E g \in [1 .. m + 1 -> Seq(T)] : Steps(g, ss, m + 1)
    OBVIOUS
  <2>1. PICK g \in [1 .. m -> Seq(T)] : Steps(g, ss, m)
    BY <1>0, <1>2
  <2> DEFINE last == IF m = 0 THEN ss[1] ELSE g[m] \o ss[m + 1]
             h == [i \in 1 .. m + 1 |-> IF i = m + 1 THEN last ELSE g[i]]
  <2>2. last \in Seq(T)
    <3>1. ss[m + 1] \in Seq(T)
      BY <1>0
    <3>2. m # 0 => g[m] \in Seq(T)
      BY <2>1
    <3> QED BY <3>1, <3>2, ConcatProperties
  <2> HIDE DEF last
  <2>3. h \in [1 .. m + 1 -> Seq(T)]
    <3>1. \A i \in 1 .. m + 1 : i # m + 1 => i \in 1 .. m
      OBVIOUS
    <3> QED BY <2>1, <2>2, <3>1
  <2>4. \A i \in 1 .. m : h[i] = g[i]
    OBVIOUS
  <2>5. h[m + 1] = last
    OBVIOUS
  <2> HIDE DEF h
  <2>6. ASSUME NEW i \in 1 .. m + 1
        PROVE  h[i] = IF i = 1 THEN ss[i] ELSE h[i - 1] \o ss[i]
    <3>1. CASE i = m + 1
      <4>1. m # 0 => h[m] = g[m] /\ i - 1 = m /\ i # 1
        BY <2>4, <3>1
      <4> QED BY <2>5, <3>1, <4>1 DEF last
    <3>2. CASE i \in 1 .. m
      <4>1. g[i] = IF i = 1 THEN ss[i] ELSE g[i - 1] \o ss[i]
        BY <2>1, <3>2 DEF Steps
      <4>2. i # 1 => i - 1 \in 1 .. m
        BY <3>2
      <4> QED BY <2>4, <3>2, <4>1, <4>2
    <3> QED BY <3>1, <3>2
  <2> QED BY <2>3, <2>6 DEF Steps
<1> HIDE DEF S
<1>3. n \in S
  BY <1>1, <1>2, NatSetInduction
<1> QED BY <1>3 DEF S

LEMMA StepsUnique ==
  ASSUME NEW ss, NEW tt, NEW n \in Nat, \A i \in 1 .. n : ss[i] = tt[i],
         NEW g, NEW h, Steps(g, ss, n), Steps(h, tt, n)
  PROVE  \A i \in 1 .. n : g[i] = h[i]
<1> DEFINE S == {m \in Nat : m + 1 <= n => g[m + 1] = h[m + 1]}
<1>1. 0 \in S
  <2>1. 0 + 1 <= n => 0 + 1 \in 1 .. n
    OBVIOUS
  <2> QED BY <2>1 DEF Steps
<1>2. ASSUME NEW m \in Nat, m \in S PROVE m + 1 \in S
  <2> SUFFICES ASSUME (m + 1) + 1 <= n PROVE g[(m + 1) + 1] = h[(m + 1) + 1]
    OBVIOUS
  <2>1. PICK i \in Nat : i = (m + 1) + 1
    OBVIOUS
  <2>2. i \in 1 .. n /\ i # 1 /\ i - 1 = m + 1 /\ g[m + 1] = h[m + 1]
    BY <1>2, <2>1
  <2>3. g[i] = g[m + 1] \o ss[i] /\ h[i] = h[m + 1] \o tt[i]
    BY <2>2 DEF Steps
  <2> QED BY <2>1, <2>2, <2>3
<1> HIDE DEF S
<1>3. \A m \in Nat : m \in S
  BY <1>1, <1>2, NatSetInduction
<1> SUFFICES ASSUME NEW i \in 1 .. n PROVE g[i] = h[i]
  OBVIOUS
<1>4. PICK m \in Nat : m + 1 = i
  <2>1. i - 1 \in Nat /\ (i - 1) + 1 = i
    OBVIOUS
  <2> QED BY <2>1
<1> QED BY <1>3, <1>4 DEF S

LEMMA FlattenIsStep ==
  ASSUME NEW T, NEW ss \in Seq(Seq(T)), ss # << >>, NEW g, Steps(g, ss, Len(ss))
  PROVE  FlattenSeq(ss) = g[Len(ss)] /\ FlattenSeq(ss) \in Seq(T)
<1>1. Len(ss) \in Nat /\ Len(ss) # 0 /\ Len(ss) \in 1 .. Len(ss)
  BY LenProperties, EmptySeq
<1>3. PICK made \in [1 .. Len(ss) -> Seq(T)] : Steps(made, ss, Len(ss))
  <2>1. PICK n \in Nat : n = Len(ss) /\ n <= Len(ss)
    BY <1>1
  <2>2. \E f \in [1 .. n -> Seq(T)] : Steps(f, ss, n)
    BY <2>1, StepsExist
  <2> QED BY <2>1, <2>2
<1> DEFINE Rec(f) == f = [i \in 1 .. Len(ss) |-> IF i = 1 THEN ss[i] ELSE f[i - 1] \o ss[i]]
<1>2. FlattenSeq(ss) = (CHOOSE f : Rec(f))[Len(ss)]
  BY <1>1 DEF FlattenSeq
<1>4. Rec(made)
  BY <1>3 DEF Steps
<1>5. \A h : Rec(h) => Steps(h, ss, Len(ss))
  <2> SUFFICES ASSUME NEW h, Rec(h) PROVE Steps(h, ss, Len(ss))
    OBVIOUS
  <2>1. \A i \in 1 .. Len(ss) : h[i] = IF i = 1 THEN ss[i] ELSE h[i - 1] \o ss[i]
    OBVIOUS
  <2> QED BY <2>1 DEF Steps
<1> HIDE DEF Rec
<1>6. Rec(CHOOSE h : Rec(h))
  BY <1>4
<1>7. PICK c : c = CHOOSE h : Rec(h)
  OBVIOUS
<1>8. Steps(c, ss, Len(ss)) /\ FlattenSeq(ss) = c[Len(ss)]
  BY <1>2, <1>5, <1>6, <1>7
<1>9. c[Len(ss)] = g[Len(ss)] /\ c[Len(ss)] = made[Len(ss)]
  BY <1>1, <1>3, <1>8, StepsUnique
<1> QED BY <1>1, <1>3, <1>8, <1>9

\* What is flattened of a longer sequence is longer by its last element.
LEMMA FlattenAppend ==
  ASSUME NEW T, NEW ss \in Seq(Seq(T)), NEW x \in Seq(T)
  PROVE  /\ FlattenSeq(ss) \in Seq(T)
         /\ FlattenSeq(Append(ss, x)) = FlattenSeq(ss) \o x
<1> DEFINE n == Len(ss)
           tt == Append(ss, x)
<1>1. /\ n \in Nat /\ tt \in Seq(Seq(T)) /\ Len(tt) = n + 1
      /\ \A i \in 1 .. n : tt[i] = ss[i]
      /\ tt[n + 1] = x
  BY LenProperties, AppendProperties
<1>2. tt # << >>
  BY <1>1, EmptySeq
<1> HIDE DEF tt
<1>3. PICK g : Steps(g, tt, n + 1)
  <2>1. \A m \in Nat : m <= Len(tt) => \E g \in [1 .. m -> Seq(T)] : Steps(g, tt, m)
    BY <1>1, StepsExist
  <2>2. n + 1 \in Nat /\ n + 1 <= Len(tt)
    BY <1>1
  <2> QED BY <2>1, <2>2
<1>4. FlattenSeq(tt) = g[n + 1]
  BY <1>1, <1>2, <1>3, FlattenIsStep
<1>5. g[n + 1] = IF n = 0 THEN x ELSE g[n] \o x
  <2>1. n + 1 \in 1 .. n + 1 /\ (n + 1) - 1 = n /\ (n + 1 = 1 <=> n = 0)
    BY <1>1
  <2>2. g[n + 1] = IF n + 1 = 1 THEN tt[n + 1] ELSE g[(n + 1) - 1] \o tt[n + 1]
    BY <1>3, <2>1 DEF Steps
  <2> QED BY <1>1, <2>1, <2>2
<1>6. CASE n = 0
  <2>1. ss = << >> /\ FlattenSeq(ss) = << >>
    BY <1>6, EmptySeq DEF FlattenSeq
  <2>2. << >> \o x = x /\ << >> \in Seq(T)
    BY ConcatEmptySeq, EmptySeq
  <2> QED BY <1>4, <1>5, <1>6, <2>1, <2>2 DEF tt
<1>7. CASE n # 0
  <2>1. ss # << >>
    BY <1>7, EmptySeq
  <2>2. Steps(g, ss, n)
    <3>1. \A i \in 1 .. n : i \in 1 .. n + 1 /\ tt[i] = ss[i]
      BY <1>1
    <3> QED BY <1>3, <3>1 DEF Steps
  <2>3. FlattenSeq(ss) = g[n] /\ FlattenSeq(ss) \in Seq(T)
    BY <2>1, <2>2, FlattenIsStep
  <2> QED BY <1>4, <1>5, <1>7, <2>3 DEF tt
<1> QED BY <1>6, <1>7

-----------------------------------------------------------------------------
(* What chunks stand for.                                                  *)

Piece == Nat \cup Message

\* The positions behind from, up to to.
Between(from, to) == [i \in 1 .. to - from |-> from + i]

LEMMA BetweenIsASeq ==
  ASSUME NEW x \in Nat, NEW y \in Nat, x <= y
  PROVE  /\ Between(x, y) \in Seq(Nat) /\ Len(Between(x, y)) = y - x
         /\ \A i \in 1 .. y - x : Between(x, y)[i] = x + i
<1>1. PICK n \in Nat : n = y - x
  OBVIOUS
<1> SUFFICES /\ [i \in 1 .. n |-> x + i] \in Seq(Nat) /\ Len([i \in 1 .. n |-> x + i]) = n
             /\ \A i \in 1 .. n : [j \in 1 .. n |-> x + j][i] = x + i
  BY <1>1 DEF Between
<1> QED BY IsASeq

LEMMA BetweenConcat ==
  ASSUME NEW a \in Nat, NEW b \in Nat, NEW c \in Nat, a <= b, b <= c
  PROVE  Between(a, b) \in Seq(Nat) /\ Between(a, b) \o Between(b, c) = Between(a, c)
<1>1. PICK s : s = Between(a, b)
  OBVIOUS
<1>2. PICK t : t = Between(b, c)
  OBVIOUS
<1>3. PICK u : u = Between(a, c)
  OBVIOUS
<1>4. s \in Seq(Nat) /\ Len(s) = b - a /\ \A i \in 1 .. b - a : s[i] = a + i
  BY <1>1, BetweenIsASeq
<1>5. t \in Seq(Nat) /\ Len(t) = c - b /\ \A i \in 1 .. c - b : t[i] = b + i
  BY <1>2, BetweenIsASeq
<1>6. u \in Seq(Nat) /\ Len(u) = c - a /\ \A i \in 1 .. c - a : u[i] = a + i
  <2>1. a <= c
    OBVIOUS
  <2> QED BY <1>3, <2>1, BetweenIsASeq
<1>7. /\ s \o t \in Seq(Nat) /\ Len(s \o t) = Len(s) + Len(t)
      /\ \A i \in 1 .. Len(s) + Len(t) :
           (s \o t)[i] = IF i <= Len(s) THEN s[i] ELSE t[i - Len(s)]
  BY <1>4, <1>5, ConcatProperties
<1>8. \A i \in 1 .. c - a : (s \o t)[i] = u[i]
  <2> SUFFICES ASSUME NEW i \in 1 .. c - a PROVE (s \o t)[i] = u[i]
    OBVIOUS
  <2>1. CASE i <= b - a
    BY <1>4, <1>5, <1>7, <1>6, <2>1
  <2>2. CASE ~(i <= b - a)
    <3>1. i - (b - a) \in 1 .. c - b /\ b + (i - (b - a)) = a + i
      BY <2>2
    <3>2. (s \o t)[i] = t[i - (b - a)]
      BY <1>4, <1>5, <1>7, <2>2
    <3> QED BY <1>5, <1>6, <3>1, <3>2
  <2> QED BY <2>1, <2>2
<1>9. s \o t = u
  <2>1. Len(s \o t) = Len(u) /\ Len(s \o t) = c - a
    BY <1>4, <1>5, <1>7, <1>6
  <2>2. \A i \in 1 .. Len(s \o t) : (s \o t)[i] = u[i]
    BY <1>8, <2>1
  <2> QED BY <1>7, <1>6, <2>1, <2>2, SeqEqual
<1> QED BY <1>4, <1>1, <1>2, <1>3, <1>9

LEMMA UnitsType ==
  ASSUME NEW chunk \in ChunksOf(Message)
  PROVE  /\ Units(chunk) \in Seq(Piece)
         /\ chunk \in FileChunks => Units(chunk) = Between(chunk.start, chunk.start + chunk.length)
<1>1. CASE chunk \in RAMChunks(Message)
  <2>1. Units(chunk) = <<chunk.data>> /\ chunk.data \in Piece /\ chunk.kind = "ram"
    BY <1>1 DEF Units, RAMChunks, Piece
  <2> QED BY <2>1 DEF FileChunks
<1>2. CASE chunk \in FileChunks
  <2>1. /\ chunk.start \in Nat /\ chunk.length \in Nat
        /\ Units(chunk) = [i \in 1 .. chunk.length |-> chunk.start + i]
    BY <1>2 DEF Units, FileChunks
  <2>2. chunk.start + chunk.length - chunk.start = chunk.length
    BY <2>1
  <2>3. Units(chunk) \in Seq(Piece)
    <3>1. \A i \in 1 .. chunk.length : chunk.start + i \in Piece
      BY <2>1 DEF Piece
    <3> QED BY <2>1, <3>1, IsASeq
  <2> QED BY <2>1, <2>2, <2>3 DEF Between
<1> QED BY <1>1, <1>2 DEF ChunksOf

LEMMA AllUnitsAppend ==
  ASSUME NEW list \in Seq(ChunksOf(Message)), NEW chunk \in ChunksOf(Message)
  PROVE  /\ AllUnits(list) \in Seq(Piece)
         /\ AllUnits(Append(list, chunk)) = AllUnits(list) \o Units(chunk)
<1>1. PICK n \in Nat : n = Len(list)
  BY LenProperties
<1>2. PICK longer : longer = Append(list, chunk)
  OBVIOUS
<1>3. /\ Len(longer) = n + 1 /\ longer[n + 1] = chunk
      /\ \A i \in 1 .. n : longer[i] = list[i] /\ list[i] \in ChunksOf(Message)
  BY <1>1, <1>2, AppendProperties, ElementOfSeq
<1>4. PICK ss : ss = [i \in 1 .. n |-> Units(list[i])]
  OBVIOUS
<1>5. PICK tt : tt = [i \in 1 .. n + 1 |-> Units(longer[i])]
  OBVIOUS
<1>6. /\ ss \in Seq(Seq(Piece)) /\ Len(ss) = n
      /\ tt \in Seq(Seq(Piece)) /\ Len(tt) = n + 1
  <2>1. \A i \in 1 .. n : Units(list[i]) \in Seq(Piece)
    BY <1>3, UnitsType
  <2>2. \A i \in 1 .. n + 1 : Units(longer[i]) \in Seq(Piece)
    BY <1>1, <1>3, <2>1, UnitsType
  <2>3. \A i \in 1 .. n : ss[i] = Units(list[i])
    BY <1>4
  <2>4. \A i \in 1 .. n + 1 : tt[i] = Units(longer[i])
    BY <1>5
  <2>5. ss = [i \in 1 .. n |-> ss[i]] /\ tt = [i \in 1 .. n + 1 |-> tt[i]]
    BY <1>4, <1>5
  <2>6. ss \in Seq(Seq(Piece)) /\ Len(ss) = n
    <3>1. ss = [i \in 1 .. n |-> ss[i]] /\ \A i \in 1 .. n : ss[i] \in Seq(Piece)
      BY <2>1, <2>3, <2>5
    <3> QED BY <3>1, IsASeq
  <2>7. tt \in Seq(Seq(Piece)) /\ Len(tt) = n + 1
    <3>1. PICK k \in Nat : k = n + 1
      OBVIOUS
    <3>2. tt = [i \in 1 .. k |-> tt[i]] /\ \A i \in 1 .. k : tt[i] \in Seq(Piece)
      BY <2>2, <2>4, <2>5, <3>1
    <3>3. tt \in Seq(Seq(Piece)) /\ Len(tt) = k
      BY <3>2, IsASeq
    <3> QED BY <3>1, <3>3
  <2> QED BY <2>6, <2>7
<1>7. tt = Append(ss, Units(chunk))
  <2>1. PICK app : app = Append(ss, Units(chunk))
    OBVIOUS
  <2>2. Units(chunk) \in Seq(Piece)
    BY UnitsType
  <2>3. /\ app \in Seq(Seq(Piece)) /\ Len(app) = n + 1 /\ app[n + 1] = Units(chunk)
        /\ \A i \in 1 .. n : app[i] = ss[i]
    BY <1>6, <2>1, <2>2, AppendProperties
  <2>4. \A i \in 1 .. n : ss[i] = Units(list[i]) /\ tt[i] = Units(list[i])
    <3>1. \A i \in 1 .. n : ss[i] = Units(list[i]) /\ tt[i] = Units(longer[i])
      BY <1>4, <1>5
    <3> QED BY <1>3, <3>1
  <2>5. tt[n + 1] = Units(chunk)
    <3>1. n + 1 \in 1 .. n + 1
      OBVIOUS
    <3> QED BY <1>3, <1>5, <3>1
  <2>6. \A i \in 1 .. n + 1 : app[i] = tt[i]
    BY <2>3, <2>4, <2>5
  <2> QED BY <1>6, <2>1, <2>3, <2>6, SeqEqual
<1>8. AllUnits(list) = FlattenSeq(ss) /\ AllUnits(longer) = FlattenSeq(tt)
  BY <1>1, <1>3, <1>4, <1>5 DEF AllUnits
<1>9. Units(chunk) \in Seq(Piece)
  BY UnitsType
<1> QED BY <1>2, <1>6, <1>7, <1>8, <1>9, FlattenAppend

LEMMA AllUnitsEmpty == AllUnits(<< >>) = << >>
<1>1. Len(<< >>) = 0
  OBVIOUS
<1>2. AllUnits(<< >>) = FlattenSeq([i \in 1 .. 0 |-> Units(<< >>[i])])
  BY <1>1 DEF AllUnits
<1>3. [i \in 1 .. 0 |-> Units(<< >>[i])] = << >>
  OBVIOUS
<1> QED BY <1>2, <1>3 DEF FlattenSeq

LEMMA AllUnitsConcat ==
  ASSUME NEW l \in Seq(ChunksOf(Message)), NEW m \in Seq(ChunksOf(Message))
  PROVE  AllUnits(l \o m) = AllUnits(l) \o AllUnits(m)
<1> DEFINE S == {s \in Seq(ChunksOf(Message)) : AllUnits(l \o s) = AllUnits(l) \o AllUnits(s)}
<1>1. << >> \in S
  <2>1. << >> \in Seq(ChunksOf(Message)) /\ l \o << >> = l
    BY ConcatEmptySeq, EmptySeq
  <2>2. AllUnits(l) \in Seq(Piece)
    <3>1. PICK c : c = FileChunk(0, 1)
      OBVIOUS
    <3>2. c \in ChunksOf(Message)
      BY <3>1 DEF ChunksOf, FileChunks, FileChunk
    <3> QED BY <3>2, AllUnitsAppend
  <2>3. AllUnits(l) \o << >> = AllUnits(l)
    BY <2>2, ConcatEmptySeq
  <2> QED BY <2>1, <2>3, AllUnitsEmpty
<1>2. ASSUME NEW s \in Seq(ChunksOf(Message)), NEW e \in ChunksOf(Message), s \in S
      PROVE  Append(s, e) \in S
  <2>1. Append(s, e) \in Seq(ChunksOf(Message)) /\ l \o s \in Seq(ChunksOf(Message))
    BY AppendProperties, ConcatProperties
  <2>2. l \o Append(s, e) = Append(l \o s, e)
    <3>1. PICK C : C = ChunksOf(Message)
      OBVIOUS
    <3>2. l \in Seq(C) /\ s \in Seq(C) /\ e \in C /\ l \o s \in Seq(C) /\ <<e>> \in Seq(C)
      BY <2>1, <3>1
    <3>3. l \o (s \o <<e>>) = (l \o s) \o <<e>>
      BY <3>2, ConcatAssociative
    <3> QED BY <3>2, <3>3, AppendIsConcat
  <2>3. AllUnits(l \o Append(s, e)) = (AllUnits(l) \o AllUnits(s)) \o Units(e)
    BY <1>2, <2>1, <2>2, AllUnitsAppend
  <2>4. AllUnits(Append(s, e)) = AllUnits(s) \o Units(e)
    BY AllUnitsAppend
  <2>5. AllUnits(l) \in Seq(Piece) /\ AllUnits(s) \in Seq(Piece) /\ Units(e) \in Seq(Piece)
    BY AllUnitsAppend, UnitsType
  <2>6. (AllUnits(l) \o AllUnits(s)) \o Units(e) = AllUnits(l) \o (AllUnits(s) \o Units(e))
    BY <2>5, ConcatAssociative
  <2> QED BY <2>1, <2>3, <2>4, <2>6
<1> HIDE DEF S
<1>3. m \in S
  BY <1>1, <1>2, SeqSetInduction
<1> QED BY <1>3 DEF S

\* Chunks that follow one another are the bytes between their ends.
LEMMA FollowsUnits ==
  ASSUME NEW list, NEW from \in Nat, NEW to \in Nat, Follows(list, from, to)
  PROVE  from <= to /\ AllUnits(list) = Between(from, to)
<1> DEFINE Good(s) == \A end \in Nat : Follows(s, from, end) =>
                         from <= end /\ AllUnits(s) = Between(from, end)
           S == {s \in Seq(FileChunks) : Good(s)}
<1>1. << >> \in S
  <2>1. << >> \in Seq(FileChunks)
    BY EmptySeq
  <2>2. ASSUME NEW end \in Nat, Follows(<< >>, from, end)
        PROVE  from <= end /\ AllUnits(<< >>) = Between(from, end)
    <3>1. from = end
      BY <2>2 DEF Follows
    <3>2. Between(from, end) = << >>
      <4>1. Between(from, end) \in Seq(Nat) /\ Len(Between(from, end)) = 0
        BY <3>1, BetweenIsASeq
      <4> QED BY <4>1, EmptySeq
    <3> QED BY <3>1, <3>2, AllUnitsEmpty
  <2> QED BY <2>1, <2>2
<1>2. ASSUME NEW s \in Seq(FileChunks), NEW e \in FileChunks, s \in S
      PROVE  Append(s, e) \in S
  <2>1. Append(s, e) \in Seq(FileChunks)
    BY AppendProperties
  <2>2. ASSUME NEW end \in Nat, Follows(Append(s, e), from, end)
        PROVE  from <= end /\ AllUnits(Append(s, e)) = Between(from, end)
    <3>1. Follows(s, from, e.start) /\ end = e.start + e.length
      BY <2>2, FollowsAppend
    <3>2. e.start \in Nat /\ e.length \in Nat /\ e \in ChunksOf(Message)
      BY DEF FileChunks, ChunksOf
    <3>3. from <= e.start /\ AllUnits(s) = Between(from, e.start)
      BY <1>2, <3>1, <3>2
    <3>4. s \in Seq(ChunksOf(Message))
      <4>1. Len(s) \in Nat /\ s = [i \in 1 .. Len(s) |-> s[i]]
        BY LenProperties
      <4>2. \A i \in 1 .. Len(s) : s[i] \in ChunksOf(Message)
        BY ElementOfSeq DEF ChunksOf
      <4> QED BY <4>1, <4>2, IsASeq
    <3>5. AllUnits(Append(s, e)) = AllUnits(s) \o Units(e)
      BY <3>2, <3>4, AllUnitsAppend
    <3>6. Units(e) = Between(e.start, end)
      BY <3>1, <3>2, UnitsType
    <3>7. e.start <= end
      BY <3>1, <3>2
    <3>8. Between(from, e.start) \o Between(e.start, end) = Between(from, end)
      BY <3>2, <3>3, <3>7, BetweenConcat
    <3> QED BY <3>2, <3>3, <3>5, <3>6, <3>7, <3>8
  <2> QED BY <2>1, <2>2
<1> HIDE DEF S
<1>3. list \in S
  <2>1. list \in Seq(FileChunks)
    BY DEF Follows
  <2> QED BY <1>1, <1>2, <2>1, SeqSetInduction
<1> QED BY <1>3 DEF S

\* An append adds what the chunk stands for, however it is cut and merged.
LEMMA AppendUnits ==
  ASSUME NEW list \in Seq(ChunksOf(Message)), NEW chunk \in ChunksOf(Message)
  PROVE  AllUnits(appendToPendings(list, chunk)) = AllUnits(list) \o Units(chunk)
<1>1. CASE chunk \in RAMChunks(Message)
  <2>1. appendToPendings(list, chunk) = Append(list, chunk)
    BY <1>1, AppendRAM
  <2> QED BY <2>1, AllUnitsAppend
<1>2. CASE chunk \in FileChunks
  <2>0. PICK kept, pieces : \E from \in Nat : Cut(Message, list, chunk, kept, pieces, from)
    BY <1>2, AppendFile
  <2>1. PICK from \in Nat : Cut(Message, list, chunk, kept, pieces, from)
    BY <2>0
  <2>2. PICK start \in Nat, end \in Nat : start = chunk.start /\ end = chunk.start + chunk.length
    BY <1>2 DEF FileChunks
  <2>3. start <= end /\ Units(chunk) = Between(start, end)
    <3>1. start <= end
      BY <1>2, <2>2 DEF FileChunks
    <3> QED BY <1>2, <2>2, <3>1, UnitsType
  <2>4. /\ kept \in Seq(ChunksOf(Message)) /\ appendToPendings(list, chunk) = kept \o pieces
        /\ Follows(pieces, from, end)
    BY <2>1, <2>2 DEF Cut
  <2>5. from <= end /\ AllUnits(pieces) = Between(from, end)
    BY <2>4, FollowsUnits
  <2>6. pieces \in Seq(ChunksOf(Message))
    <3>1. pieces \in Seq(FileChunks)
      BY <2>4 DEF Follows
    <3>2. Len(pieces) \in Nat /\ pieces = [i \in 1 .. Len(pieces) |-> pieces[i]]
      BY <3>1, LenProperties
    <3>3. \A i \in 1 .. Len(pieces) : pieces[i] \in ChunksOf(Message)
      BY <3>1, ElementOfSeq DEF ChunksOf
    <3> QED BY <3>2, <3>3, IsASeq
  <2>7. AllUnits(kept \o pieces) = AllUnits(kept) \o Between(from, end)
    BY <2>4, <2>5, <2>6, AllUnitsConcat
  <2>8. CASE kept = list /\ from = start
    BY <2>3, <2>4, <2>7, <2>8
  <2>9. CASE from < start /\ list = Append(kept, FileChunk(from, start - from))
    <3>1. PICK bottom : bottom = FileChunk(from, start - from)
      OBVIOUS
    <3>2. /\ bottom \in FileChunks /\ bottom \in ChunksOf(Message)
          /\ bottom.start = from /\ bottom.start + bottom.length = start
      BY <2>9, <3>1 DEF FileChunk, FileChunks, ChunksOf
    <3>3. AllUnits(list) = AllUnits(kept) \o Units(bottom)
      <4>1. list = Append(kept, bottom)
        BY <2>9, <3>1
      <4>2. AllUnits(Append(kept, bottom)) = AllUnits(kept) \o Units(bottom)
        BY <2>4, <3>2, AllUnitsAppend
      <4> QED BY <4>1, <4>2
    <3>4. Between(from, start) \o Between(start, end) = Between(from, end)
      <4>1. from <= start /\ start <= end
        BY <2>3, <2>9
      <4> QED BY <4>1, BetweenConcat
    <3>5. AllUnits(kept) \in Seq(Piece) /\ Units(chunk) \in Seq(Piece) /\ Units(bottom) \in Seq(Piece)
      BY <2>4, <3>2, AllUnitsAppend, UnitsType
    <3>6. Units(bottom) = Between(from, start)
      BY <3>2, UnitsType
    <3>7. (AllUnits(kept) \o Units(bottom)) \o Units(chunk) = AllUnits(kept) \o (Units(bottom) \o Units(chunk))
      BY <3>5, ConcatAssociative
    <3> QED BY <2>3, <2>4, <2>7, <3>3, <3>4, <3>6, <3>7
  <2> QED BY <2>1, <2>2, <2>8, <2>9 DEF Cut
<1> QED BY <1>1, <1>2 DEF ChunksOf

\* What a queue stands for is what its first chunk does, and then the rest.
LEMMA HeadUnits ==
  ASSUME NEW list \in Seq(ChunksOf(Message)), list # << >>
  PROVE  /\ Head(list) \in ChunksOf(Message) /\ Tail(list) \in Seq(ChunksOf(Message))
         /\ list = <<Head(list)>> \o Tail(list)
         /\ AllUnits(list) = Units(Head(list)) \o AllUnits(Tail(list))
<1>1. PICK h, t : h = Head(list) /\ t = Tail(list)
  OBVIOUS
<1>2. h \in ChunksOf(Message) /\ t \in Seq(ChunksOf(Message)) /\ <<h>> \in Seq(ChunksOf(Message))
  BY <1>1, HeadTailProperties
<1>3. list = <<h>> \o t
  <2>1. PICK C : C = ChunksOf(Message)
    OBVIOUS
  <2>2. list \in Seq(C) /\ h \in C /\ t \in Seq(C)
    BY <1>2, <2>1
  <2> QED BY <1>1, <2>2
<1>4. AllUnits(list) = AllUnits(<<h>>) \o AllUnits(t)
  BY <1>2, <1>3, AllUnitsConcat
<1>5. AllUnits(<<h>>) = Units(h)
  <2>1. << >> \in Seq(ChunksOf(Message)) /\ <<h>> = Append(<< >>, h)
    BY EmptySeq
  <2>2. AllUnits(<<h>>) = << >> \o Units(h)
    BY <1>2, <2>1, AllUnitsAppend, AllUnitsEmpty
  <2>3. Units(h) \in Seq(Piece)
    BY <1>2, UnitsType
  <2> QED BY <2>2, <2>3, ConcatEmptySeq
<1> QED BY <1>1, <1>2, <1>3, <1>4, <1>5

-----------------------------------------------------------------------------
(* The theorems.                                                           *)

LEMMA TasksType == TypeOK <=> /\ tasks \in Seq(ChunksOf(Message))
                              /\ fileSize \in 0 .. MaxFile
                              /\ sent \in Seq(Piece)
                              /\ owed \in Seq(Piece)
BY DEF TypeOK, ChunksOf, FileChunks, RAMChunks, Piece

LEMMA InputType == InputChunk \subseteq ChunksOf(Message)
BY RadioTaskListAssumption DEF InputChunk, ChunksOf, FileChunks, RAMChunks, FileChunk, RAMChunk

LEMMA InitIsTyped == Init => TypeOK
<1> SUFFICES ASSUME Init PROVE TypeOK
  OBVIOUS
<1>1. fileSize \in 0 .. MaxFile
  BY RadioTaskListAssumption DEF Init, MaxFile
<1> QED BY <1>1, TasksType, EmptySeq DEF Init

LEMMA StepKeepsType == TypeOK /\ [Next]_vars => TypeOK'
<1> SUFFICES ASSUME TypeOK, [Next]_vars PROVE TypeOK'
  OBVIOUS
<1>1. /\ tasks \in Seq(ChunksOf(Message)) /\ fileSize \in 0 .. MaxFile
      /\ sent \in Seq(Piece) /\ owed \in Seq(Piece)
  BY TasksType
<1> SUFFICES /\ tasks' \in Seq(ChunksOf(Message)) /\ fileSize' \in 0 .. MaxFile
             /\ sent' \in Seq(Piece) /\ owed' \in Seq(Piece)
  BY DEF TypeOK, ChunksOf, FileChunks, RAMChunks, Piece, MaxFile
<1>2. ASSUME NEW chunk \in InputChunk, AppendToPendings(chunk)
      PROVE  tasks' \in Seq(ChunksOf(Message)) /\ owed' \in Seq(Piece)
  <2>1. chunk \in ChunksOf(Message)
    BY InputType
  <2>2. Units(chunk) \in Seq(Piece)
    BY <2>1, UnitsType
  <2> QED BY <1>1, <1>2, <2>1, <2>2, AppendType, ConcatProperties DEF AppendToPendings
<1>3. ASSUME FetchAndSend PROVE tasks' \in Seq(ChunksOf(Message)) /\ sent' \in Seq(Piece)
  <2>1. /\ Head(tasks) \in ChunksOf(Message) /\ Tail(tasks) \in Seq(ChunksOf(Message))
        /\ tasks = <<Head(tasks)>> \o Tail(tasks)
    BY <1>1, <1>3, HeadUnits DEF FetchAndSend
  <2>2. sent \o Units(Head(tasks)) \in Seq(Piece)
    BY <1>1, <2>1, UnitsType, ConcatProperties
  <2>3. tasks' = Tail(tasks) \/ tasks' = tasks
    BY <1>3, <2>1 DEF FetchAndSend, PopFront, PushFront
  <2> QED BY <1>1, <1>3, <2>1, <2>2, <2>3 DEF FetchAndSend
<1>4. CASE \E chunk \in InputChunk : AppendToPendings(chunk)
  BY <1>1, <1>2, <1>4 DEF AppendToPendings
<1>5. CASE FetchAndSend
  BY <1>1, <1>3, <1>5 DEF FetchAndSend
<1>6. CASE ArchiveGrows
  <2>1. fileSize + 1 \in 0 .. MaxFile
    BY <1>1, <1>6, RadioTaskListAssumption DEF ArchiveGrows, MaxFile
  <2> QED BY <1>1, <1>6, <2>1 DEF ArchiveGrows
<1>7. CASE UNCHANGED vars
  BY <1>1, <1>7 DEF vars
<1> QED BY <1>4, <1>5, <1>6, <1>7 DEF Next

\* The queue holds chunks of the file, each of at least one byte, and messages.
THEOREM TasksAreTyped == Spec => []TypeOK
BY InitIsTyped, StepKeepsType, PTL DEF Spec

LEMMA StepLosesNothing ==
  TypeOK /\ NothingLostOrReordered /\ [Next]_vars => NothingLostOrReordered'
<1> SUFFICES ASSUME TypeOK, NothingLostOrReordered, [Next]_vars
             PROVE  owed' = sent' \o AllUnits(tasks)'
  BY DEF NothingLostOrReordered
<1>1. /\ tasks \in Seq(ChunksOf(Message)) /\ sent \in Seq(Piece)
      /\ owed = sent \o AllUnits(tasks)
  BY TasksType DEF NothingLostOrReordered
<1>2. AllUnits(tasks)' = AllUnits(tasks')
  BY DEF AllUnits, Units
<1>3. AllUnits(tasks) \in Seq(Piece)
  <2>1. PICK c : c = FileChunk(0, 1)
    OBVIOUS
  <2>2. c \in ChunksOf(Message)
    BY <2>1 DEF ChunksOf, FileChunks, FileChunk
  <2> QED BY <1>1, <2>2, AllUnitsAppend
<1>4. CASE \E chunk \in InputChunk : AppendToPendings(chunk)
  <2>1. PICK chunk \in InputChunk : AppendToPendings(chunk)
    BY <1>4
  <2>2. chunk \in ChunksOf(Message)
    BY InputType
  <2>3. Units(chunk) \in Seq(Piece)
    BY <2>2, UnitsType
  <2>4. AllUnits(tasks') = AllUnits(tasks) \o Units(chunk)
    BY <1>1, <2>1, <2>2, AppendUnits DEF AppendToPendings
  <2>5. (sent \o AllUnits(tasks)) \o Units(chunk) = sent \o (AllUnits(tasks) \o Units(chunk))
    <3>1. PICK x \in Seq(Piece), y \in Seq(Piece) : x = AllUnits(tasks) /\ y = Units(chunk)
      BY <1>3, <2>3
    <3>2. (sent \o x) \o y = sent \o (x \o y)
      BY <1>1, ConcatAssociative
    <3> QED BY <3>1, <3>2
  <2> QED BY <1>1, <1>2, <2>1, <2>4, <2>5 DEF AppendToPendings
<1>5. CASE FetchAndSend
  <2>1. /\ Head(tasks) \in ChunksOf(Message) /\ Tail(tasks) \in Seq(ChunksOf(Message))
        /\ tasks = <<Head(tasks)>> \o Tail(tasks)
        /\ AllUnits(tasks) = Units(Head(tasks)) \o AllUnits(Tail(tasks))
    BY <1>1, <1>5, HeadUnits DEF FetchAndSend
  <2>2. CASE Readable(Head(tasks))
    <3>1. tasks' = Tail(tasks) /\ sent' = sent \o Units(Head(tasks)) /\ owed' = owed
      BY <1>5, <2>2 DEF FetchAndSend, PopFront
    <3>2. Units(Head(tasks)) \in Seq(Piece) /\ AllUnits(Tail(tasks)) \in Seq(Piece)
      BY <2>1, UnitsType, AllUnitsAppend
    <3>3. (sent \o Units(Head(tasks))) \o AllUnits(Tail(tasks))
            = sent \o (Units(Head(tasks)) \o AllUnits(Tail(tasks)))
      <4>1. PICK x \in Seq(Piece), y \in Seq(Piece) :
              x = Units(Head(tasks)) /\ y = AllUnits(Tail(tasks))
        BY <3>2
      <4>2. (sent \o x) \o y = sent \o (x \o y)
        BY <1>1, ConcatAssociative
      <4> QED BY <4>1, <4>2
    <3> QED BY <1>1, <1>2, <2>1, <3>1, <3>3
  <2>3. CASE ~Readable(Head(tasks))
    <3>1. tasks' = tasks /\ sent' = sent /\ owed' = owed
      BY <1>5, <2>1, <2>3 DEF FetchAndSend, PopFront, PushFront
    <3> QED BY <1>1, <1>2, <3>1
  <2> QED BY <2>2, <2>3
<1>6. CASE ArchiveGrows \/ UNCHANGED vars
  BY <1>1, <1>2, <1>6 DEF ArchiveGrows, vars
<1> QED BY <1>4, <1>5, <1>6 DEF Next

\* However chunks are cut, merged and put back, what was written to the client
\* and what is still queued are, together, what was appended, in order.
THEOREM QueueLosesNothing == Spec => []NothingLostOrReordered
<1>1. Init => NothingLostOrReordered
  <2> SUFFICES ASSUME Init PROVE NothingLostOrReordered
    OBVIOUS
  <2>1. << >> \o << >> = << >>
    BY EmptySeq, ConcatEmptySeq
  <2> QED BY <2>1, AllUnitsEmpty DEF Init, NothingLostOrReordered
<1> QED BY <1>1, TasksAreTyped, StepLosesNothing, PTL DEF Spec

\* One append, however long the chunk, and whatever it is merged with, makes
\* the queue longer by a full split and its remainder at most.
THEOREM AppendsAreBounded == Spec => OneAppendIsBounded
<1>1. TypeOK /\ [Next]_vars => [Len(tasks') <= Len(tasks) + MAX_CHUNKS_IN_QUEUE + 1]_vars
  <2> SUFFICES ASSUME TypeOK, Next PROVE Len(tasks') <= Len(tasks) + MAX_CHUNKS_IN_QUEUE + 1
    OBVIOUS
  <2>1. tasks \in Seq(ChunksOf(Message)) /\ Len(tasks) \in Nat
    BY TasksType, LenProperties
  <2>2. ASSUME NEW chunk \in InputChunk, AppendToPendings(chunk)
        PROVE  Len(tasks') <= Len(tasks) + MAX_CHUNKS_IN_QUEUE + 1
    <3>1. chunk \in ChunksOf(Message)
      BY InputType
    <3> QED BY <2>1, <2>2, <3>1, AppendType DEF AppendToPendings
  <2>3. ASSUME FetchAndSend PROVE Len(tasks') <= Len(tasks) + MAX_CHUNKS_IN_QUEUE + 1
    <3>1. Len(Tail(tasks)) <= Len(tasks) /\ tasks = <<Head(tasks)>> \o Tail(tasks)
      BY <2>1, <2>3, HeadUnits, HeadTailProperties DEF FetchAndSend
    <3>2. Len(tasks') <= Len(tasks)
      BY <2>1, <2>3, <3>1 DEF FetchAndSend, PopFront, PushFront
    <3>3. Len(tasks') \in Nat
      <4>1. Tail(tasks) \in Seq(ChunksOf(Message))
        BY <2>1, <2>3, HeadUnits DEF FetchAndSend
      <4>2. tasks' = Tail(tasks) \/ tasks' = tasks
        BY <2>3, <3>1 DEF FetchAndSend, PopFront, PushFront
      <4> QED BY <2>1, <4>1, <4>2, LenProperties
    <3> QED BY <2>1, <3>2, <3>3, RadioChunksAssumption
  <2>4. ASSUME ArchiveGrows PROVE Len(tasks') <= Len(tasks) + MAX_CHUNKS_IN_QUEUE + 1
    BY <2>1, <2>4, RadioChunksAssumption DEF ArchiveGrows
  <2> QED BY <2>2, <2>3, <2>4 DEF Next
<1> QED BY <1>1, TasksAreTyped, PTL DEF Spec, OneAppendIsBounded
=============================================================================

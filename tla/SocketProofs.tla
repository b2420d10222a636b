---------------------------- MODULE SocketProofs ----------------------------
(***************************************************************************)
(* Proofs about a connection, for any packages, any way in which the bytes *)
(* arrive and any number of sessions and callers of Close.  The invariant  *)
(* says where each package ends on the wire, and that the reader stands at *)
(* the start of the package after those it has parsed, or behind that      *)
(* package's size.                                                         *)
(***************************************************************************)
EXTENDS SocketClient, SequenceTheorems, TLAPS

-----------------------------------------------------------------------------
(* Conversions.                                                            *)

\* A size survives being put on the wire as four bytes.
LEMMA SizeRoundTrip ==
  ASSUME NEW n \in Nat, n <= MaxSize
  PROVE  /\ PackedSize(n) \in Seq(Byte) /\ Len(PackedSize(n)) = 4
         /\ SizeOf(PackedSize(n)) = n
<1> DEFINE q1 == n \div 256
           q2 == q1 \div 256
           q3 == q2 \div 256
<1>1. n \in Nat /\ n < 2147483648
  <2> HIDE DEF q1, q2, q3
  <2> QED BY SMT DEF MaxSize
<1>2. q1 \in Nat /\ q1 < 8388608 /\ n = 256 * q1 + (n % 256) /\ (n % 256) \in Byte
  BY <1>1, SMT DEF Byte
<1>3. q2 \in Nat /\ q2 < 32768 /\ q1 = 256 * q2 + (q1 % 256) /\ (q1 % 256) \in Byte
  <2> HIDE DEF q1
  <2> QED BY <1>2, SMT DEF Byte
<1>4. q3 \in Nat /\ q3 < 128 /\ q2 = 256 * q3 + (q2 % 256) /\ (q2 % 256) \in Byte
  <2> HIDE DEF q2
  <2> QED BY <1>3, SMT DEF Byte
<1>5. q3 % 256 = q3 /\ q3 \in Byte
  <2> HIDE DEF q3
  <2> QED BY <1>4, SMT DEF Byte
<1>6. n \div 65536 = q2
  BY <1>1, SMT
<1>7. n \div 16777216 = q3
  BY <1>1, SMT
<1>8. PackedSize(n) = <<q3, q2 % 256, q1 % 256, n % 256>>
  <2> HIDE DEF q1, q2, q3
  <2>1. n \div 256 = q1
    BY SMT DEF q1
  <2> QED BY <1>5, <1>6, <1>7, <2>1, SMT DEF PackedSize
<1> HIDE DEF q1, q2, q3
<1>9. PackedSize(n) \in Seq(Byte) /\ Len(PackedSize(n)) = 4
  BY <1>2, <1>3, <1>4, <1>5, <1>8, SMT
<1>10. q3 * 16777216 + (q2 % 256) * 65536 + (q1 % 256) * 256 + (n % 256) = n
  BY <1>2, <1>3, <1>4, SMT DEF Byte
<1>11. SizeOf(PackedSize(n)) = q3 * 16777216 + (q2 % 256) * 65536 + (q1 % 256) * 256 + (n % 256)
  BY <1>8, SMT DEF SizeOf
<1> QED BY <1>9, <1>10, <1>11, SMT

\* SizeOf looks at four bytes only.
LEMMA SizeOfPrefix ==
  ASSUME NEW s, NEW t, \A i \in 1 .. 4 : s[i] = t[i]
  PROVE  SizeOf(s) = SizeOf(t)
BY DEF SizeOf

\* Sizes are compared as numbers.
LEMMA SizesAreNumbers == MaxSize \in Nat
BY SMT DEF MaxSize

\* The body of a package: a header byte and the data.
LEMMA BodyOfPackage ==
  ASSUME NEW p \in Package
  PROVE  /\ bufferToPack(p) \in Seq(Byte)
         /\ Len(bufferToPack(p)) = Len(p.data) + 1
         /\ Len(bufferToPack(p)) \in 1 .. MaxSize
         /\ bufferToPack(p)[1] = p.compress + 2 * p.type
         /\ \A i \in 1 .. Len(p.data) : bufferToPack(p)[i + 1] = p.data[i]
<1>1. p.type \in 0 .. 3 /\ p.compress \in {0, 1} /\ p.data \in Seq(Byte) /\ Len(p.data) \in Nat
  BY SocketReaderAssumption
<1> DEFINE b == p.compress + 2 * p.type
<1>2. b \in Byte
  <2>1. p.compress = 0 \/ p.compress = 1
    BY <1>1
  <2>2. p.type \in Int /\ 0 <= p.type /\ p.type <= 3
    BY <1>1
  <2> QED BY <2>1, <2>2, SMT DEF Byte
<1> HIDE DEF b
<1>3. <<b>> \in Seq(Byte) /\ Len(<<b>>) = 1 /\ <<b>>[1] = b
  BY <1>2
<1>4. bufferToPack(p) = <<b>> \o p.data
  BY DEF bufferToPack, b
<1>5. /\ <<b>> \o p.data \in Seq(Byte) /\ Len(<<b>> \o p.data) = 1 + Len(p.data)
      /\ \A i \in 1 .. 1 + Len(p.data) :
           (<<b>> \o p.data)[i] = IF i <= 1 THEN <<b>>[i] ELSE p.data[i - 1]
  BY <1>1, <1>3, ConcatProperties
<1>6. (<<b>> \o p.data)[1] = b /\ \A i \in 1 .. Len(p.data) : (<<b>> \o p.data)[i + 1] = p.data[i]
  BY <1>1, <1>3, <1>5
<1>7. Len(p.data) + 1 \in 1 .. MaxSize
  BY <1>1, SocketReaderAssumption, SizesAreNumbers
<1>8. b = p.compress + 2 * p.type
  BY DEF b
<1> QED BY <1>1, <1>4, <1>5, <1>6, <1>7, <1>8

\* What bufferToPack makes, GET_FLAG and the rest of OnData take apart again.
LEMMA PackRoundTrip ==
  ASSUME NEW p \in Package
  PROVE  Unpacked(bufferToPack(p)) = p
<1> DEFINE pack == bufferToPack(p)
<1>1. p.type \in 0 .. 3 /\ p.compress \in {0, 1} /\ p.data \in Seq(Byte) /\ Len(p.data) \in Nat
  BY SocketReaderAssumption
<1>2. pack[1] % 2 = p.compress /\ (pack[1] \div 2) % 4 = p.type
  BY <1>1, BodyOfPackage
<1>3. SubSeq(pack, 2, Len(pack)) = p.data
  <2> DEFINE d == SubSeq(pack, 2, Len(pack))
  <2>1. pack \in Seq(Byte) /\ Len(pack) = Len(p.data) + 1
    BY BodyOfPackage
  <2>2. /\ d \in Seq(Byte) /\ Len(d) = Len(p.data)
        /\ \A i \in 1 .. Len(p.data) : d[i] = pack[i + 1]
    <3>1. \A i \in 2 .. Len(pack) : pack[i] \in Byte
      BY <2>1, <1>1, ElementOfSeq
    <3> HIDE DEF pack
    <3> QED BY <1>1, <2>1, <3>1, SubSeqProperties
  <2>3. \A i \in 1 .. Len(p.data) : d[i] = p.data[i]
    BY <2>2, BodyOfPackage
  <2> HIDE DEF d
  <2>4. d = p.data
    BY <1>1, <2>2, <2>3, SeqEqual
  <2> QED BY <2>4 DEF d
<1>4. Unpacked(pack) = [type |-> p.type, compress |-> p.compress, data |-> p.data]
  BY <1>2, <1>3 DEF Unpacked, GET_FLAG
<1>5. p = [type |-> p.type, compress |-> p.compress, data |-> p.data]
  BY SocketReaderAssumption
<1> QED BY <1>4, <1>5

\* A package on the wire: the size of its body, and the body.
LEMMA FrameOfPackage ==
  ASSUME NEW p \in Package
  PROVE  /\ Frame(p) \in Seq(Byte)
         /\ Len(Frame(p)) = 4 + Len(bufferToPack(p))
         /\ \A i \in 1 .. 4 : Frame(p)[i] = PackedSize(Len(bufferToPack(p)))[i]
         /\ \A i \in 1 .. Len(bufferToPack(p)) : Frame(p)[4 + i] = bufferToPack(p)[i]
<1> DEFINE body == bufferToPack(p)
           size == PackedSize(Len(body))
<1>1. body \in Seq(Byte) /\ Len(body) \in Nat /\ Len(body) <= MaxSize
  BY BodyOfPackage, SizesAreNumbers
<1>2. size \in Seq(Byte) /\ Len(size) = 4
  BY <1>1, SizeRoundTrip
<1>3. Frame(p) = size \o body
  BY DEF Frame, protocolPack
<1> HIDE DEF body, size
<1>4. /\ size \o body \in Seq(Byte) /\ Len(size \o body) = 4 + Len(body)
      /\ \A i \in 1 .. 4 + Len(body) :
           (size \o body)[i] = IF i <= 4 THEN size[i] ELSE body[i - 4]
  <2>1. /\ size \o body \in Seq(Byte) /\ Len(size \o body) = Len(size) + Len(body)
        /\ \A i \in 1 .. Len(size) + Len(body) :
             (size \o body)[i] = IF i <= Len(size) THEN size[i] ELSE body[i - Len(size)]
    BY <1>1, <1>2, ConcatProperties
  <2> QED BY <1>2, <2>1
<1> QED BY <1>1, <1>3, <1>4 DEF body, size

-----------------------------------------------------------------------------
(* The buffer.                                                             *)

\* A part of a sequence of bytes.
LEMMA PartOfBytes ==
  ASSUME NEW s \in Seq(Byte), NEW m \in Nat, NEW n \in Nat, m + n <= Len(s)
  PROVE  /\ SubSeq(s, m + 1, m + n) \in Seq(Byte)
         /\ Len(SubSeq(s, m + 1, m + n)) = n
         /\ \A i \in 1 .. n : SubSeq(s, m + 1, m + n)[i] = s[m + i]
<1> DEFINE a == m + 1
           b == m + n
<1>1. /\ a \in Int /\ b \in Int /\ Len(s) \in Nat
      /\ b - a + 1 = n /\ (a <= b \/ n = 0) /\ \A i \in 1 .. n : a + i - 1 = m + i
      /\ a .. b \subseteq 1 .. Len(s)
  OBVIOUS
<1> HIDE DEF a, b
<1>2. \A i \in a .. b : s[i] \in Byte
  BY <1>1, ElementOfSeq
<1>3. /\ SubSeq(s, a, b) \in Seq(Byte)
      /\ Len(SubSeq(s, a, b)) = IF a <= b THEN b - a + 1 ELSE 0
      /\ \A i \in 1 .. b - a + 1 : SubSeq(s, a, b)[i] = s[a + i - 1]
  BY <1>1, <1>2, SubSeqProperties
<1>4. /\ SubSeq(s, a, b) \in Seq(Byte) /\ Len(SubSeq(s, a, b)) = n
      /\ \A i \in 1 .. n : SubSeq(s, a, b)[i] = s[m + i]
  BY <1>1, <1>3
<1> QED BY <1>4 DEF a, b

\* What is left of the buffer when its first n bytes have been taken.
LEMMA ReadsBytesLeavesTheRest ==
  ASSUME buffer \in Seq(Byte), NEW n \in 0 .. Len(buffer)
  PROVE  /\ ReadsBytes(n) \in Seq(Byte)
         /\ Len(ReadsBytes(n)) = Len(buffer) - n
         /\ \A i \in 1 .. Len(buffer) - n : ReadsBytes(n)[i] = buffer[n + i]
<1>1. PICK k \in Nat : k = Len(buffer) - n
  OBVIOUS
<1>2. n \in Nat /\ n + k = Len(buffer)
  BY <1>1
<1>3. /\ SubSeq(buffer, n + 1, n + k) \in Seq(Byte) /\ Len(SubSeq(buffer, n + 1, n + k)) = k
      /\ \A i \in 1 .. k : SubSeq(buffer, n + 1, n + k)[i] = buffer[n + i]
  BY <1>2, PartOfBytes
<1> QED BY <1>1, <1>2, <1>3 DEF ReadsBytes

\* The frame of the next package is where the one before it ends.
LEMMA NextFrame ==
  ASSUME ReaderTypeOK, NEW e \in [0 .. Len(sent) -> 0 .. Len(wire)], WireEnds(e),
         NEW k \in Nat, k < Len(sent)
  PROVE  LET p == sent[k + 1]
             n == Len(bufferToPack(p))
         IN  /\ p \in Package
             /\ n \in Nat /\ 1 <= n /\ n <= MaxSize
             /\ e[k + 1] = e[k] + 4 + n
             /\ e[k] \in Nat /\ e[k + 1] <= Len(wire)
             /\ \A j \in 1 .. 4 : wire[e[k] + j] = PackedSize(n)[j]
             /\ \A j \in 1 .. n : wire[e[k] + 4 + j] = bufferToPack(p)[j]
<1> DEFINE p == sent[k + 1]
           n == Len(bufferToPack(p))
<1>1. p \in Package
  BY ElementOfSeq DEF ReaderTypeOK
<1>2. n \in Nat /\ 1 <= n /\ n <= MaxSize
  BY <1>1, BodyOfPackage, SizesAreNumbers
<1>3. /\ Len(Frame(p)) = 4 + n
      /\ \A j \in 1 .. 4 : Frame(p)[j] = PackedSize(n)[j]
      /\ \A j \in 1 .. n : Frame(p)[4 + j] = bufferToPack(p)[j]
  BY <1>1, FrameOfPackage
<1>4. Len(sent) \in Nat /\ Len(wire) \in Nat
  BY DEF ReaderTypeOK
<1>5. k + 1 \in 1 .. Len(sent) /\ (k + 1) - 1 = k
  BY <1>4
<1>6. /\ e[k + 1] = e[k] + Len(Frame(p))
      /\ \A j \in 1 .. Len(Frame(p)) : wire[e[k] + j] = Frame(p)[j]
  BY <1>5 DEF WireEnds
<1>7. e[k] \in Nat /\ e[k + 1] \in Nat /\ e[k + 1] <= Len(wire)
  BY <1>4, <1>5
<1> HIDE DEF p, n
<1>8. e[k + 1] = e[k] + 4 + n
  BY <1>2, <1>3, <1>6, <1>7, SMTT(30)
<1>9. \A j \in 1 .. 4 : wire[e[k] + j] = PackedSize(n)[j]
  <2> TAKE j \in 1 .. 4
  <2>1. j \in 1 .. Len(Frame(p))
    BY <1>2, <1>3
  <2> QED BY <1>3, <1>6, <2>1
<1>10. \A j \in 1 .. n : wire[e[k] + 4 + j] = bufferToPack(p)[j]
  <2> TAKE j \in 1 .. n
  <2>1. 4 + j \in 1 .. Len(Frame(p)) /\ e[k] + (4 + j) = e[k] + 4 + j
    BY <1>2, <1>3, <1>7
  <2> QED BY <1>3, <1>6, <2>1
<1> QED BY <1>1, <1>2, <1>7, <1>8, <1>9, <1>10 DEF p, n

-----------------------------------------------------------------------------
(* The invariant holds at the start, and every step of the reader keeps it. *)

LEMMA ReaderInitInv == ReaderInit => ReaderInv
<1> SUFFICES ASSUME ReaderInit PROVE ReaderInv
  OBVIOUS
<1> DEFINE e == [i \in 0 .. 0 |-> 0]
<1>1. ReaderTypeOK
  BY SocketReaderAssumption DEF ReaderInit, ReaderTypeOK
<1>2. ParsedIsSent
  BY DEF ReaderInit, ParsedIsSent
<1>3. e \in [0 .. Len(sent) -> 0 .. Len(wire)]
  BY DEF ReaderInit
<1>4. WireEnds(e)
  BY DEF ReaderInit, WireEnds
<1>5. AtPackage(e)
  BY DEF ReaderInit, AtPackage, BufferIsFrom
<1> QED BY <1>1, <1>2, <1>3, <1>4, <1>5 DEF ReaderInv

\* A package more on the wire: those that are there stay where they are.
LEMMA PeerSendsInv ==
  ASSUME ReaderInv, NEW p \in Package, PeerSends(p)
  PROVE  ReaderInv'
<1> DEFINE n == Len(sent)
           f == Frame(p)
<1>1. ReaderTypeOK /\ ParsedIsSent
  BY DEF ReaderInv
<1>2. PICK e \in [0 .. Len(sent) -> 0 .. Len(wire)] :
        WireEnds(e) /\ (reader \in {"reading", "parsing"} => AtPackage(e))
  BY DEF ReaderInv
<1>3. PICK e2 : e2 = [i \in 0 .. n + 1 |-> IF i <= n THEN e[i] ELSE Len(wire) + Len(f)]
  OBVIOUS
<1>4. /\ n \in Nat /\ Len(wire) \in Nat /\ wire \in Seq(Byte) /\ sent \in Seq(Package)
      /\ got \in 0 .. Len(wire) /\ buffer \in Seq(Byte) /\ Len(buffer) \in Nat
      /\ parsed \in Seq(Package) /\ Len(parsed) \in Nat /\ Len(parsed) <= n
  BY <1>1 DEF ReaderTypeOK, ParsedIsSent
<1>5. /\ sent' \in Seq(Package) /\ Len(sent') = n + 1
      /\ \A i \in 1 .. n : sent'[i] = sent[i]
      /\ sent'[n + 1] = p
  BY <1>4, AppendProperties DEF PeerSends
<1>6. f \in Seq(Byte) /\ Len(f) \in Nat
  BY FrameOfPackage
<1>7. wire' = wire \o f
  BY DEF PeerSends, Frame
<1> HIDE DEF f
<1>8. /\ wire' \in Seq(Byte) /\ Len(wire') = Len(wire) + Len(f)
      /\ \A i \in 1 .. Len(wire) : wire'[i] = wire[i]
      /\ \A j \in 1 .. Len(f) : wire'[Len(wire) + j] = f[j]
  <2>1. /\ wire \o f \in Seq(Byte) /\ Len(wire \o f) = Len(wire) + Len(f)
        /\ \A i \in 1 .. Len(wire) + Len(f) :
             (wire \o f)[i] = IF i <= Len(wire) THEN wire[i] ELSE f[i - Len(wire)]
    BY <1>4, <1>6, ConcatProperties
  <2> QED BY <1>4, <1>6, <1>7, <2>1
<1>9. UNCHANGED <<got, reader, buffer, dataSize, parsed>>
  BY DEF PeerSends
<1>10. ReaderTypeOK'
  BY <1>1, <1>4, <1>5, <1>6, <1>8, <1>9, SocketReaderAssumption DEF ReaderTypeOK, PeerSends
<1>11. ParsedIsSent'
  BY <1>1, <1>4, <1>5, <1>9 DEF ParsedIsSent
<1>12. e2 \in [0 .. Len(sent') -> 0 .. Len(wire')]
  BY <1>2, <1>4, <1>5, <1>6, <1>8, <1>3
<1>13. /\ \A i \in 0 .. n : e2[i] = e[i] /\ e[i] \in 0 .. Len(wire)
       /\ e2[n + 1] = Len(wire) + Len(f)
  <2>1. \A i \in 0 .. n : e[i] \in 0 .. Len(wire)
    BY <1>2
  <2> HIDE DEF n
  <2>2. \A i \in 0 .. n : i \in 0 .. n + 1 /\ i <= n
    BY <1>4
  <2>3. n + 1 \in 0 .. n + 1 /\ ~(n + 1 <= n)
    BY <1>4
  <2> QED BY <1>3, <2>1, <2>2, <2>3
<1>14. WireEnds(e2)'
  <2>1. e2[0] = 0 /\ e2[Len(sent')] = Len(wire')
    BY <1>2, <1>4, <1>5, <1>8, <1>13 DEF WireEnds
  <2>2. ASSUME NEW i \in 1 .. n
        PROVE  /\ e2[i] = e2[i - 1] + Len(Frame(sent'[i]))
               /\ \A j \in 1 .. Len(Frame(sent'[i])) : wire'[e2[i - 1] + j] = Frame(sent'[i])[j]
    <3> DEFINE g == Frame(sent[i])
    <3>1. i \in 0 .. n /\ i - 1 \in 0 .. n /\ sent'[i] = sent[i]
      BY <1>4, <1>5
    <3>2. e[i] = e[i - 1] + Len(g) /\ \A j \in 1 .. Len(g) : wire[e[i - 1] + j] = g[j]
      BY <1>2, <1>4 DEF WireEnds
    <3>3. Len(g) \in Nat
      <4>1. sent[i] \in Package
        BY <1>4, ElementOfSeq
      <4> QED BY <4>1, FrameOfPackage, LenProperties
    <3> HIDE DEF g
    <3>4. \A j \in 1 .. Len(g) : e[i - 1] + j \in 1 .. Len(wire)
      <4>1. e[i] \in 0 .. Len(wire) /\ e[i - 1] \in 0 .. Len(wire)
        BY <1>13, <3>1
      <4> QED BY <1>4, <3>2, <3>3, <4>1
    <3>5. \A j \in 1 .. Len(g) : wire'[e2[i - 1] + j] = g[j]
      BY <1>8, <1>13, <3>1, <3>2, <3>4
    <3>6. e2[i] = e2[i - 1] + Len(g)
      BY <1>13, <3>1, <3>2
    <3> QED BY <3>1, <3>5, <3>6 DEF g
  <2>3. /\ e2[n + 1] = e2[(n + 1) - 1] + Len(Frame(sent'[n + 1]))
        /\ \A j \in 1 .. Len(Frame(sent'[n + 1])) :
             wire'[e2[(n + 1) - 1] + j] = Frame(sent'[n + 1])[j]
    <3>1. (n + 1) - 1 = n /\ e2[n] = Len(wire)
      BY <1>2, <1>4, <1>13 DEF WireEnds
    <3>2. Frame(sent'[n + 1]) = f
      BY <1>5 DEF f
    <3> QED BY <1>8, <1>13, <3>1, <3>2
  <2>4. \A i \in 1 .. n + 1 :
          /\ e2[i] = e2[i - 1] + Len(Frame(sent'[i]))
          /\ \A j \in 1 .. Len(Frame(sent'[i])) : wire'[e2[i - 1] + j] = Frame(sent'[i])[j]
    <3> TAKE i \in 1 .. n + 1
    <3>1. i \in 1 .. n \/ i = n + 1
      BY <1>4
    <3> QED BY <2>2, <2>3, <3>1
  <2> QED BY <1>5, <2>1, <2>4 DEF WireEnds, Frame, protocolPack, bufferToPack, PackedSize
<1>15. ASSUME reader' \in {"reading", "parsing"} PROVE AtPackage(e2)'
  <2>1. AtPackage(e)
    BY <1>2, <1>9, <1>15
  <2>2. e2[Len(parsed)] = e[Len(parsed)] /\ e[Len(parsed)] \in Nat
    BY <1>4, <1>13
  <2>3. ASSUME NEW pos \in Nat, BufferIsFrom(pos) PROVE BufferIsFrom(pos)'
    <3>1. got = pos + Len(buffer) /\ \A i \in 1 .. Len(buffer) : buffer[i] = wire[pos + i]
      BY <2>3 DEF BufferIsFrom
    <3>2. \A i \in 1 .. Len(buffer) : pos + i \in 1 .. Len(wire)
      BY <1>4, <3>1
    <3>3. \A i \in 1 .. Len(buffer) : wire'[pos + i] = buffer[i]
      BY <1>8, <3>1, <3>2
    <3> QED BY <1>9, <3>1, <3>3 DEF BufferIsFrom
  <2>4. CASE dataSize = 0
    BY <1>9, <2>1, <2>2, <2>3, <2>4 DEF AtPackage
  <2>5. CASE dataSize # 0
    <3>1. /\ BufferIsFrom(e[Len(parsed)] + 4)
          /\ Len(parsed) < n
          /\ dataSize = Len(bufferToPack(sent[Len(parsed) + 1]))
      BY <2>1, <2>5 DEF AtPackage
    <3>2. Len(parsed) + 1 \in 1 .. n /\ Len(parsed) < n + 1 /\ e[Len(parsed)] + 4 \in Nat
      BY <1>4, <2>2, <3>1
    <3>3. PICK pos \in Nat : pos = e2[Len(parsed)] + 4 /\ BufferIsFrom(pos)'
      BY <2>2, <2>3, <3>1, <3>2
    <3>4. dataSize = Len(bufferToPack(sent'[Len(parsed) + 1]))
      BY <1>5, <3>1, <3>2
    <3> QED BY <1>5, <1>9, <2>5, <3>2, <3>3, <3>4 DEF AtPackage, BufferIsFrom, bufferToPack
  <2> QED BY <2>4, <2>5
<1> QED BY <1>10, <1>11, <1>12, <1>14, <1>15 DEF ReaderInv

\* While nothing is sent, the packages end where they did.
LEMMA EndsStay ==
  ASSUME NEW e, WireEnds(e), UNCHANGED <<sent, wire>>
  PROVE  WireEnds(e)'
BY SMT DEF WireEnds

\* The bytes that con.Read returns are the next ones on the wire.
LEMMA ReadInv ==
  ASSUME ReaderInv, NEW n \in 1 .. ReadSize, Read(n)
  PROVE  ReaderInv'
<1> DEFINE more == SubSeq(wire, got + 1, got + n)
<1>1. ReaderTypeOK /\ ParsedIsSent
  BY DEF ReaderInv
<1>2. PICK e \in [0 .. Len(sent) -> 0 .. Len(wire)] :
        WireEnds(e) /\ (reader \in {"reading", "parsing"} => AtPackage(e))
  BY DEF ReaderInv
<1>3. /\ UNCHANGED <<sent, wire, dataSize, parsed>>
      /\ got' = got + n /\ reader = "reading" /\ reader' = "parsing"
      /\ buffer' = buffer \o more /\ got + n <= Len(wire)
  BY DEF Read
<1>4. /\ wire \in Seq(Byte) /\ buffer \in Seq(Byte) /\ Len(wire) \in Nat /\ Len(buffer) \in Nat
      /\ got \in Nat /\ n \in Nat \ {0}
  BY <1>1, SocketReaderAssumption DEF ReaderTypeOK
<1>5. more \in Seq(Byte) /\ Len(more) = n /\ \A i \in 1 .. n : more[i] = wire[got + i]
  BY <1>3, <1>4, PartOfBytes
<1> HIDE DEF more
<1>6. /\ buffer' \in Seq(Byte) /\ Len(buffer') = Len(buffer) + n
      /\ \A i \in 1 .. Len(buffer) + n :
           buffer'[i] = IF i <= Len(buffer) THEN buffer[i] ELSE more[i - Len(buffer)]
  BY <1>3, <1>4, <1>5, ConcatProperties
<1>7. ReaderTypeOK'
  BY <1>1, <1>3, <1>4, <1>6 DEF ReaderTypeOK
<1>8. ParsedIsSent' /\ WireEnds(e)'
  BY <1>1, <1>2, <1>3, EndsStay DEF ParsedIsSent
<1>9. ASSUME NEW pos \in Nat, BufferIsFrom(pos) PROVE BufferIsFrom(pos)'
  <2>1. got = pos + Len(buffer) /\ \A i \in 1 .. Len(buffer) : buffer[i] = wire[pos + i]
    BY <1>9 DEF BufferIsFrom
  <2>2. ASSUME NEW i \in 1 .. Len(buffer) + n PROVE buffer'[i] = wire[pos + i]
    <3>1. CASE i <= Len(buffer)
      <4>1. i \in 1 .. Len(buffer)
        BY <1>4, <3>1
      <4> QED BY <1>6, <2>1, <3>1, <4>1
    <3>2. CASE ~(i <= Len(buffer))
      <4>1. i - Len(buffer) \in 1 .. n /\ got + (i - Len(buffer)) = pos + i
        BY <1>4, <2>1, <3>2
      <4> QED BY <1>5, <1>6, <3>2, <4>1
    <3> QED BY <3>1, <3>2
  <2> QED BY <1>3, <1>4, <1>6, <2>1, <2>2 DEF BufferIsFrom
<1>10. AtPackage(e)'
  <2>1. AtPackage(e) /\ e[Len(parsed)] \in Nat
    BY <1>1, <1>2, <1>3 DEF ReaderTypeOK, ParsedIsSent
  <2>2. CASE dataSize = 0
    BY <1>3, <1>9, <2>1, <2>2 DEF AtPackage
  <2>3. CASE dataSize # 0
    <3>1. PICK pos \in Nat : pos = e[Len(parsed)] + 4 /\ BufferIsFrom(pos)'
      BY <1>9, <2>1, <2>3 DEF AtPackage
    <3> QED BY <1>3, <2>1, <2>3, <3>1 DEF AtPackage, BufferIsFrom, bufferToPack
  <2> QED BY <2>2, <2>3
<1>11. e \in [0 .. Len(sent') -> 0 .. Len(wire')]
  BY <1>3
<1> QED BY <1>7, <1>8, <1>10, <1>11 DEF ReaderInv

\* The four bytes at the start of a frame say how long its body is.
LEMMA TakeSizeInv ==
  ASSUME ReaderInv, TakeSize
  PROVE  ReaderInv'
<1>1. ReaderTypeOK /\ ParsedIsSent
  BY DEF ReaderInv
<1>2. PICK e \in [0 .. Len(sent) -> 0 .. Len(wire)] :
        WireEnds(e) /\ (reader \in {"reading", "parsing"} => AtPackage(e))
  BY DEF ReaderInv
<1>3. /\ UNCHANGED <<sent, wire, got, reader, parsed>>
      /\ reader = "parsing" /\ dataSize = 0 /\ Len(buffer) >= 4
      /\ dataSize' = SizeOf(buffer) /\ buffer' = ReadsBytes(4)
  BY DEF TakeSize
<1> DEFINE k == Len(parsed)
<1>4. /\ buffer \in Seq(Byte) /\ Len(buffer) \in Nat /\ Len(wire) \in Nat /\ Len(sent) \in Nat
      /\ got \in 0 .. Len(wire) /\ k \in Nat /\ k <= Len(sent)
  BY <1>1 DEF ReaderTypeOK, ParsedIsSent
<1> HIDE DEF k
<1>5. BufferIsFrom(e[k]) /\ e[k] \in Nat
  BY <1>2, <1>3, <1>4 DEF AtPackage, k
<1>6. got = e[k] + Len(buffer) /\ \A i \in 1 .. Len(buffer) : buffer[i] = wire[e[k] + i]
  BY <1>5 DEF BufferIsFrom
<1>7. k < Len(sent)
  <2> SUFFICES ASSUME k = Len(sent) PROVE FALSE
    BY <1>4
  <2>1. e[k] = Len(wire)
    BY <1>2 DEF WireEnds
  <2> QED BY <1>3, <1>4, <1>5, <1>6, <2>1
<1> DEFINE n == Len(bufferToPack(sent[k + 1]))
<1>8. /\ n \in Nat /\ 1 <= n /\ n <= MaxSize
      /\ \A j \in 1 .. 4 : wire[e[k] + j] = PackedSize(n)[j]
  BY <1>1, <1>2, <1>4, <1>7, NextFrame
<1> HIDE DEF n
<1>9. dataSize' = n
  <2>1. \A j \in 1 .. 4 : j \in 1 .. Len(buffer)
    BY <1>3, <1>4
  <2>2. \A j \in 1 .. 4 : buffer[j] = PackedSize(n)[j]
    BY <1>6, <1>8, <2>1
  <2>3. SizeOf(buffer) = SizeOf(PackedSize(n))
    BY <2>2, SizeOfPrefix
  <2> QED BY <1>3, <1>8, <2>3, SizeRoundTrip
<1>10. /\ buffer' \in Seq(Byte) /\ Len(buffer') = Len(buffer) - 4
       /\ \A i \in 1 .. Len(buffer) - 4 : buffer'[i] = buffer[4 + i]
  <2>1. 4 \in 0 .. Len(buffer)
    BY <1>3, <1>4
  <2> QED BY <1>3, <1>4, <2>1, ReadsBytesLeavesTheRest
<1>11. ReaderTypeOK'
  BY <1>1, <1>3, <1>4, <1>8, <1>9, <1>10 DEF ReaderTypeOK
<1>12. ParsedIsSent' /\ WireEnds(e)'
  BY <1>1, <1>2, <1>3, EndsStay DEF ParsedIsSent
<1>13. AtPackage(e)'
  <2>1. PICK pos \in Nat : pos = e[k] + 4
    BY <1>5
  <2>2. ASSUME NEW i \in 1 .. Len(buffer) - 4 PROVE buffer'[i] = wire[pos + i]
    <3>1. 4 + i \in 1 .. Len(buffer) /\ e[k] + (4 + i) = pos + i
      BY <1>4, <1>5, <2>1
    <3> QED BY <1>6, <1>10, <3>1
  <2>3. got' = pos + Len(buffer')
    BY <1>3, <1>4, <1>5, <1>6, <1>10, <2>1
  <2>4. BufferIsFrom(pos)'
    BY <1>3, <1>10, <2>2, <2>3 DEF BufferIsFrom
  <2>5. dataSize' # 0 /\ e[Len(parsed')] + 4 = pos /\ Len(parsed') < Len(sent')
    BY <1>3, <1>7, <1>8, <1>9, <2>1 DEF k
  <2>6. dataSize' = Len(bufferToPack(sent'[Len(parsed') + 1]))
    BY <1>3, <1>9 DEF k, n
  <2> QED BY <2>4, <2>5, <2>6 DEF AtPackage, BufferIsFrom, bufferToPack
<1>14. e \in [0 .. Len(sent') -> 0 .. Len(wire')]
  BY <1>3
<1> QED BY <1>11, <1>12, <1>13, <1>14 DEF ReaderInv

\* The body of the next package, and nothing else, is what the reader unpacks.
LEMMA NextPackage ==
  ASSUME ReaderInv, reader = "parsing", dataSize # 0, Whole
  PROVE  /\ Len(parsed) < Len(sent)
         /\ dataSize \in 0 .. Len(buffer)
         /\ Unpacked(SubSeq(buffer, 1, dataSize)) = sent[Len(parsed) + 1]
<1> DEFINE k == Len(parsed)
           p == sent[k + 1]
           d == SubSeq(buffer, 1, dataSize)
<1>1. ReaderTypeOK /\ ParsedIsSent
  BY DEF ReaderInv
<1>2. PICK e \in [0 .. Len(sent) -> 0 .. Len(wire)] : WireEnds(e) /\ AtPackage(e)
  BY DEF ReaderInv
<1>3. /\ buffer \in Seq(Byte) /\ Len(buffer) \in Nat /\ Len(sent) \in Nat /\ k \in Nat
      /\ dataSize \in Nat /\ dataSize <= Len(buffer)
  BY <1>1 DEF ReaderTypeOK, Whole
<1>4. BufferIsFrom(e[k] + 4) /\ k < Len(sent) /\ dataSize = Len(bufferToPack(p))
  BY <1>2 DEF AtPackage
<1>5. /\ p \in Package /\ e[k] \in Nat
      /\ \A j \in 1 .. dataSize : wire[e[k] + 4 + j] = bufferToPack(p)[j]
  BY <1>1, <1>2, <1>3, <1>4, NextFrame
<1>6. bufferToPack(p) \in Seq(Byte)
  BY <1>5, BodyOfPackage
<1> HIDE DEF k, p
<1>7. /\ d \in Seq(Byte) /\ Len(d) = dataSize
      /\ \A j \in 1 .. dataSize : d[j] = buffer[j]
  <2>1. \A i \in 1 .. dataSize : buffer[i] \in Byte
    BY <1>3, ElementOfSeq
  <2>2. /\ d \in Seq(Byte) /\ Len(d) = IF 1 <= dataSize THEN dataSize - 1 + 1 ELSE 0
        /\ \A i \in 1 .. dataSize - 1 + 1 : d[i] = buffer[1 + i - 1]
    BY <1>3, <2>1, SubSeqProperties
  <2> HIDE DEF d
  <2> QED BY <1>3, <2>2
<1> HIDE DEF d
<1>8. \A j \in 1 .. dataSize : d[j] = bufferToPack(p)[j]
  <2> TAKE j \in 1 .. dataSize
  <2>1. j \in 1 .. Len(buffer)
    BY <1>3
  <2>2. buffer[j] = wire[e[k] + 4 + j]
    BY <1>4, <2>1 DEF BufferIsFrom
  <2> QED BY <1>5, <1>7, <2>2
<1>9. d = bufferToPack(p)
  BY <1>4, <1>6, <1>7, <1>8, SeqEqual
<1>10. Unpacked(d) = p
  BY <1>5, <1>9, PackRoundTrip
<1> QED BY <1>3, <1>4, <1>10 DEF d, k, p

\* A package is taken off the buffer, and the next frame begins behind it.
LEMMA TakePackageInv ==
  ASSUME ReaderInv, TakePackage
  PROVE  ReaderInv'
<1> DEFINE k == Len(parsed)
           p == sent[k + 1]
<1>1. ReaderTypeOK /\ ParsedIsSent
  BY DEF ReaderInv
<1>2. PICK e \in [0 .. Len(sent) -> 0 .. Len(wire)] :
        WireEnds(e) /\ (reader \in {"reading", "parsing"} => AtPackage(e))
  BY DEF ReaderInv
<1>3. /\ UNCHANGED <<sent, wire, got, reader>>
      /\ reader = "parsing" /\ dataSize # 0 /\ Whole
      /\ dataSize' = 0 /\ buffer' = ReadsBytes(dataSize)
      /\ parsed' = Append(parsed, Unpacked(SubSeq(buffer, 1, dataSize)))
  BY DEF TakePackage
<1>4. k < Len(sent) /\ dataSize \in 0 .. Len(buffer) /\ parsed' = Append(parsed, p)
  BY <1>3, NextPackage
<1>5. /\ buffer \in Seq(Byte) /\ Len(buffer) \in Nat /\ Len(sent) \in Nat /\ k \in Nat
      /\ parsed \in Seq(Package) /\ dataSize \in Nat
  BY <1>1 DEF ReaderTypeOK
<1>6. BufferIsFrom(e[k] + 4) /\ dataSize = Len(bufferToPack(p))
  BY <1>2, <1>3 DEF AtPackage
<1>7. p \in Package /\ e[k] \in Nat /\ e[k + 1] = e[k] + 4 + dataSize
  BY <1>1, <1>2, <1>4, <1>5, <1>6, NextFrame
<1>8. /\ parsed' \in Seq(Package) /\ Len(parsed') = k + 1
      /\ \A i \in 1 .. k : parsed'[i] = parsed[i]
      /\ parsed'[k + 1] = p
  BY <1>4, <1>5, <1>7, AppendProperties
<1>9. /\ buffer' \in Seq(Byte) /\ Len(buffer') = Len(buffer) - dataSize
      /\ \A i \in 1 .. Len(buffer) - dataSize : buffer'[i] = buffer[dataSize + i]
  BY <1>3, <1>4, <1>5, ReadsBytesLeavesTheRest
<1>10. ReaderTypeOK'
  BY <1>1, <1>3, <1>8, <1>9 DEF ReaderTypeOK
<1>11. ParsedIsSent'
  <2>1. \A i \in 1 .. k : parsed[i] = sent[i]
    BY <1>1 DEF ParsedIsSent
  <2>2. ASSUME NEW i \in 1 .. k + 1 PROVE parsed'[i] = sent[i]
    <3>1. CASE i = k + 1
      BY <1>8, <3>1
    <3>2. CASE i # k + 1
      <4>1. i \in 1 .. k
        BY <1>5, <3>2
      <4> QED BY <1>8, <2>1, <4>1
    <3> QED BY <3>1, <3>2
  <2> QED BY <1>3, <1>4, <1>5, <1>8, <2>2 DEF ParsedIsSent
<1>12. WireEnds(e)'
  BY <1>2, <1>3, EndsStay
<1> HIDE DEF k, p
<1>13. AtPackage(e)'
  <2>1. PICK pos \in Nat : pos = e[k] + 4 + dataSize
    BY <1>5, <1>7
  <2>2. got = e[k] + 4 + Len(buffer) /\ \A i \in 1 .. Len(buffer) : buffer[i] = wire[e[k] + 4 + i]
    BY <1>6 DEF BufferIsFrom
  <2>3. got' = pos + Len(buffer')
    BY <1>3, <1>4, <1>5, <1>7, <1>9, <2>1, <2>2, SMTT(30)
  <2>4. ASSUME NEW i \in 1 .. Len(buffer) - dataSize PROVE buffer'[i] = wire[pos + i]
    <3>1. dataSize + i \in 1 .. Len(buffer) /\ e[k] + 4 + (dataSize + i) = pos + i
      BY <1>4, <1>5, <1>7, <2>1
    <3> QED BY <1>9, <2>2, <3>1
  <2>5. BufferIsFrom(pos)'
    BY <1>3, <1>9, <2>3, <2>4 DEF BufferIsFrom
  <2>6. dataSize' = 0 /\ e[Len(parsed')] = pos
    BY <1>3, <1>7, <1>8, <2>1
  <2> QED BY <2>5, <2>6 DEF AtPackage, BufferIsFrom
<1>14. e \in [0 .. Len(sent') -> 0 .. Len(wire')]
  BY <1>3
<1> QED BY <1>10, <1>11, <1>12, <1>13, <1>14 DEF ReaderInv

\* Behind a corrupt package the reader is lost: it never looks again.
LEMMA TakeCorruptInv ==
  ASSUME ReaderInv, TakeCorrupt
  PROVE  ReaderInv'
<1>1. ReaderTypeOK /\ ParsedIsSent
  BY DEF ReaderInv
<1>2. PICK e \in [0 .. Len(sent) -> 0 .. Len(wire)] : WireEnds(e)
  BY DEF ReaderInv
<1>3. /\ UNCHANGED <<sent, wire, got, dataSize, parsed>>
      /\ reader = "parsing" /\ dataSize # 0 /\ Whole
      /\ reader' = "failed" /\ buffer' = ReadsBytes(dataSize)
  BY DEF TakeCorrupt
<1>4. buffer' \in Seq(Byte)
  BY <1>1, <1>3, NextPackage, ReadsBytesLeavesTheRest DEF ReaderTypeOK
<1>5. ReaderTypeOK'
  BY <1>1, <1>3, <1>4 DEF ReaderTypeOK
<1>6. ParsedIsSent' /\ WireEnds(e)'
  BY <1>1, <1>2, <1>3, EndsStay DEF ParsedIsSent
<1>7. e \in [0 .. Len(sent') -> 0 .. Len(wire')]
  BY <1>3
<1> QED BY <1>3, <1>5, <1>6, <1>7 DEF ReaderInv

\* Nothing else touches the bytes.
LEMMA PlaceInv ==
  ASSUME ReaderInv, UNCHANGED <<sent, wire, got, buffer, dataSize, parsed>>,
         \/ reader' = reader
         \/ reader = "parsing" /\ reader' = "reading"
         \/ reader' \in {"failed", "closing"}
  PROVE  ReaderInv'
<1>1. ReaderTypeOK /\ ParsedIsSent
  BY DEF ReaderInv
<1>2. PICK e \in [0 .. Len(sent) -> 0 .. Len(wire)] :
        WireEnds(e) /\ (reader \in {"reading", "parsing"} => AtPackage(e))
  BY DEF ReaderInv
<1>3. ReaderTypeOK'
  BY <1>1 DEF ReaderTypeOK
<1>4. ParsedIsSent' /\ WireEnds(e)'
  BY <1>1, <1>2, EndsStay DEF ParsedIsSent
<1>5. AtPackage(e) => AtPackage(e)'
  BY DEF AtPackage, BufferIsFrom, bufferToPack
<1>6. e \in [0 .. Len(sent') -> 0 .. Len(wire')]
  OBVIOUS
<1> QED BY <1>2, <1>3, <1>4, <1>5, <1>6 DEF ReaderInv

\* Every step of a connection keeps the reader's invariant.
LEMMA NextReaderInv == ReaderInv /\ [Next]_vars => ReaderInv'
<1> SUFFICES ASSUME ReaderInv, [Next]_vars PROVE ReaderInv'
  OBVIOUS
<1>1. CASE Sends
  BY <1>1, PeerSendsInv DEF Sends
<1>2. CASE Reads
  BY <1>2, ReadInv DEF Reads
<1>3. CASE Parses
  <2>1. CASE NeedsMore
    BY <2>1, PlaceInv DEF NeedsMore
  <2> QED BY <1>3, <2>1, TakeSizeInv, TakePackageInv, TakeCorruptInv DEF Parses, OnData
<1>4. CASE ReadFails \/ LoopCloses
  BY <1>4, PlaceInv DEF ReadFails, LoopCloses
<1>5. CASE UNCHANGED readerVars
  BY <1>5, PlaceInv DEF readerVars
<1>6. CASE PeerGoes \/ ReceiverLeaves \/ Close
  BY <1>5, <1>6 DEF PeerGoes, ReceiverLeaves, Close, ClosesChannel, LocksList, CallsBack, Finishes
<1>7. ASSUME NEW i \in 1 .. MaxPackages, Delivers(i) \/ HandlerPanics(i)
      PROVE  UNCHANGED readerVars
  BY <1>7 DEF Delivers, HandlerPanics
<1>8. ASSUME NEW s \in Session,
             SessionStarts(s) \/ Registers(s) \/ StartsWriting(s) \/ Written(s) \/ WriteFails(s)
      PROVE  UNCHANGED readerVars
  BY <1>8 DEF SessionStarts, Registers, StartsWriting, Written, WriteFails
<1>9. ASSUME NEW c, OtherCloses(c) \/ Returns(c)
      PROVE  UNCHANGED readerVars
  BY <1>9 DEF OtherCloses, Returns
<1> QED BY <1>1, <1>2, <1>3, <1>4, <1>5, <1>6, <1>7, <1>8, <1>9 DEF Next, vars

-----------------------------------------------------------------------------
(* Theorems.                                                               *)

\* Whatever sizes the packages have, and however the bytes are split, the
\* reader stands where a package begins, or behind its size.
THEOREM ReaderInvariant == Spec => []ReaderInv
<1>1. Init => ReaderInv
  BY ReaderInitInv DEF Init
<1> QED BY <1>1, NextReaderInv, PTL DEF Spec

\* What is handed to the handlers is what has been sent, from the start on.
THEOREM FramingIsExact == Spec => []ParsedIsSent
<1>1. ReaderInv => ParsedIsSent
  BY DEF ReaderInv
<1> QED BY <1>1, ReaderInvariant, PTL

\* The reader's loop implements the stream of packages: no split of the bytes
\* loses, repeats, reorders or changes one.
THEOREM ReaderImplementsStream == Spec => ImplementsPackageStream
<1>1. Init => Stream!Init
  BY DEF Init, ReaderInit, Stream!Init
<1>2. ReaderInv /\ [Next]_vars => [Stream!Next]_<<sent, parsed>>
  <2> SUFFICES ASSUME ReaderInv, [Next]_vars PROVE Stream!Next \/ UNCHANGED <<sent, parsed>>
    OBVIOUS
  <2>1. CASE Sends
    BY <2>1 DEF Sends, PeerSends, Stream!Next, Stream!Send
  <2>2. CASE Parses
    <3>1. CASE TakePackage
      BY <3>1, NextPackage DEF TakePackage, Stream!Next, Stream!Take
    <3> QED BY <2>2, <3>1 DEF Parses, OnData, TakeSize, TakeCorrupt, NeedsMore
  <2>3. CASE Reads \/ ReadFails \/ LoopCloses
    BY <2>3 DEF Reads, Read, ReadFails, LoopCloses
  <2>4. CASE UNCHANGED readerVars
    BY <2>4 DEF readerVars
  <2>5. CASE PeerGoes \/ ReceiverLeaves \/ Close
    BY <2>4, <2>5 DEF PeerGoes, ReceiverLeaves, Close, ClosesChannel, LocksList, CallsBack, Finishes
  <2>6. ASSUME NEW i \in 1 .. MaxPackages, Delivers(i) \/ HandlerPanics(i)
        PROVE  UNCHANGED readerVars
    BY <2>6 DEF Delivers, HandlerPanics
  <2>7. ASSUME NEW s \in Session,
               SessionStarts(s) \/ Registers(s) \/ StartsWriting(s) \/ Written(s) \/ WriteFails(s)
        PROVE  UNCHANGED readerVars
    BY <2>7 DEF SessionStarts, Registers, StartsWriting, Written, WriteFails
  <2>8. ASSUME NEW c, OtherCloses(c) \/ Returns(c)
        PROVE  UNCHANGED readerVars
    BY <2>8 DEF OtherCloses, Returns
  <2> QED BY <2>1, <2>2, <2>3, <2>4, <2>5, <2>6, <2>7, <2>8 DEF Next, vars
<1> QED BY <1>1, <1>2, ReaderInvariant, PTL DEF Spec, ImplementsPackageStream, Stream!Spec

-----------------------------------------------------------------------------
(* Handlers and the teardown.                                              *)

\* Handlers and the receiver have packages that were parsed.
HandlersInv == handlers \subseteq 1 .. Len(parsed) /\ handled \subseteq 1 .. Len(parsed)

TeardownTypeOK ==
  /\ peerGone \in BOOLEAN
  /\ receiver \in {"select", "gone"}
  /\ sessions \in [Session -> {"none", "starting", "select", "writing", "told", "quit"}]
  /\ callbacks \in Seq(Session)
  /\ closing \in {"open", "closing", "locking", "calling", "done"}
  /\ called \in 0 .. Len(callbacks)
  /\ callers \subseteq Caller

LEMMA InitHandlersInv == Init => HandlersInv /\ TeardownTypeOK
<1> SUFFICES ASSUME Init PROVE HandlersInv /\ TeardownTypeOK
  OBVIOUS
<1>1. HandlersInv
  BY DEF Init, HandlersInv
<1>2. TeardownTypeOK
  <2>1. callbacks \in Seq(Session) /\ called \in 0 .. Len(callbacks)
    BY DEF Init
  <2>2. sessions \in [Session -> {"none", "starting", "select", "writing", "told", "quit"}]
    BY DEF Init
  <2>3. /\ peerGone \in BOOLEAN /\ receiver \in {"select", "gone"}
        /\ closing \in {"open", "closing", "locking", "calling", "done"} /\ callers \subseteq Caller
    BY Zenon DEF Init
  <2> QED BY <2>1, <2>2, <2>3 DEF TeardownTypeOK
<1> QED BY <1>1, <1>2

\* A package that is parsed gets a handler, and one that is received has had one.
LEMMA NextHandlersInv == ReaderInv /\ HandlersInv /\ [Next]_vars => HandlersInv'
<1> SUFFICES ASSUME ReaderInv, HandlersInv, [Next]_vars PROVE HandlersInv'
  OBVIOUS
<1> DEFINE n == Len(parsed)
<1>1. n \in Nat /\ parsed \in Seq(Package)
  BY DEF ReaderInv, ReaderTypeOK
<1>2. ASSUME UNCHANGED <<parsed, handlers, handled>> PROVE HandlersInv'
  BY <1>2 DEF HandlersInv
<1>3. CASE Parses
  <2>1. CASE UNCHANGED parsed
    BY <1>2, <1>3, <2>1 DEF Parses
  <2>2. CASE TakePackage
    <3>1. Len(parsed') = n + 1
      <4>1. PICK p \in Package : parsed' = Append(parsed, p)
        <5>1. /\ reader = "parsing" /\ dataSize # 0 /\ Whole
              /\ parsed' = Append(parsed, Unpacked(SubSeq(buffer, 1, dataSize)))
          BY <2>2 DEF TakePackage
        <5>2. Unpacked(SubSeq(buffer, 1, dataSize)) = sent[n + 1] /\ n < Len(sent)
          BY <5>1, NextPackage
        <5>3. sent[n + 1] \in Package
          BY <1>1, <5>2, ElementOfSeq DEF ReaderInv, ReaderTypeOK
        <5> QED BY <5>1, <5>2, <5>3
      <4> QED BY <1>1, <4>1, AppendProperties
    <3>2. handlers' \subseteq handlers \cup {n + 1} /\ UNCHANGED handled
      BY <1>1, <1>3, <3>1 DEF Parses
    <3>3. 1 .. n + 1 = (1 .. n) \cup {n + 1}
      BY <1>1
    <3> QED BY <3>1, <3>2, <3>3 DEF HandlersInv
  <2> QED BY <1>3, <2>1, <2>2 DEF Parses, OnData, TakeSize, TakeCorrupt, NeedsMore
<1>4. ASSUME NEW i \in 1 .. MaxPackages, Delivers(i) \/ HandlerPanics(i) PROVE HandlersInv'
  BY <1>4 DEF Delivers, HandlerPanics, readerVars, HandlersInv
<1>5. CASE Sends \/ Reads \/ ReadFails \/ LoopCloses \/ PeerGoes \/ ReceiverLeaves \/ Close
  BY <1>2, <1>5 DEF Sends, PeerSends, Reads, Read, ReadFails, LoopCloses, PeerGoes, ReceiverLeaves,
                    Close, ClosesChannel, LocksList, CallsBack, Finishes, clientVars, readerVars
<1>6. ASSUME NEW s \in Session,
             SessionStarts(s) \/ Registers(s) \/ StartsWriting(s) \/ Written(s) \/ WriteFails(s)
      PROVE  HandlersInv'
  BY <1>2, <1>6 DEF SessionStarts, Registers, StartsWriting, Written, WriteFails, readerVars
<1>7. ASSUME NEW c, OtherCloses(c) \/ Returns(c)
      PROVE  HandlersInv'
  BY <1>2, <1>7 DEF OtherCloses, Returns, readerVars
<1>8. CASE UNCHANGED vars
  BY <1>2, <1>8 DEF vars, readerVars, clientVars
<1> QED BY <1>3, <1>4, <1>5, <1>6, <1>7, <1>8 DEF Next

LEMMA NextTeardownTypeOK == TeardownTypeOK /\ [Next]_vars => TeardownTypeOK'
<1> SUFFICES ASSUME TeardownTypeOK, [Next]_vars PROVE TeardownTypeOK'
  OBVIOUS
<1> DEFINE tearVars == <<peerGone, receiver, sessions, callbacks, closing, called, callers>>
<1>1. CASE UNCHANGED tearVars
  BY <1>1 DEF TeardownTypeOK
<1>2. CASE Sends \/ Reads \/ Parses \/ ReadFails
  BY <1>1, <1>2 DEF Sends, Reads, Parses, ReadFails, clientVars
<1>3. CASE PeerGoes
  BY <1>3 DEF PeerGoes, TeardownTypeOK
<1>4. CASE ReceiverLeaves
  BY <1>4 DEF ReceiverLeaves, TeardownTypeOK
<1>5. CASE LoopCloses
  BY <1>5 DEF LoopCloses, Enter, Caller, TeardownTypeOK
<1>6. ASSUME NEW c \in OtherCaller, OtherCloses(c) PROVE TeardownTypeOK'
  BY <1>6 DEF OtherCloses, Enter, Caller, TeardownTypeOK
<1>7. ASSUME NEW c, Returns(c) PROVE TeardownTypeOK'
  BY <1>7 DEF Returns, TeardownTypeOK
<1>8. ASSUME NEW i, Delivers(i) \/ HandlerPanics(i) PROVE TeardownTypeOK'
  BY <1>1, <1>8 DEF Delivers, HandlerPanics
<1>9. ASSUME NEW s \in Session, Registers(s) PROVE TeardownTypeOK'
  <2>1. /\ sessions' \in [Session -> {"none", "starting", "select", "writing", "told", "quit"}]
        /\ UNCHANGED <<peerGone, receiver, closing, called, callers>>
        /\ callbacks' = Append(callbacks, s)
    BY <1>9 DEF Registers, Becomes, TeardownTypeOK
  <2>2. callbacks' \in Seq(Session) /\ Len(callbacks') = Len(callbacks) + 1 /\ Len(callbacks) \in Nat
    BY <2>1, AppendProperties, LenProperties DEF TeardownTypeOK
  <2> QED BY <2>1, <2>2 DEF TeardownTypeOK
<1>10. ASSUME NEW s \in Session, SessionStarts(s) \/ StartsWriting(s) \/ Written(s) \/ WriteFails(s)
       PROVE  TeardownTypeOK'
  BY <1>10 DEF SessionStarts, StartsWriting, Written, WriteFails, Becomes, TeardownTypeOK
<1>11. CASE Close
  <2>1. CASE ClosesChannel \/ LocksList
    BY <2>1 DEF ClosesChannel, LocksList, TeardownTypeOK
  <2>2. CASE CallsBack
    BY <2>2 DEF CallsBack, Becomes, TeardownTypeOK
  <2>3. CASE Finishes
    BY <2>3 DEF Finishes, TeardownTypeOK
  <2> QED BY <1>11, <2>1, <2>2, <2>3 DEF Close
<1>12. CASE UNCHANGED vars
  BY <1>1, <1>12 DEF vars, clientVars
<1> QED BY <1>2, <1>3, <1>4, <1>5, <1>6, <1>7, <1>8, <1>9, <1>10, <1>11, <1>12 DEF Next

\* Every variable of the connection keeps its type.
THEOREM TypeCorrect == Spec => []TypeOK
<1>1. ReaderInv /\ HandlersInv /\ TeardownTypeOK => TypeOK
  <2> SUFFICES ASSUME ReaderInv, HandlersInv, TeardownTypeOK PROVE TypeOK
    OBVIOUS
  <2>1. Len(parsed) \in Nat /\ Len(parsed) <= MaxPackages
    <3>1. Len(parsed) <= Len(sent) /\ Len(sent) <= MaxPackages /\ Len(sent) \in Nat /\ Len(parsed) \in Nat
      BY DEF ReaderInv, ReaderTypeOK, ParsedIsSent
    <3> QED BY <3>1, SocketReaderAssumption
  <2>2. 1 .. Len(parsed) \subseteq 1 .. MaxPackages
    BY <2>1, SocketReaderAssumption
  <2> QED BY <2>2 DEF ReaderInv, HandlersInv, TeardownTypeOK, TypeOK
<1> QED BY <1>1, ReaderInvariant, InitHandlersInv, NextHandlersInv, NextTeardownTypeOK, PTL DEF Spec
=============================================================================

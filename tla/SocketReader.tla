---------------------------- MODULE SocketReader ----------------------------
(***************************************************************************)
(* pkg/Socket/SocketReader.go and Utils.go: how packages are put on the    *)
(* wire, and found again in the pieces in which the bytes arrive.          *)
(*                                                                         *)
(* The loop of OnData is one action per package size and per package, so   *)
(* that nothing here is recursive.  The data of a package are the bytes    *)
(* behind its header as they are on the wire; compression is Common's.     *)
(* Packages without a header byte are not sent by any client.              *)
(***************************************************************************)
EXTENDS Integers, Sequences

Byte == 0 .. 255

\* The largest integer that TLC knows; a size has four bytes.
MaxSize == 2147483647

CONSTANTS
  Package,      \* packages that the peer sends
  Corrupt,      \* those that do not uncompress
  ReadSize,     \* the size of RunReadLoop's buffer
  MaxPackages   \* bound: packages sent

ASSUME SocketReaderAssumption ==
  /\ \A p \in Package :
       /\ p \in [type : 0 .. 3, compress : {0, 1}, data : Seq(Byte)]
       /\ Len(p.data) < MaxSize
  /\ Corrupt \subseteq {p \in Package : p.compress = 1}
  /\ ReadSize \in Nat \ {0}
  /\ MaxPackages \in Nat

VARIABLES
  sent,      \* the packages the peer has sent
  wire,      \* the bytes it has sent
  got,       \* how many of them con.Read has returned
  reader,    \* RunReadLoop's goroutine
  buffer,    \* r.buffer
  dataSize,  \* r.dataSize, 0 when a size is to come next
  parsed     \* the packages handed to a handler, in this order

readerVars == <<sent, wire, got, reader, buffer, dataSize, parsed>>

\* The order of the bytes is that of protocolPack and GET_PACKAGE_SIZE.
PackedSize(n) == <<(n \div 16777216) % 256, (n \div 65536) % 256, (n \div 256) % 256, n % 256>>

SizeOf(bytes) == bytes[1] * 16777216 + bytes[2] * 65536 + bytes[3] * 256 + bytes[4]

protocolPack(data) == PackedSize(Len(data)) \o data

bufferToPack(p) == <<p.compress + 2 * p.type>> \o p.data

\* Mutant: the mask is applied before the shift.
GET_FLAGMaskFirst(pack) == [compress |-> pack[1] % 2, type |-> (pack[1] % 4) \div 2]

GET_FLAG(pack) == [compress |-> pack[1] % 2, type |-> (pack[1] \div 2) % 4]

Unpacked(pack) ==
  [type |-> GET_FLAG(pack).type, compress |-> GET_FLAG(pack).compress,
   data |-> SubSeq(pack, 2, Len(pack))]

ReaderInit ==
  /\ sent = << >>
  /\ wire = << >>
  /\ got = 0
  /\ reader = "reading"
  /\ buffer = << >>
  /\ dataSize = 0
  /\ parsed = << >>

PeerSends(p) ==
  /\ Len(sent) < MaxPackages
  /\ sent' = Append(sent, p)
  /\ wire' = wire \o protocolPack(bufferToPack(p))
  /\ UNCHANGED <<got, reader, buffer, dataSize, parsed>>

\* con.Read, and the append at the start of OnData.
Read(n) ==
  /\ reader = "reading"
  /\ n \in 1 .. ReadSize
  /\ got + n <= Len(wire)
  /\ buffer' = buffer \o SubSeq(wire, got + 1, got + n)
  /\ got' = got + n
  /\ reader' = "parsing"
  /\ UNCHANGED <<sent, wire, dataSize, parsed>>

ReadsBytes(n) == SubSeq(buffer, n + 1, Len(buffer))

TakeSize ==
  /\ reader = "parsing"
  /\ dataSize = 0
  /\ Len(buffer) >= 4
  /\ dataSize' = SizeOf(buffer)
  /\ buffer' = ReadsBytes(4)
  /\ UNCHANGED <<sent, wire, got, reader, parsed>>

\* Mutant: OnData waits for a byte behind the package.
WholeAndMore == Len(buffer) > dataSize

\* Is all of the package there?
Whole == Len(buffer) >= dataSize

\* Mutant: the size of a package is not forgotten.
TakePackageKeepsSize ==
  LET p == Unpacked(SubSeq(buffer, 1, dataSize)) IN
  /\ reader = "parsing"
  /\ dataSize # 0
  /\ Whole
  /\ p \notin Corrupt
  /\ buffer' = ReadsBytes(dataSize)
  /\ parsed' = Append(parsed, p)
  /\ UNCHANGED <<sent, wire, got, reader, dataSize>>

\* A handler goroutine is started for the package.
TakePackage ==
  LET p == Unpacked(SubSeq(buffer, 1, dataSize)) IN
  /\ reader = "parsing"
  /\ dataSize # 0
  /\ Whole
  /\ p \notin Corrupt
  /\ dataSize' = 0
  /\ buffer' = ReadsBytes(dataSize)
  /\ parsed' = Append(parsed, p)
  /\ UNCHANGED <<sent, wire, got, reader>>

\* QUncompress fails, and OnData with it; the read loop will close the socket.
TakeCorrupt ==
  /\ reader = "parsing"
  /\ dataSize # 0
  /\ Whole
  /\ Unpacked(SubSeq(buffer, 1, dataSize)) \in Corrupt
  /\ buffer' = ReadsBytes(dataSize)
  /\ reader' = "failed"
  /\ UNCHANGED <<sent, wire, got, dataSize, parsed>>

NeedsMore ==
  /\ reader = "parsing"
  /\ IF dataSize = 0 THEN Len(buffer) < 4 ELSE ~Whole
  /\ reader' = "reading"
  /\ UNCHANGED <<sent, wire, got, buffer, dataSize, parsed>>

OnData == TakeSize \/ TakePackage \/ TakeCorrupt \/ NeedsMore

-----------------------------------------------------------------------------
(* What the reader does is to take a stream of packages.                   *)

Stream == INSTANCE PackageStream WITH taken <- parsed

ImplementsPackageStream == Stream!Spec

-----------------------------------------------------------------------------
(* Why it does: where the packages end on the wire, and that the reader is *)
(* always at the start of the next one, or four bytes behind it.           *)

ReaderTypeOK ==
  /\ sent \in Seq(Package) /\ Len(sent) <= MaxPackages
  /\ wire \in Seq(Byte)
  /\ got \in 0 .. Len(wire)
  /\ reader \in {"reading", "parsing", "failed", "closing"}
  /\ buffer \in Seq(Byte)
  /\ dataSize \in Nat
  /\ parsed \in Seq(Package)

Frame(p) == protocolPack(bufferToPack(p))

\* e[i] is the last byte of package i.
WireEnds(e) ==
  /\ e[0] = 0 /\ e[Len(sent)] = Len(wire)
  /\ \A i \in 1 .. Len(sent) :
       /\ e[i] = e[i - 1] + Len(Frame(sent[i]))
       /\ \A j \in 1 .. Len(Frame(sent[i])) : wire[e[i - 1] + j] = Frame(sent[i])[j]

ParsedIsSent ==
  /\ Len(parsed) <= Len(sent)
  /\ \A i \in 1 .. Len(parsed) : parsed[i] = sent[i]

\* The buffer holds the bytes from pos on that have been read.
BufferIsFrom(pos) ==
  /\ got = pos + Len(buffer)
  /\ \A i \in 1 .. Len(buffer) : buffer[i] = wire[pos + i]

AtPackage(e) ==
  IF dataSize = 0 THEN BufferIsFrom(e[Len(parsed)])
  ELSE /\ BufferIsFrom(e[Len(parsed)] + 4)
       /\ Len(parsed) < Len(sent)
       /\ dataSize = Len(bufferToPack(sent[Len(parsed) + 1]))

ReaderInv ==
  /\ ReaderTypeOK
  /\ ParsedIsSent
  /\ \E e \in [0 .. Len(sent) -> 0 .. Len(wire)] :
       WireEnds(e) /\ (reader \in {"reading", "parsing"} => AtPackage(e))
=============================================================================

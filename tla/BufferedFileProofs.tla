------------------------- MODULE BufferedFileProofs -------------------------
(***************************************************************************)
(* Proofs about BufferedFile, for every buffer size, every bound and every *)
(* alphabet: its types, that file and buffer together are the archive, and *)
(* that it implements ArchiveLog.                                          *)
(***************************************************************************)
EXTENDS BufferedFile, SequenceTheorems, TLAPS

-----------------------------------------------------------------------------
(* Writing to the file.                                                    *)

\* Cells numbered from 1 are a sequence of that length.
LEMMA CellsAreSeq ==
  ASSUME NEW n \in Nat, NEW s \in [1 .. n -> Cell]
  PROVE  s \in Seq(Cell) /\ Len(s) = n
BY SeqDef, LenProperties

\* A file written anywhere still holds cells: WriteAt is total.
LEMMA WriteAtType ==
  ASSUME NEW d \in Seq(Cell), NEW s \in Seq(Cell), NEW off \in Nat
  PROVE  /\ WriteAt(d, off, s) \in Seq(Cell)
         /\ Len(WriteAt(d, off, s)) = Larger(Len(d), off + Len(s))
<1> DEFINE n == Larger(Len(d), off + Len(s))
           w == WriteAt(d, off, s)
<1>1. n \in Nat
  BY DEF Larger
<1>2. w = [i \in 1 .. n |-> w[i]]
  BY DEF WriteAt
<1>3. ASSUME NEW i \in 1 .. n
      PROVE  w[i] \in Cell
  <2>1. CASE off < i /\ i <= off + Len(s)
    <3>1. i - off \in 1 .. Len(s)
      BY <1>1, <2>1
    <3>2. s[i - off] \in Cell
      BY <3>1, ElementOfSeq
    <3> QED
      BY <2>1, <3>2 DEF WriteAt
  <2>2. CASE ~(off < i /\ i <= off + Len(s)) /\ i <= Len(d)
    <3>1. d[i] \in Cell
      BY <1>1, <2>2, ElementOfSeq
    <3> QED
      BY <2>2, <3>1 DEF WriteAt
  <2>3. CASE ~(off < i /\ i <= off + Len(s)) /\ ~(i <= Len(d))
    BY <2>3 DEF WriteAt, Cell
  <2> QED
    BY <2>1, <2>2, <2>3
<1>4. w \in [1 .. n -> Cell]
  BY <1>2, <1>3
<1>5. w \in Seq(Cell)
  BY <1>1, <1>4, CellsAreSeq
<1>6. Len(w) = n
  BY <1>1, <1>4, CellsAreSeq
<1> QED
  BY <1>5, <1>6

\* Written at its end, a file grows by exactly what was written.
LEMMA WriteAtEnd ==
  ASSUME NEW d \in Seq(Cell), NEW s \in Seq(Cell)
  PROVE  /\ WriteAt(d, Len(d), s) \in Seq(Cell)
         /\ Len(WriteAt(d, Len(d), s)) = Len(d) + Len(s)
         /\ \A i \in 1 .. Len(d) : WriteAt(d, Len(d), s)[i] = d[i]
         /\ \A i \in 1 .. Len(s) : WriteAt(d, Len(d), s)[Len(d) + i] = s[i]
<1> DEFINE w == WriteAt(d, Len(d), s)
<1>1. Len(d) \in Nat /\ Len(s) \in Nat
  BY LenProperties
<1>2. w \in Seq(Cell) /\ Len(w) = Len(d) + Len(s)
  BY <1>1, WriteAtType DEF Larger
<1>3. Larger(Len(d), Len(d) + Len(s)) = Len(d) + Len(s)
  BY <1>1 DEF Larger
<1>4. ASSUME NEW i \in 1 .. Len(d)
      PROVE  w[i] = d[i]
  <2>1. i \in 1 .. Len(d) + Len(s) /\ ~(Len(d) < i)
    BY <1>1
  <2> QED
    BY <1>3, <2>1 DEF WriteAt
<1>5. ASSUME NEW i \in 1 .. Len(s)
      PROVE  w[Len(d) + i] = s[i]
  <2>1. /\ Len(d) + i \in 1 .. Len(d) + Len(s)
        /\ Len(d) < Len(d) + i
        /\ Len(d) + i <= Len(d) + Len(s)
        /\ Len(d) + i - Len(d) = i
    BY <1>1
  <2> QED
    BY <1>3, <2>1 DEF WriteAt
<1> QED
  BY <1>2, <1>4, <1>5

\* The first n cells of the buffer, as a sequence.
LEMMA BufferPrefix ==
  ASSUME TypeOK, NEW n \in 0 .. BufferSize
  PROVE  /\ SubSeq(buffer, 1, n) \in Seq(Cell)
         /\ Len(SubSeq(buffer, 1, n)) = n
         /\ \A i \in 1 .. n : SubSeq(buffer, 1, n)[i] = buffer[i]
<1>1. BufferSize \in Nat
  BY BufferedFileAssumption
<1>2. buffer \in Seq(Cell) /\ Len(buffer) = BufferSize
  BY <1>1, CellsAreSeq DEF TypeOK
<1>3. /\ SubSeq(buffer, 1, n) \in Seq(Cell)
      /\ Len(SubSeq(buffer, 1, n)) = IF 1 <= n THEN n - 1 + 1 ELSE 0
      /\ \A i \in 1 .. n - 1 + 1 : SubSeq(buffer, 1, n)[i] = buffer[1 + i - 1]
  BY <1>1, <1>2, SubSeqProperties
<1> QED
  BY <1>1, <1>3

\* A flush is well typed, and complete when the descriptor is at the end.
LEMMA FlushedType ==
  ASSUME TypeOK
  PROVE  Flushed \in Seq(Cell)
<1>1. BufferSize \in Nat /\ waterMark \in 0 .. BufferSize
  BY BufferedFileAssumption DEF TypeOK
<1>2. Pending \in Seq(Cell)
  BY <1>1, BufferPrefix DEF Pending
<1> QED
  BY <1>2, WriteAtType DEF Flushed, TypeOK

LEMMA FlushedAtEnd ==
  ASSUME TypeOK, offset = Len(disk)
  PROVE  /\ Len(Flushed) = Len(disk) + waterMark
         /\ \A i \in 1 .. Len(disk) : Flushed[i] = disk[i]
         /\ \A i \in 1 .. waterMark : Flushed[Len(disk) + i] = buffer[i]
<1>1. /\ BufferSize \in Nat
      /\ waterMark \in 0 .. BufferSize
      /\ disk \in Seq(Cell)
      /\ Len(disk) \in Nat
  BY BufferedFileAssumption, LenProperties DEF TypeOK
<1>2. /\ Pending \in Seq(Cell)
      /\ Len(Pending) = waterMark
      /\ \A i \in 1 .. waterMark : Pending[i] = buffer[i]
  BY <1>1, BufferPrefix DEF Pending
<1>3. CASE waterMark < 1
  <2>1. waterMark = 0 /\ Flushed = disk
    BY <1>1, <1>3 DEF Flushed
  <2> QED
    BY <1>1, <2>1
<1>4. CASE ~(waterMark < 1)
  <2>1. Flushed = WriteAt(disk, Len(disk), Pending)
    BY <1>4 DEF Flushed
  <2> QED
    BY <1>1, <1>2, <2>1, WriteAtEnd
<1> QED
  BY <1>3, <1>4

-----------------------------------------------------------------------------
(* Types.                                                                  *)

\* The data of a Write is a sequence of bytes.
LEMMA DataType ==
  ASSUME NEW data \in Data
  PROVE  data \in Seq(Cell) /\ Len(data) \in Nat
<1>1. PICK n \in 1 .. MaxWrite : data \in [1 .. n -> Byte]
  BY DEF Data
<1>2. n \in Nat
  BY BufferedFileAssumption
<1>3. data \in [1 .. n -> Cell]
  BY <1>1 DEF Cell
<1> QED
  BY <1>2, <1>3, CellsAreSeq

\* What copying data into the buffer makes of it.
LEMMA OverlayType ==
  ASSUME TypeOK, NEW mark \in Nat, NEW data \in Seq(Cell)
  PROVE  Overlay(mark, data) \in [1 .. BufferSize -> Cell]
<1>1. ASSUME NEW i \in 1 .. BufferSize, mark < i /\ i <= mark + Len(data)
      PROVE  data[i - mark] \in Cell
  <2>1. i - mark \in 1 .. Len(data)
    BY <1>1, BufferedFileAssumption
  <2> QED
    BY <2>1, ElementOfSeq
<1>2. \A i \in 1 .. BufferSize : buffer[i] \in Cell
  BY DEF TypeOK
<1> QED
  BY <1>1, <1>2 DEF Overlay

\* Reopening leaves the descriptor well typed.
LEMMA ReopenType ==
  ASSUME TypeOK, disk' \in Seq(Cell), Reopen
  PROVE  handle' \in BOOLEAN /\ offset' \in Nat
BY LenProperties DEF TypeOK, Reopen

\* Every variable keeps its type: in particular the water mark never passes
\* the end of the buffer, so no write indexes beyond it.
LEMMA TypeInit == Init => TypeOK
<1> SUFFICES ASSUME Init PROVE TypeOK
  OBVIOUS
<1>1. disk \in Seq(Cell) /\ Len(disk) \in Nat
  <2>1. CASE disk = << >>
    BY <2>1
  <2>2. CASE disk \in [1 .. 1 -> Byte]
    <3>1. \E n \in Nat : disk \in [1 .. n -> Cell]
      BY <2>2 DEF Cell
    <3> QED
      BY <3>1, CellsAreSeq, LenProperties
  <2> QED
    BY <2>1, <2>2 DEF Init
<1>2. buffer \in [1 .. BufferSize -> Cell]
  BY DEF Init, Cell
<1>3. waterMark \in 0 .. BufferSize
  BY BufferedFileAssumption DEF Init
<1> QED
  BY <1>1, <1>2, <1>3 DEF Init, TypeOK

LEMMA TypeNext == TypeOK /\ [Next]_vars => TypeOK'
<1> SUFFICES ASSUME TypeOK, [Next]_vars PROVE TypeOK'
  OBVIOUS
<1> USE BufferedFileAssumption
<1>0. /\ BufferSize \in Nat
      /\ waterMark \in 0 .. BufferSize
      /\ disk \in Seq(Cell) /\ Len(disk) \in Nat
      /\ archive \in Seq(Cell) /\ Len(archive) \in Nat
      /\ Flushed \in Seq(Cell) /\ Len(Flushed) \in Nat
  BY FlushedType, LenProperties DEF TypeOK
\* What a failed write leaves in the file.
<1>f. ASSUME NEW n \in 0 .. waterMark - 1
      PROVE  WriteAt(disk, offset, SubSeq(buffer, 1, n)) \in Seq(Cell)
  <2>1. n \in 0 .. BufferSize
    BY <1>0
  <2> QED
    BY <2>1, BufferPrefix, WriteAtType DEF TypeOK
<1>1. ASSUME NEW data \in Data, WriteToBuffer(data)
      PROVE  TypeOK'
  <2>1. data \in Seq(Cell) /\ Len(data) \in Nat
    BY DataType
  <2>2. archive' \in Seq(Cell)
    BY <1>0, <1>1, <2>1, ConcatProperties DEF WriteToBuffer, Accept
  <2>3. buffer' \in [1 .. BufferSize -> Cell]
    BY <1>0, <1>1, <2>1, OverlayType DEF WriteToBuffer
  <2>4. waterMark' \in 0 .. BufferSize /\ wholeSize' \in Nat
    BY <1>0, <1>1, <2>1 DEF WriteToBuffer, NoRoom, Accept, TypeOK
  <2> QED
    BY <1>1, <2>2, <2>3, <2>4 DEF TypeOK, WriteToBuffer, Accept, osFile
<1>2. ASSUME NEW data \in Data, WriteAfterSync(data)
      PROVE  TypeOK'
  <2>1. data \in Seq(Cell) /\ Len(data) \in Nat
    BY DataType
  <2>2. archive' \in Seq(Cell)
    BY <1>0, <1>2, <2>1, ConcatProperties DEF WriteAfterSync, Accept
  <2>3. buffer' \in [1 .. BufferSize -> Cell]
    BY <1>2, <2>1, OverlayType DEF WriteAfterSync
  <2>4. disk' \in Seq(Cell) /\ handle' \in BOOLEAN /\ offset' \in Nat
    BY <1>0, <1>2, ReopenType DEF WriteAfterSync
  <2>5. waterMark' \in 0 .. BufferSize /\ wholeSize' \in Nat /\ fileSize' \in Nat
    BY <1>0, <1>2, <2>1 DEF WriteAfterSync, Accept, TypeOK
  <2> QED
    BY <1>2, <2>2, <2>3, <2>4, <2>5 DEF TypeOK, WriteAfterSync, Accept
<1>3. ASSUME NEW data \in Data, WriteThrough(data)
      PROVE  TypeOK'
  <2>1. data \in Seq(Cell) /\ Len(data) \in Nat
    BY DataType
  <2>2. archive' \in Seq(Cell)
    BY <1>0, <1>3, <2>1, ConcatProperties DEF WriteThrough, Accept
  <2>3. disk' \in Seq(Cell) /\ offset' \in Nat
    BY <1>0, <1>3, <2>1, WriteAtType, LenProperties DEF WriteThrough
  <2>4. waterMark' \in 0 .. BufferSize /\ wholeSize' \in Nat /\ fileSize' \in Nat
    BY <1>0, <1>3, <2>1 DEF WriteThrough, Accept, TypeOK
  <2> QED
    BY <1>3, <2>2, <2>3, <2>4 DEF TypeOK, WriteThrough, Accept
<1>4. ASSUME NEW data \in Data, WriteFails(data)
      PROVE  TypeOK'
  <2>1. data \in Seq(Cell) /\ Len(data) \in Nat
    BY DataType
  <2>2. disk' \in Seq(Cell) /\ archive' \in Seq(Cell)
    <3>1. ASSUME NEW n \in 0 .. waterMark - 1,
                 disk' = WriteAt(disk, offset, SubSeq(buffer, 1, n)),
                 archive' = archive
          PROVE  disk' \in Seq(Cell) /\ archive' \in Seq(Cell)
      BY <1>0, <1>f, <3>1
    <3>2. ASSUME disk' = disk, archive' = archive
          PROVE  disk' \in Seq(Cell) /\ archive' \in Seq(Cell)
      BY <1>0, <3>2
    <3>3. ASSUME NEW n \in 0 .. Len(data) - 1,
                 disk' = WriteAt(Flushed, Len(Flushed), SubSeq(data, 1, n)),
                 archive' = archive \o SubSeq(data, 1, n)
          PROVE  disk' \in Seq(Cell) /\ archive' \in Seq(Cell)
      <4>1. SubSeq(data, 1, n) \in Seq(Cell)
        BY <2>1, SubSeqProperties, ElementOfSeq
      <4> QED
        BY <1>0, <3>3, <4>1, WriteAtType, ConcatProperties
    <3> QED
      BY <1>4, <3>1, <3>2, <3>3 DEF WriteFails
  <2> QED
    BY <1>4, <2>2 DEF TypeOK, WriteFails, counters
<1>5. CASE TimerFires
  BY <1>5 DEF TypeOK, TimerFires, counters, osFile
<1>6. CASE TimerStops
  BY <1>6 DEF TypeOK, TimerStops, counters, osFile
<1>7. CASE TimerSync
  <2>1. disk' \in Seq(Cell) /\ handle' \in BOOLEAN /\ offset' \in Nat
    BY <1>0, <1>7, ReopenType DEF TimerSync
  <2>2. waterMark' \in 0 .. BufferSize /\ fileSize' \in Nat
    BY <1>0, <1>7 DEF TimerSync, TypeOK
  <2> QED
    BY <1>7, <2>1, <2>2 DEF TypeOK, TimerSync
<1>8. CASE TimerSyncFails
  <2>1. disk' \in Seq(Cell)
    BY <1>0, <1>f, <1>8 DEF TimerSyncFails
  <2> QED
    BY <1>8, <2>1 DEF TypeOK, TimerSyncFails, counters
<1>9. CASE Clear
  <2>1. disk' \in Seq(Cell) /\ offset' \in Nat
    <3>1. CASE disk' = << >> /\ offset' = 0
      BY <3>1
    <3>2. CASE UNCHANGED <<disk, offset>>
      BY <1>0, <3>2 DEF TypeOK
    <3> QED
      BY <1>9, <3>1, <3>2 DEF Clear
  <2>2. waterMark' \in 0 .. BufferSize
    BY <1>0, <1>9 DEF Clear
  <2> QED
    BY <1>9, <2>1, <2>2 DEF TypeOK, Clear
<1>10. CASE Close
  <2>1. disk' \in Seq(Cell) /\ handle' \in BOOLEAN /\ offset' \in Nat
    <3>1. CASE disk' = Flushed /\ offset' = Len(disk') /\ handle' = FALSE
      BY <1>0, <3>1
    <3>2. CASE /\ \E n \in 0 .. waterMark - 1 :
                    disk' = IF handle THEN WriteAt(disk, offset, SubSeq(buffer, 1, n))
                            ELSE disk
               /\ Reopen
      <4>1. disk' \in Seq(Cell)
        BY <1>0, <1>f, <3>2
      <4> QED
        BY <3>2, <4>1, ReopenType
    <3> QED
      BY <1>10, <3>1, <3>2 DEF Close
  <2>2. waterMark' \in 0 .. BufferSize /\ fileSize' \in Nat
    BY <1>0, <1>10 DEF Close, TypeOK
  <2> QED
    BY <1>10, <2>1, <2>2 DEF TypeOK, Close
<1>11. CASE Remove
  BY <1>11 DEF TypeOK, Remove, counters
<1>12. CASE Crash
  BY <1>12 DEF TypeOK, Crash, counters, osFile
<1>13. CASE Restart
  BY <1>0, <1>13 DEF TypeOK, Restart, Cell
<1>14. CASE UNCHANGED vars
  BY <1>14 DEF TypeOK, vars, counters, osFile
<1> QED
  BY <1>1, <1>2, <1>3, <1>4, <1>5, <1>6, <1>7, <1>8, <1>9, <1>10, <1>11,
     <1>12, <1>13, <1>14 DEF Next, Write

\* The types hold in every reachable state.
THEOREM TypeCorrect == Spec => []TypeOK
<1> QED
  BY TypeInit, TypeNext, PTL DEF Spec

-----------------------------------------------------------------------------
(* File and buffer together are the archive.                               *)

\* The invariant, unfolded for a file that is being served.
LEMMA Served ==
  ASSUME TypeOK, FileThenBuffer, Serving
  PROVE  /\ waterMark \in Nat /\ fileSize \in Nat /\ wholeSize \in Nat
         /\ disk \in Seq(Cell) /\ Len(disk) \in Nat
         /\ archive \in Seq(Cell) /\ Len(archive) \in Nat
         /\ handle
         /\ offset = Len(disk)
         /\ fileSize = Len(disk)
         /\ Len(archive) = Len(disk) + waterMark
         /\ wholeSize = Len(archive)
         /\ \A i \in 1 .. waterMark : archive[Len(disk) + i] = buffer[i]
         /\ \A i \in 1 .. Len(disk) : disk[i] = archive[i]
<1>1. /\ handle
      /\ offset = Len(disk)
      /\ fileSize = Len(disk)
      /\ Len(archive) = fileSize + waterMark
      /\ wholeSize = Len(archive)
      /\ \A i \in 1 .. waterMark : archive[fileSize + i] = buffer[i]
  BY DEF FileThenBuffer, BufferIsRest
<1>2. \A i \in 1 .. Len(disk) : disk[i] = archive[i]
  BY DEF FileThenBuffer, FileIsPrefix
<1>3. /\ waterMark \in Nat /\ fileSize \in Nat /\ wholeSize \in Nat
      /\ disk \in Seq(Cell) /\ Len(disk) \in Nat
      /\ archive \in Seq(Cell) /\ Len(archive) \in Nat
  BY BufferedFileAssumption, LenProperties DEF TypeOK
<1> QED
  BY <1>1, <1>2, <1>3

\* What a complete flush leaves in the file is the whole archive.
LEMMA FlushedIsArchive ==
  ASSUME TypeOK, FileThenBuffer, Serving
  PROVE  /\ Len(Flushed) = Len(archive)
         /\ \A i \in 1 .. Len(archive) : Flushed[i] = archive[i]
<1>1. /\ waterMark \in Nat /\ Len(disk) \in Nat /\ Len(archive) \in Nat
      /\ offset = Len(disk)
      /\ fileSize = Len(disk)
      /\ Len(archive) = Len(disk) + waterMark
      /\ \A i \in 1 .. waterMark : archive[Len(disk) + i] = buffer[i]
      /\ \A i \in 1 .. Len(disk) : disk[i] = archive[i]
  BY Served
<1>2. /\ Len(Flushed) = Len(disk) + waterMark
      /\ \A i \in 1 .. Len(disk) : Flushed[i] = disk[i]
      /\ \A i \in 1 .. waterMark : Flushed[Len(disk) + i] = buffer[i]
  BY <1>1, FlushedAtEnd
<1>3. ASSUME NEW i \in 1 .. Len(archive)
      PROVE  Flushed[i] = archive[i]
  <2>1. CASE i <= Len(disk)
    BY <1>1, <1>2, <2>1
  <2>2. CASE ~(i <= Len(disk))
    <3>1. i - Len(disk) \in 1 .. waterMark /\ Len(disk) + (i - Len(disk)) = i
      BY <1>1, <2>2
    <3> QED
      BY <1>1, <1>2, <3>1
  <2> QED
    BY <2>1, <2>2
<1> QED
  BY <1>1, <1>2, <1>3

\* A flush that stops half-way leaves a longer, still correct, beginning.
LEMMA PartialFlush ==
  ASSUME TypeOK, FileThenBuffer, Serving, NEW n \in 0 .. waterMark - 1
  PROVE  LET w == WriteAt(disk, offset, SubSeq(buffer, 1, n)) IN
           /\ Len(w) \in Len(disk) .. Len(archive)
           /\ \A i \in 1 .. Len(w) : w[i] = archive[i]
<1> DEFINE s == SubSeq(buffer, 1, n)
           w == WriteAt(disk, offset, s)
<1>1. /\ waterMark \in Nat /\ Len(disk) \in Nat /\ Len(archive) \in Nat
      /\ disk \in Seq(Cell)
      /\ offset = Len(disk)
      /\ fileSize = Len(disk)
      /\ Len(archive) = Len(disk) + waterMark
      /\ \A i \in 1 .. waterMark : archive[Len(disk) + i] = buffer[i]
      /\ \A i \in 1 .. Len(disk) : disk[i] = archive[i]
  BY Served
<1>0. n \in 0 .. BufferSize /\ n \in 0 .. waterMark
  BY BufferedFileAssumption DEF TypeOK
<1>2. /\ s \in Seq(Cell) /\ Len(s) = n
      /\ \A i \in 1 .. n : s[i] = buffer[i]
  BY <1>0, BufferPrefix
<1>3. /\ Len(w) = Len(disk) + n
      /\ \A i \in 1 .. Len(disk) : w[i] = disk[i]
      /\ \A i \in 1 .. n : w[Len(disk) + i] = s[i]
  <2>1. w = WriteAt(disk, Len(disk), s)
    BY <1>1
  <2> HIDE DEF s, w
  <2> QED
    BY <1>1, <1>2, <2>1, WriteAtEnd
<1> HIDE DEF s, w
<1>4. ASSUME NEW i \in 1 .. Len(w)
      PROVE  w[i] = archive[i]
  <2>1. CASE i <= Len(disk)
    BY <1>1, <1>3, <2>1
  <2>2. CASE ~(i <= Len(disk))
    <3>1. /\ i - Len(disk) \in 1 .. n
          /\ i - Len(disk) \in 1 .. waterMark
          /\ Len(disk) + (i - Len(disk)) = i
      BY <1>0, <1>1, <1>3, <2>2
    <3> DEFINE k == i - Len(disk)
    <3>2. k \in 1 .. n /\ k \in 1 .. waterMark /\ Len(disk) + k = i
      BY <3>1
    <3> HIDE DEF k
    <3>3. w[Len(disk) + k] = s[k] /\ s[k] = buffer[k]
      BY <1>2, <1>3, <3>2
    <3>4. archive[Len(disk) + k] = buffer[k]
      BY <1>1, <3>2
    <3> QED
      BY <3>2, <3>3, <3>4
  <2> QED
    BY <2>1, <2>2
<1> QED
  BY <1>0, <1>1, <1>3, <1>4 DEF s, w

\* Appending data to the archive, and where its cells end up.
LEMMA ArchiveGrows ==
  ASSUME TypeOK, NEW data \in Data, Accept(data)
  PROVE  /\ archive' \in Seq(Cell)
         /\ Len(archive') = Len(archive) + Len(data)
         /\ \A i \in 1 .. Len(archive) : archive'[i] = archive[i]
         /\ \A i \in 1 .. Len(data) : archive'[Len(archive) + i] = data[i]
         /\ UNCHANGED <<timer, stage, process>>
<1>1. data \in Seq(Cell) /\ Len(data) \in Nat
  BY DataType
<1>2. archive \in Seq(Cell) /\ Len(archive) \in Nat
  BY LenProperties DEF TypeOK
<1>3. /\ archive' \in Seq(Cell)
      /\ Len(archive') = Len(archive) + Len(data)
      /\ \A i \in 1 .. Len(archive) + Len(data) :
           archive'[i] = IF i <= Len(archive) THEN archive[i]
                         ELSE data[i - Len(archive)]
  BY <1>1, <1>2, ConcatProperties DEF Accept
<1>4. ASSUME NEW i \in 1 .. Len(archive)
      PROVE  archive'[i] = archive[i]
  BY <1>1, <1>2, <1>3
<1>5. ASSUME NEW i \in 1 .. Len(data)
      PROVE  archive'[Len(archive) + i] = data[i]
  <2>1. /\ Len(archive) + i \in 1 .. Len(archive) + Len(data)
        /\ ~(Len(archive) + i <= Len(archive))
        /\ Len(archive) + i - Len(archive) = i
    BY <1>1, <1>2
  <2> QED
    BY <1>3, <2>1
<1> QED
  BY <1>3, <1>4, <1>5 DEF Accept

-----------------------------------------------------------------------------
(* Each action keeps the invariant, and is a step of ArchiveLog.           *)

LEMMA StepWriteToBuffer ==
  ASSUME TypeOK, FileThenBuffer, NEW data \in Data, WriteToBuffer(data)
  PROVE  FileThenBuffer' /\ Log!Grow
<1>1. Serving /\ Accept(data)
  BY DEF WriteToBuffer
<1>2. data \in Seq(Cell) /\ Len(data) \in Nat
  BY DataType
<1>3. /\ waterMark \in Nat /\ fileSize \in Nat
      /\ BufferSize - waterMark > Len(data)
      /\ BufferSize \in Nat
      /\ Len(disk) \in Nat
      /\ waterMark' = waterMark + Len(data)
      /\ buffer' = Overlay(waterMark, data)
      /\ wholeSize' = wholeSize + Len(data)
      /\ fileSize' = fileSize /\ handle' = handle /\ offset' = offset /\ disk' = disk
  BY <1>1, <1>2, Served, BufferedFileAssumption
     DEF WriteToBuffer, NoRoom, Accept, osFile
<1>A. /\ Len(archive') = Len(archive) + Len(data)
      /\ \A i \in 1 .. Len(archive) : archive'[i] = archive[i]
      /\ \A i \in 1 .. Len(data) : archive'[Len(archive) + i] = data[i]
  BY <1>1, ArchiveGrows
<1>S. /\ offset = Len(disk) /\ fileSize = Len(disk)
      /\ Len(archive) = fileSize + waterMark
      /\ wholeSize = Len(archive)
      /\ \A i \in 1 .. Len(disk) : disk[i] = archive[i]
      /\ \A i \in 1 .. waterMark : archive[Len(disk) + i] = buffer[i]
  BY <1>1, Served
<1>4. FileIsPrefix'
  BY <1>2, <1>3, <1>A, <1>S DEF FileIsPrefix
<1>5. /\ offset' = Len(disk')
      /\ fileSize' = Len(disk')
      /\ Len(archive') = fileSize' + waterMark'
      /\ wholeSize' = Len(archive')
  BY <1>2, <1>3, <1>A, <1>S
<1>6. ASSUME NEW i \in 1 .. waterMark'
      PROVE  archive'[fileSize' + i] = buffer'[i]
  <2>0. i \in 1 .. BufferSize
    BY <1>2, <1>3
  <2>1. CASE i <= waterMark
    <3>1. i \in 1 .. waterMark /\ Len(disk) + i \in 1 .. Len(archive)
      BY <1>3, <1>S, <2>1
    <3>2. archive'[Len(disk) + i] = buffer[i]
      BY <3>1, <1>A, <1>S
    <3>3. buffer'[i] = buffer[i]
      BY <1>3, <2>0, <2>1 DEF Overlay
    <3> QED
      BY <1>1, <1>3, <3>2, <3>3, Served
  <2>2. CASE ~(i <= waterMark)
    <3>1. /\ i - waterMark \in 1 .. Len(data)
          /\ Len(archive) + (i - waterMark) = Len(disk) + i
      <4>1. /\ Len(archive) = Len(disk) + waterMark
            /\ i \in 1 .. waterMark + Len(data)
        BY <1>3, <1>S
      <4> QED
        BY <1>2, <1>3, <2>2, <4>1
    <3>2. archive'[Len(disk) + i] = data[i - waterMark]
      BY <1>1, <3>1, ArchiveGrows
    <3>3. waterMark < i /\ i <= waterMark + Len(data)
      BY <1>2, <1>3, <2>2
    <3>4. buffer'[i] = data[i - waterMark]
      BY <1>3, <2>0, <3>3 DEF Overlay
    <3> QED
      BY <1>1, <1>3, <3>2, <3>4, Served
  <2> QED
    BY <2>1, <2>2
<1>7. handle'
  BY <1>1, <1>3, Served
<1>8. BufferIsRest'
  BY <1>5, <1>6, <1>7 DEF BufferIsRest
<1>9. ClosedIsFlushed'
  BY <1>1, ArchiveGrows DEF ClosedIsFlushed, Serving
<1>10. Log!Grow
  BY <1>1, <1>2, <1>3, <1>4, Served, ArchiveGrows DEF Log!Grow, FileIsPrefix
<1> QED
  BY <1>4, <1>8, <1>9, <1>10 DEF FileThenBuffer

LEMMA StepWriteAfterSync ==
  ASSUME TypeOK, FileThenBuffer, ~ReopenMayFail, NEW data \in Data, WriteAfterSync(data)
  PROVE  FileThenBuffer' /\ Log!Grow
<1>1. Serving /\ Accept(data)
  BY DEF WriteAfterSync
<1>2. data \in Seq(Cell) /\ Len(data) \in Nat
  BY DataType
<1>3. /\ BufferSize \in Nat
      /\ Len(data) <= BufferSize
      /\ disk' = Flushed
      /\ fileSize' = fileSize + waterMark
      /\ buffer' = Overlay(0, data)
      /\ waterMark' = Len(data)
      /\ wholeSize' = wholeSize + Len(data)
  BY BufferedFileAssumption DEF WriteAfterSync, Accept
<1>4. handle' /\ offset' = Len(disk')
  BY DEF WriteAfterSync, Reopen
<1>5. /\ Len(disk') = Len(archive)
      /\ \A i \in 1 .. Len(archive) : disk'[i] = archive[i]
  BY <1>1, <1>3, FlushedIsArchive
<1>6. FileIsPrefix'
  BY <1>1, <1>2, <1>5, Served, ArchiveGrows DEF FileIsPrefix
<1>7. /\ fileSize' = Len(disk')
      /\ Len(archive') = fileSize' + waterMark'
      /\ wholeSize' = Len(archive')
  BY <1>1, <1>2, <1>3, <1>5, Served, ArchiveGrows
<1>8. ASSUME NEW i \in 1 .. waterMark'
      PROVE  archive'[fileSize' + i] = buffer'[i]
  <2>1. /\ i \in 1 .. BufferSize
        /\ i \in 1 .. Len(data)
        /\ i - 0 = i
        /\ 0 < i /\ i <= 0 + Len(data)
    BY <1>2, <1>3
  <2>2. buffer'[i] = data[i]
    BY <1>3, <2>1 DEF Overlay
  <2>3. archive'[Len(archive) + i] = data[i]
    BY <1>1, <2>1, ArchiveGrows
  <2> QED
    BY <1>5, <1>7, <2>2, <2>3
<1>9. BufferIsRest'
  BY <1>4, <1>7, <1>8 DEF BufferIsRest
<1>10. ClosedIsFlushed'
  BY <1>1, ArchiveGrows DEF ClosedIsFlushed, Serving
<1>11. Log!Grow
  BY <1>1, <1>2, <1>5, Served, ArchiveGrows DEF Log!Grow
<1> QED
  BY <1>6, <1>9, <1>10, <1>11 DEF FileThenBuffer

LEMMA StepWriteThrough ==
  ASSUME TypeOK, FileThenBuffer, NEW data \in Data, WriteThrough(data)
  PROVE  FileThenBuffer' /\ Log!Grow
<1>1. Serving /\ Accept(data)
  BY DEF WriteThrough
<1>2. data \in Seq(Cell) /\ Len(data) \in Nat
  BY DataType
<1>3. /\ disk' = WriteAt(Flushed, Len(Flushed), data)
      /\ fileSize' = fileSize + waterMark + Len(data)
      /\ waterMark' = 0
      /\ wholeSize' = wholeSize + Len(data)
  BY DEF WriteThrough, Accept
<1>4. handle' /\ offset' = Len(disk')
  BY DEF WriteThrough
<1>5. /\ Flushed \in Seq(Cell)
      /\ Len(Flushed) = Len(archive)
      /\ \A i \in 1 .. Len(archive) : Flushed[i] = archive[i]
  BY <1>1, FlushedType, FlushedIsArchive
<1>6. /\ Len(disk') = Len(archive) + Len(data)
      /\ \A i \in 1 .. Len(archive) : disk'[i] = archive[i]
      /\ \A i \in 1 .. Len(data) : disk'[Len(archive) + i] = data[i]
  <2>1. /\ Len(disk') = Len(Flushed) + Len(data)
        /\ \A i \in 1 .. Len(Flushed) : disk'[i] = Flushed[i]
        /\ \A i \in 1 .. Len(data) : disk'[Len(Flushed) + i] = data[i]
    BY <1>2, <1>3, <1>5, WriteAtEnd
  <2> QED
    BY <1>5, <2>1
<1>7. ASSUME NEW i \in 1 .. Len(disk')
      PROVE  disk'[i] = archive'[i]
  <2>1. CASE i <= Len(archive)
    <3>1. i \in 1 .. Len(archive)
      BY <1>1, <2>1, Served
    <3> QED
      BY <1>1, <1>6, <3>1, ArchiveGrows
  <2>2. CASE ~(i <= Len(archive))
    <3>1. i - Len(archive) \in 1 .. Len(data) /\ Len(archive) + (i - Len(archive)) = i
      BY <1>1, <1>2, <1>6, <2>2, Served
    <3>2. disk'[Len(archive) + (i - Len(archive))] = data[i - Len(archive)]
      BY <1>6, <3>1
    <3>3. archive'[Len(archive) + (i - Len(archive))] = data[i - Len(archive)]
      BY <1>1, <3>1, ArchiveGrows
    <3> QED
      BY <3>1, <3>2, <3>3
  <2> QED
    BY <2>1, <2>2
<1>8. /\ fileSize' = Len(disk')
      /\ Len(archive') = Len(disk')
      /\ Len(archive') = fileSize' + waterMark'
      /\ wholeSize' = Len(archive')
  <2>1. Len(archive') = Len(archive) + Len(data)
    BY <1>1, ArchiveGrows
  <2>2. /\ Len(archive) \in Nat
        /\ wholeSize = Len(archive)
        /\ fileSize + waterMark = Len(archive)
    BY <1>1, Served
  <2> QED
    BY <1>2, <1>3, <1>6, <2>1, <2>2
<1>9. FileIsPrefix'
  BY <1>1, <1>2, <1>6, <1>7, <1>8, Served DEF FileIsPrefix
<1>10. BufferIsRest'
  BY <1>3, <1>4, <1>8 DEF BufferIsRest
<1>11. ClosedIsFlushed'
  BY <1>3 DEF ClosedIsFlushed
<1>12. Log!Grow
  BY <1>1, <1>2, <1>6, <1>8, Served, ArchiveGrows DEF Log!Grow
<1> QED
  BY <1>9, <1>10, <1>11, <1>12 DEF FileThenBuffer

\* A write that fails leaves, in the file, a longer beginning of the archive.
LEMMA StepWriteFails ==
  ASSUME TypeOK, FileThenBuffer, NEW data \in Data, WriteFails(data)
  PROVE  FileThenBuffer' /\ Log!Grow
<1>1. Serving /\ process' = "down"
  BY DEF WriteFails
<1>2. data \in Seq(Cell) /\ Len(data) \in Nat
  BY DataType
<1>3. /\ FileIsPrefix'
      /\ Log!Grow
  <2>1. ASSUME NEW n \in 0 .. waterMark - 1,
               disk' = WriteAt(disk, offset, SubSeq(buffer, 1, n)),
               archive' = archive
        PROVE  FileIsPrefix' /\ Log!Grow
    <3>1. /\ Len(disk') \in Len(disk) .. Len(archive)
          /\ \A i \in 1 .. Len(disk') : disk'[i] = archive[i]
      BY <1>1, <2>1, PartialFlush
    <3>2. archive \in Seq(Cell) /\ Len(archive) \in Nat /\ Len(disk) \in Nat
      BY <1>1, Served
    <3> QED
      BY <2>1, <3>1, <3>2 DEF FileIsPrefix, Log!Grow
  <2>2. ASSUME disk' = disk, archive' = archive
        PROVE  FileIsPrefix' /\ Log!Grow
    BY <1>1, <2>2, Served DEF FileThenBuffer, FileIsPrefix, Log!Grow
  <2>3. ASSUME NEW n \in 0 .. Len(data) - 1,
               disk' = WriteAt(Flushed, Len(Flushed), SubSeq(data, 1, n)),
               archive' = archive \o SubSeq(data, 1, n)
        PROVE  FileIsPrefix' /\ Log!Grow
    <3> DEFINE s == SubSeq(data, 1, n)
    <3>1. s \in Seq(Cell) /\ Len(s) \in Nat
      BY <1>2, SubSeqProperties, ElementOfSeq, LenProperties
    <3>2. archive \in Seq(Cell) /\ Len(archive) \in Nat /\ Len(disk) \in 0 .. Len(archive)
      <4>1. /\ archive \in Seq(Cell) /\ Len(archive) \in Nat
            /\ Len(disk) \in Nat /\ waterMark \in Nat
            /\ Len(archive) = Len(disk) + waterMark
        BY <1>1, Served
      <4> QED
        BY <4>1
    <3>3. /\ Flushed \in Seq(Cell)
          /\ Len(Flushed) = Len(archive)
          /\ \A i \in 1 .. Len(archive) : Flushed[i] = archive[i]
      BY <1>1, FlushedType, FlushedIsArchive
    <3>4. disk' = WriteAt(Flushed, Len(Flushed), s) /\ archive' = archive \o s
      BY <2>3
    <3> HIDE DEF s
    <3>5. /\ Len(disk') = Len(Flushed) + Len(s)
          /\ \A i \in 1 .. Len(Flushed) : disk'[i] = Flushed[i]
          /\ \A i \in 1 .. Len(s) : disk'[Len(Flushed) + i] = s[i]
      BY <3>1, <3>3, <3>4, WriteAtEnd
    <3>6. /\ archive' \in Seq(Cell)
          /\ Len(archive') = Len(archive) + Len(s)
          /\ \A i \in 1 .. Len(archive) + Len(s) :
               archive'[i] = IF i <= Len(archive) THEN archive[i] ELSE s[i - Len(archive)]
      BY <3>1, <3>2, <3>4, ConcatProperties
    <3>7. ASSUME NEW i \in 1 .. Len(disk')
          PROVE  disk'[i] = archive'[i]
      <4>1. i \in 1 .. Len(archive) + Len(s)
        BY <3>3, <3>5
      <4>2. CASE i <= Len(archive)
        <5>1. i \in 1 .. Len(archive)
          BY <3>2, <4>1, <4>2
        <5> QED
          BY <3>3, <3>5, <3>6, <4>1, <4>2, <5>1
      <4>3. CASE ~(i <= Len(archive))
        <5>1. i - Len(archive) \in 1 .. Len(s) /\ Len(archive) + (i - Len(archive)) = i
          BY <3>1, <3>2, <4>1, <4>3
        <5>2. disk'[Len(archive) + (i - Len(archive))] = s[i - Len(archive)]
          BY <3>3, <3>5, <5>1
        <5> QED
          BY <3>6, <4>1, <4>3, <5>1, <5>2
      <4> QED
        BY <4>2, <4>3
    <3>8. FileIsPrefix'
      BY <3>1, <3>2, <3>3, <3>5, <3>6, <3>7 DEF FileIsPrefix
    <3>9. \A i \in 1 .. Len(archive) : archive'[i] = archive[i]
      BY <3>1, <3>2, <3>6
    <3>10. Len(archive) <= Len(archive') /\ Len(disk)' \in Len(disk) .. Len(archive')
      BY <3>1, <3>2, <3>3, <3>5, <3>6
    <3> QED
      BY <3>6, <3>8, <3>9, <3>10 DEF Log!Grow
  <2> QED
    BY <2>1, <2>2, <2>3 DEF WriteFails
<1>4. BufferIsRest' /\ ClosedIsFlushed'
  BY <1>1 DEF BufferIsRest, ClosedIsFlushed, Serving
<1> QED
  BY <1>3, <1>4 DEF FileThenBuffer

\* Sync, by the timer: with the file open or after Close.
LEMMA StepTimerSync ==
  ASSUME TypeOK, FileThenBuffer, ~ReopenMayFail, TimerSync
  PROVE  FileThenBuffer' /\ Log!Grow
<1>1. /\ process = "up"
      /\ disk' = Flushed
      /\ fileSize' = fileSize + waterMark
      /\ waterMark' = 0
      /\ UNCHANGED <<wholeSize, archive, stage, process>>
  BY DEF TimerSync
<1>2. handle' /\ offset' = Len(disk')
  BY DEF TimerSync, Reopen
<1>3. archive \in Seq(Cell) /\ Len(archive) \in Nat /\ Len(disk) \in 0 .. Len(archive)
  BY LenProperties DEF TypeOK, FileThenBuffer, FileIsPrefix
<1>4. ClosedIsFlushed'
  BY <1>1 DEF ClosedIsFlushed
<1>5. CASE Serving
  <2>1. /\ Len(disk') = Len(archive)
        /\ \A i \in 1 .. Len(archive) : disk'[i] = archive[i]
    BY <1>1, <1>5, FlushedIsArchive
  <2>2. FileIsPrefix' /\ Log!Grow
    BY <1>1, <1>3, <2>1 DEF FileIsPrefix, Log!Grow
  <2>3. BufferIsRest'
    <3>1. fileSize' = Len(archive') /\ wholeSize' = Len(archive')
      BY <1>1, <1>5, Served
    <3>2. Len(archive') = fileSize' + waterMark'
      BY <1>1, <1>3, <3>1
    <3> QED
      BY <1>1, <1>2, <2>1, <3>1, <3>2 DEF BufferIsRest
  <2> QED
    BY <1>4, <2>2, <2>3 DEF FileThenBuffer
<1>6. CASE ~Serving
  <2>1. waterMark = 0
    BY <1>1, <1>6 DEF Serving, FileThenBuffer, ClosedIsFlushed
  <2>2. disk' = disk
    BY <1>1, <2>1 DEF Flushed
  <2>3. FileIsPrefix' /\ Log!Grow
    BY <1>1, <1>3, <2>2 DEF FileThenBuffer, FileIsPrefix, Log!Grow
  <2>4. BufferIsRest'
    BY <1>1, <1>6 DEF BufferIsRest, Serving
  <2> QED
    BY <1>4, <2>3, <2>4 DEF FileThenBuffer
<1> QED
  BY <1>5, <1>6

\* A flush that fails half-way, wherever it was called from.
LEMMA PartialFlushSteps ==
  ASSUME TypeOK, FileThenBuffer, Serving, UNCHANGED archive,
         NEW n \in 0 .. waterMark - 1,
         disk' = IF handle THEN WriteAt(disk, offset, SubSeq(buffer, 1, n)) ELSE disk
  PROVE  FileIsPrefix' /\ Log!Grow
<1>1. disk' = WriteAt(disk, offset, SubSeq(buffer, 1, n))
  BY Served
<1>2. /\ Len(disk') \in Len(disk) .. Len(archive)
      /\ \A i \in 1 .. Len(disk') : disk'[i] = archive[i]
  BY <1>1, PartialFlush
<1>3. archive \in Seq(Cell) /\ Len(archive) \in Nat /\ Len(disk) \in Nat
  BY Served
<1> QED
  BY <1>2, <1>3 DEF FileIsPrefix, Log!Grow

LEMMA StepTimerSyncFails ==
  ASSUME TypeOK, FileThenBuffer, TimerSyncFails
  PROVE  FileThenBuffer' /\ Log!Grow
<1>1. Serving
  <2>1. waterMark # 0
    BY BufferedFileAssumption DEF TypeOK, TimerSyncFails
  <2> QED
    BY <2>1 DEF TimerSyncFails, Serving, FileThenBuffer, ClosedIsFlushed
<1>2. FileIsPrefix' /\ Log!Grow
  BY <1>1, PartialFlushSteps DEF TimerSyncFails
<1>3. BufferIsRest' /\ ClosedIsFlushed'
  BY DEF TimerSyncFails, BufferIsRest, ClosedIsFlushed, Serving
<1> QED
  BY <1>2, <1>3 DEF FileThenBuffer

LEMMA StepClear ==
  ASSUME TypeOK, FileThenBuffer, Clear
  PROVE  FileThenBuffer' /\ Log!Drop
<1>1. Serving /\ handle
  BY Served DEF Clear
<1>2. /\ waterMark' = 0 /\ fileSize' = 0 /\ wholeSize' = 0
      /\ archive' = << >> /\ disk' = << >> /\ offset' = 0
      /\ handle' = handle
  BY <1>1 DEF Clear
<1>3. Len(<< >>) = 0
  OBVIOUS
<1>4. FileIsPrefix' /\ ClosedIsFlushed' /\ Log!Drop
  BY <1>2, <1>3 DEF FileIsPrefix, ClosedIsFlushed, Log!Drop
<1>5. BufferIsRest'
  <2>1. /\ offset' = Len(disk') /\ fileSize' = Len(disk')
        /\ Len(archive') = fileSize' + waterMark'
        /\ wholeSize' = Len(archive')
        /\ \A i \in 1 .. waterMark' : archive'[fileSize' + i] = buffer'[i]
    BY <1>2, <1>3
  <2> QED
    BY <1>1, <1>2, <2>1 DEF BufferIsRest
<1> QED
  BY <1>4, <1>5 DEF FileThenBuffer

LEMMA StepClose ==
  ASSUME TypeOK, FileThenBuffer, Close
  PROVE  FileThenBuffer' /\ Log!Grow
<1>1. /\ Serving
      /\ stage' = "closed" /\ waterMark' = 0 /\ archive' = archive
  BY DEF Close
<1>2. FileIsPrefix' /\ Log!Grow
  <2>1. CASE disk' = Flushed
    <3>1. /\ Len(disk') = Len(archive)
          /\ \A i \in 1 .. Len(archive) : disk'[i] = archive[i]
      BY <1>1, <2>1, FlushedIsArchive
    <3>2. /\ archive \in Seq(Cell) /\ Len(archive) \in Nat
          /\ Len(disk) \in 0 .. Len(archive)
      BY LenProperties DEF TypeOK, FileThenBuffer, FileIsPrefix
    <3> QED
      BY <1>1, <3>1, <3>2 DEF FileIsPrefix, Log!Grow
  <2>2. CASE \E n \in 0 .. waterMark - 1 :
               disk' = IF handle THEN WriteAt(disk, offset, SubSeq(buffer, 1, n))
                       ELSE disk
    BY <1>1, <2>2, PartialFlushSteps
  <2> QED
    BY <2>1, <2>2 DEF Close
<1>3. BufferIsRest' /\ ClosedIsFlushed'
  BY <1>1 DEF BufferIsRest, ClosedIsFlushed, Serving
<1> QED
  BY <1>2, <1>3 DEF FileThenBuffer

LEMMA StepRemove ==
  ASSUME TypeOK, FileThenBuffer, Remove
  PROVE  FileThenBuffer' /\ Log!Drop
<1>1. Len(<< >>) = 0
  OBVIOUS
<1>2. FileIsPrefix' /\ Log!Drop
  BY <1>1 DEF Remove, FileIsPrefix, Log!Drop
<1>3. BufferIsRest'
  BY DEF Remove, BufferIsRest, Serving
<1>4. ClosedIsFlushed'
  BY DEF Remove, ClosedIsFlushed, FileThenBuffer, counters
<1> QED
  BY <1>2, <1>3, <1>4 DEF FileThenBuffer

LEMMA StepRestart ==
  ASSUME TypeOK, FileThenBuffer, Restart
  PROVE  FileThenBuffer' /\ Log!Recover
<1>1. /\ disk' = disk /\ archive' = disk
      /\ waterMark' = 0 /\ fileSize' = Len(disk) /\ wholeSize' = Len(disk)
      /\ handle' = TRUE /\ offset' = Len(disk)
  BY DEF Restart
<1>2. disk \in Seq(Cell) /\ Len(disk) \in Nat /\ archive \in Seq(Cell)
  BY LenProperties DEF TypeOK
<1>3. FileIsPrefix' /\ ClosedIsFlushed'
  BY <1>1, <1>2 DEF FileIsPrefix, ClosedIsFlushed
<1>4. BufferIsRest'
  <2>1. /\ offset' = Len(disk') /\ fileSize' = Len(disk')
        /\ Len(archive') = fileSize' + waterMark'
        /\ wholeSize' = Len(archive')
        /\ \A i \in 1 .. waterMark' : archive'[fileSize' + i] = buffer'[i]
    BY <1>1, <1>2
  <2> QED
    BY <1>1, <2>1 DEF BufferIsRest
<1>5. SubSeq(archive, 1, Len(disk)) = disk
  <2> DEFINE t == SubSeq(archive, 1, Len(disk))
  <2>1. Len(disk) <= Len(archive) /\ \A i \in 1 .. Len(disk) : disk[i] = archive[i]
    BY DEF FileThenBuffer, FileIsPrefix
  <2>2. \A i \in 1 .. Len(disk) : archive[i] \in Cell
    BY <1>2, <2>1, ElementOfSeq
  <2>3. /\ t \in Seq(Cell)
        /\ Len(t) = Len(disk)
        /\ \A i \in 1 .. Len(disk) : t[i] = archive[i]
    <3>1. /\ t \in Seq(Cell)
          /\ Len(t) = IF 1 <= Len(disk) THEN Len(disk) - 1 + 1 ELSE 0
          /\ \A i \in 1 .. Len(disk) - 1 + 1 : t[i] = archive[1 + i - 1]
      BY <1>2, <2>2, SubSeqProperties
    <3> HIDE DEF t
    <3> QED
      BY <1>2, <3>1
  <2> HIDE DEF t
  <2>4. t = disk
    BY <1>2, <2>1, <2>3, SeqEqual
  <2> QED
    BY <2>4 DEF t
<1>6. Log!Recover
  BY <1>1, <1>5 DEF Log!Recover
<1> QED
  BY <1>3, <1>4, <1>6 DEF FileThenBuffer

-----------------------------------------------------------------------------
(* The theorems about the archive.                                         *)

LEMMA InvInit == Init => FileThenBuffer /\ Log!Init
<1> SUFFICES ASSUME Init PROVE FileThenBuffer /\ Log!Init
  OBVIOUS
<1>1. disk \in Seq(Cell) /\ Len(disk) \in Nat
  BY TypeInit, LenProperties DEF TypeOK
<1>2. FileIsPrefix /\ ClosedIsFlushed /\ Log!Init
  BY <1>1 DEF Init, FileIsPrefix, ClosedIsFlushed, Log!Init
<1>3. BufferIsRest
  <2>1. /\ offset = Len(disk) /\ fileSize = Len(disk)
        /\ Len(archive) = fileSize + waterMark
        /\ wholeSize = Len(archive)
        /\ \A i \in 1 .. waterMark : archive[fileSize + i] = buffer[i]
    BY <1>1 DEF Init
  <2> QED
    BY <2>1 DEF Init, BufferIsRest
<1> QED
  BY <1>2, <1>3 DEF FileThenBuffer

LEMMA InvNext ==
  ASSUME TypeOK, FileThenBuffer, ~ReopenMayFail, [Next]_vars
  PROVE  FileThenBuffer' /\ [Log!Next]_<<archive, Len(disk)>>
<1>1. ASSUME NEW data \in Data, Write(data)
      PROVE  FileThenBuffer' /\ Log!Grow
  BY <1>1, StepWriteToBuffer, StepWriteAfterSync, StepWriteThrough, StepWriteFails
     DEF Write
<1>2. CASE TimerSync
  BY <1>2, StepTimerSync DEF Log!Next
<1>3. CASE TimerSyncFails
  BY <1>3, StepTimerSyncFails DEF Log!Next
<1>4. CASE Clear
  BY <1>4, StepClear DEF Log!Next
<1>5. CASE Close
  BY <1>5, StepClose DEF Log!Next
<1>6. CASE Remove
  BY <1>6, StepRemove DEF Log!Next
<1>7. CASE Restart
  BY <1>7, StepRestart DEF Log!Next
<1>8. ASSUME UNCHANGED <<buffer, counters, osFile, stage, archive>>,
             process' = process \/ process' = "down"
      PROVE  FileThenBuffer' /\ UNCHANGED <<archive, Len(disk)>>
  BY <1>8 DEF FileThenBuffer, FileIsPrefix, BufferIsRest, ClosedIsFlushed,
              Serving, counters, osFile
<1>9. CASE TimerFires
  BY <1>8, <1>9 DEF TimerFires
<1>10. CASE TimerStops
  BY <1>8, <1>10 DEF TimerStops
<1>11. CASE Crash
  BY <1>8, <1>11 DEF Crash
<1>12. CASE UNCHANGED vars
  BY <1>8, <1>12 DEF vars
<1> QED
  BY <1>1, <1>2, <1>3, <1>4, <1>5, <1>6, <1>7, <1>9, <1>10, <1>11, <1>12
     DEF Next, Log!Next

\* File and buffer together are the archive, in order and without overlap,
\* for every buffer size, as long as the file can be reopened after a sync.
THEOREM ArchiveIsFileThenBuffer ==
  ASSUME ~ReopenMayFail
  PROVE  Spec => []FileThenBuffer
<1>1. Init => TypeOK /\ FileThenBuffer
  BY TypeInit, InvInit
<1>2. (TypeOK /\ FileThenBuffer) /\ [Next]_vars => (TypeOK /\ FileThenBuffer)'
  BY TypeNext, InvNext
<1> QED
  BY <1>1, <1>2, PTL DEF Spec

\* A room that keeps its drawing in a buffered file may think of it as a log
\* that grows, is dropped as a whole, and is cut back to its durable prefix
\* by a crash: nothing else ever happens to it.
THEOREM ImplementsLog ==
  ASSUME ~ReopenMayFail
  PROVE  Spec => ImplementsArchiveLog
<1>1. Init => Log!Init
  BY InvInit
<1>2. TypeOK /\ FileThenBuffer /\ [Next]_vars => [Log!Next]_<<archive, Len(disk)>>
  BY InvNext
<1> QED
  BY <1>1, <1>2, TypeCorrect, ArchiveIsFileThenBuffer, PTL
     DEF Spec, ImplementsArchiveLog, Log!Spec

-----------------------------------------------------------------------------
(* Reads.                                                                  *)

\* The n cells of s behind a are those of t behind b.
CellsAgree(s, a, t, b, n) ==
  \A i \in 1 .. n : s[a + i] = t[b + i] /\ t[b + i] \in Cell

\* Equal cells are equal subsequences.
LEMMA SameCells ==
  ASSUME NEW s, NEW t, NEW a \in Nat, NEW b \in Nat, NEW n \in Nat,
         CellsAgree(s, a, t, b, n)
  PROVE  SubSeq(s, a + 1, a + n) = SubSeq(t, b + 1, b + n)
<1> USE DEF CellsAgree
<1> DEFINE u == SubSeq(s, a + 1, a + n)
           v == SubSeq(t, b + 1, b + n)
<1>1. \A i \in a + 1 .. a + n : s[i] \in Cell
  <2> TAKE i \in a + 1 .. a + n
  <2>1. i - a \in 1 .. n /\ a + (i - a) = i
    OBVIOUS
  <2> QED
    BY <2>1
<1>2. \A i \in b + 1 .. b + n : t[i] \in Cell
  <2> TAKE i \in b + 1 .. b + n
  <2>1. i - b \in 1 .. n /\ b + (i - b) = i
    OBVIOUS
  <2> QED
    BY <2>1
<1>3. /\ u \in Seq(Cell)
      /\ Len(u) = IF a + 1 <= a + n THEN a + n - (a + 1) + 1 ELSE 0
      /\ \A i \in 1 .. a + n - (a + 1) + 1 : u[i] = s[a + 1 + i - 1]
  BY <1>1, SubSeqProperties
<1>4. /\ v \in Seq(Cell)
      /\ Len(v) = IF b + 1 <= b + n THEN b + n - (b + 1) + 1 ELSE 0
      /\ \A i \in 1 .. b + n - (b + 1) + 1 : v[i] = t[b + 1 + i - 1]
  BY <1>2, SubSeqProperties
<1> HIDE DEF u, v
<1>5. Len(u) = n /\ \A i \in 1 .. n : u[i] = s[a + i]
  BY <1>3
<1>6. Len(v) = n /\ \A i \in 1 .. n : v[i] = t[b + i]
  BY <1>4
<1>7. \A i \in 1 .. n : u[i] = v[i]
  BY <1>5, <1>6 DEF CellsAgree
<1> HIDE DEF CellsAgree
<1>8. u \in Seq(Cell) /\ v \in Seq(Cell) /\ Len(u) = Len(v) /\ \A i \in 1 .. Len(u) : u[i] = v[i]
  BY <1>3, <1>4, <1>5, <1>6, <1>7
<1>9. u = v
  BY <1>8, SeqEqual
<1> QED
  BY <1>9 DEF u, v

\* The cells a ReadAt may be asked for.
LEMMA ReadFromFile ==
  ASSUME TypeOK, FileThenBuffer, Serving,
         NEW off \in Nat, NEW len \in Nat, off + len <= Len(disk)
  PROVE  OsRead(off, len) = Got(SubSeq(archive, off + 1, off + len))
<1>1. /\ handle
      /\ archive \in Seq(Cell)
      /\ disk \in Seq(Cell) /\ Len(disk) \in Nat
      /\ \A i \in 1 .. Len(disk) : disk[i] = archive[i]
  BY Served
<1>2. CASE len = 0
  <2>1. SubSeq(archive, off + 1, off + len) = << >>
    BY <1>2, SubSeqEmpty
  <2> QED
    BY <1>2, <2>1 DEF OsRead
<1>3. CASE len # 0
  <2>1. CellsAgree(disk, off, archive, off, len)
    <3> SUFFICES ASSUME NEW i \in 1 .. len
                 PROVE  disk[off + i] = archive[off + i] /\ archive[off + i] \in Cell
      BY DEF CellsAgree
    <3>1. off + i \in 1 .. Len(disk)
      BY <1>1
    <3>2. disk[off + i] \in Cell
      BY <1>1, <3>1, ElementOfSeq
    <3> QED
      BY <1>1, <3>1, <3>2
  <2>2. SubSeq(disk, off + 1, off + len) = SubSeq(archive, off + 1, off + len)
    BY <2>1, SameCells
  <2> QED
    BY <1>1, <1>3, <2>2 DEF OsRead
<1> QED
  BY <1>2, <1>3

LEMMA ReadFromBuffer ==
  ASSUME TypeOK, FileThenBuffer, Serving,
         NEW start \in Nat, NEW len \in Nat, start + len <= waterMark
  PROVE  SubSeq(buffer, start + 1, start + len)
           = SubSeq(archive, fileSize + start + 1, fileSize + start + len)
<1>1. /\ waterMark \in Nat
      /\ fileSize = Len(disk) /\ fileSize \in Nat
      /\ \A i \in 1 .. waterMark : archive[Len(disk) + i] = buffer[i]
  BY Served
<1>2. BufferSize \in Nat /\ waterMark <= BufferSize
  BY BufferedFileAssumption DEF TypeOK
<1>3. ASSUME NEW i \in 1 .. len
      PROVE  /\ buffer[start + i] = archive[(fileSize + start) + i]
             /\ archive[(fileSize + start) + i] \in Cell
  <2>1. /\ start + i \in 1 .. waterMark
        /\ start + i \in 1 .. BufferSize
        /\ (fileSize + start) + i = Len(disk) + (start + i)
    BY <1>1, <1>2
  <2>2. buffer[start + i] \in Cell
    BY <2>1 DEF TypeOK
  <2> QED
    BY <1>1, <2>1, <2>2
<1>4. PICK b \in Nat : b = fileSize + start
  BY <1>1
<1>5. CellsAgree(buffer, start, archive, b, len)
  BY <1>3, <1>4 DEF CellsAgree
<1>6. SubSeq(buffer, start + 1, start + len) = SubSeq(archive, b + 1, b + len)
  BY <1>5, SameCells
<1> QED
  BY <1>4, <1>6

\* Every read inside the archive answers with the archive's own cells.
LEMMA ReadInside ==
  ASSUME TypeOK, FileThenBuffer, Serving,
         NEW off \in Nat, NEW len \in Nat, off + len <= Len(archive)
  PROVE  ReadAt(off, len) = Got(SubSeq(archive, off + 1, off + len))
<1>1. /\ waterMark \in Nat
      /\ fileSize = Len(disk) /\ fileSize \in Nat
      /\ archive \in Seq(Cell)
      /\ Len(archive) = fileSize + waterMark
  BY Served
<1>2. ~(off + len > fileSize + waterMark)
  BY <1>1
<1>3. CASE off + len <= fileSize /\ fileSize # 0
  <2>1. ReadAt(off, len) = OsRead(off, len)
    BY <1>2, <1>3 DEF ReadAt
  <2> QED
    BY <1>1, <1>3, <2>1, ReadFromFile
<1>4. CASE ~(off + len <= fileSize /\ fileSize # 0) /\ off > fileSize
  <2>1. ReadAt(off, len) = Got(SubSeq(buffer, off - fileSize + 1, off - fileSize + len))
    BY <1>2, <1>4 DEF ReadAt
  <2>2. /\ off - fileSize \in Nat
        /\ (off - fileSize) + len <= waterMark
        /\ fileSize + (off - fileSize) = off
    BY <1>1, <1>4
  <2> QED
    BY <2>1, <2>2, ReadFromBuffer
<1>5. CASE ~(off + len <= fileSize /\ fileSize # 0) /\ ~(off > fileSize)
  <2> DEFINE m == fileSize - off
             n == off + len - fileSize
  <2>1. ReadAt(off, len) = ReadAcross(off, len)
    BY <1>2, <1>5 DEF ReadAt
  <2>2. m \in Nat /\ n \in Nat /\ off + m = fileSize /\ 0 + n <= waterMark
    BY <1>1, <1>5
  <2>3. OsRead(off, m) = Got(SubSeq(archive, off + 1, fileSize))
    <3>1. OsRead(off, m) = Got(SubSeq(archive, off + 1, off + m))
      BY <1>1, <2>2, ReadFromFile
    <3> QED
      BY <2>2, <3>1
  <2>4. SubSeq(buffer, 1, n) = SubSeq(archive, fileSize + 1, off + len)
    <3>1. SubSeq(buffer, 0 + 1, 0 + n)
            = SubSeq(archive, fileSize + 0 + 1, fileSize + 0 + n)
      BY <2>2, ReadFromBuffer
    <3>2. /\ 0 + 1 = 1 /\ 0 + n = n
          /\ fileSize + 0 + 1 = fileSize + 1 /\ fileSize + 0 + n = off + len
      BY <1>1, <2>2
    <3> QED
      BY <3>1, <3>2
  <2>5. ReadAcross(off, len) = Got(SubSeq(archive, off + 1, fileSize)
                                   \o SubSeq(archive, fileSize + 1, off + len))
    <3>1. OsRead(off, m).ok /\ OsRead(off, m).data = SubSeq(archive, off + 1, fileSize)
      BY <2>3 DEF Got
    <3> QED
      BY <2>4, <3>1 DEF ReadAcross
  <2>6. SubSeq(archive, off + 1, fileSize) \o SubSeq(archive, fileSize + 1, off + len)
          = SubSeq(archive, off + 1, off + len)
    <3> DEFINE a == off + 1
               b == off + len
    <3>1. /\ a \in 1 .. Len(archive) + 1
          /\ fileSize \in a - 1 .. Len(archive)
          /\ b \in fileSize .. Len(archive)
      BY <1>1, <1>5
    <3> HIDE DEF a, b
    <3>2. SubSeq(archive, a, fileSize) \o SubSeq(archive, fileSize + 1, b)
            = SubSeq(archive, a, b)
      BY <1>1, <3>1, ConcatAdjacentSubSeq
    <3> QED
      BY <3>2 DEF a, b
  <2> QED
    BY <2>1, <2>5, <2>6
<1> QED
  BY <1>3, <1>4, <1>5

\* ReadAt returns the archive's bytes wherever the boundary between file and
\* buffer lies, and refuses exactly the reads that leave the archive.
THEOREM ReadsAreTheArchive ==
  ASSUME ~ReopenMayFail
  PROVE  Spec => []ReadReturnsArchive
<1>1. TypeOK /\ FileThenBuffer => ReadReturnsArchive
  <2> SUFFICES ASSUME TypeOK, FileThenBuffer, Serving,
                      NEW off \in 0 .. MaxWhole, NEW len \in 0 .. MaxWhole
               PROVE  /\ ReadAt(off, len).ok =>
                           /\ off + len <= Len(archive)
                           /\ ReadAt(off, len).data = SubSeq(archive, off + 1, off + len)
                      /\ handle /\ off + len <= Len(archive) => ReadAt(off, len).ok
    BY DEF ReadReturnsArchive
  <2>1. off \in Nat /\ len \in Nat
    BY BufferedFileAssumption
  <2>2. CASE off + len <= Len(archive)
    <3>1. ReadAt(off, len) = Got(SubSeq(archive, off + 1, off + len))
      BY <2>1, <2>2, ReadInside
    <3> QED
      BY <2>2, <3>1 DEF Got
  <2>3. CASE ~(off + len <= Len(archive))
    <3>1. off + len > fileSize + waterMark
      <4>1. /\ Len(archive) \in Nat
            /\ Len(archive) = fileSize + waterMark
        BY Served
      <4> QED
        BY <2>1, <2>3, <4>1
    <3>2. ReadAt(off, len) = Failed
      BY <3>1 DEF ReadAt
    <3> QED
      BY <2>3, <3>2 DEF Failed
  <2> QED
    BY <2>2, <2>3
<1> QED
  BY <1>1, TypeCorrect, ArchiveIsFileThenBuffer, PTL
=============================================================================

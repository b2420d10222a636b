---------------------------- MODULE BufferedFile ----------------------------
(***************************************************************************)
(* pkg/BufferedFile: the file that records a room's drawing, behind a      *)
(* write buffer of fixed size.  Write, ReadAt, Sync, Clear and Close hold  *)
(* f.locker from their first line to their last, so each is one action;    *)
(* the goroutine of startWriteTimer and a crash of the server interleave   *)
(* with them.                                                              *)
(*                                                                         *)
(* Every caller in src/ turns an error of Write or of the timer's Sync     *)
(* into a panic that nothing recovers, so an operation that fails takes    *)
(* the process down in the same step.                                      *)
(***************************************************************************)
EXTENDS Integers, Sequences

CONSTANTS
  Byte,           \* the bytes callers write
  Zero,           \* what a fresh buffer, or a hole in a file, holds
  BufferSize,     \* option.BufferSize
  MaxWrite,       \* bound: the longest Write
  MaxWhole,       \* bound: no Write makes the archive longer than this
  ReopenMayFail   \* may openForRead, whose error Sync drops, fail?

ASSUME BufferedFileAssumption ==
  /\ BufferSize \in Nat \ {0}
  /\ MaxWrite \in Nat
  /\ MaxWhole \in Nat
  /\ ReopenMayFail \in BOOLEAN

VARIABLES
  buffer, waterMark, fileSize, wholeSize,   \* the fields of BufferedFile
  handle,     \* is f.file an open descriptor?
  offset,     \* the descriptor's position
  disk,       \* what the operating system's file holds
  timer,      \* the goroutine of startWriteTimer
  stage,      \* "open", then "closed" (Close), then "removed" (Remove)
  process,    \* is the server "up" or "down"?
  archive     \* history: every byte accepted since the last Clear

counters == <<waterMark, fileSize, wholeSize>>
osFile   == <<handle, offset, disk>>
vars     == <<buffer, counters, osFile, timer, stage, process, archive>>

Cell == Byte \cup {Zero}

Data == UNION {[1 .. n -> Byte] : n \in 1 .. MaxWrite}

TypeOK ==
  /\ buffer \in [1 .. BufferSize -> Cell]
  /\ waterMark \in 0 .. BufferSize
  /\ fileSize \in Nat
  /\ wholeSize \in Nat
  /\ handle \in BOOLEAN
  /\ offset \in Nat
  /\ disk \in Seq(Cell)
  /\ timer \in {"waiting", "syncing", "gone"}
  /\ stage \in {"open", "closed", "removed"}
  /\ process \in {"up", "down"}
  /\ archive \in Seq(Cell)

-----------------------------------------------------------------------------
(* The operating system's file.                                            *)

Larger(m, n) == IF m < n THEN n ELSE m

\* File contents d after s is written at offset off.
WriteAt(d, off, s) ==
  [i \in 1 .. Larger(Len(d), off + Len(s)) |->
     IF off < i /\ i <= off + Len(s) THEN s[i - off]
     ELSE IF i <= Len(d) THEN d[i] ELSE Zero]

Pending == SubSeq(buffer, 1, waterMark)

\* What the file holds once Sync's (or innerSync's) Write has succeeded.
Flushed == IF waterMark < 1 THEN disk ELSE WriteAt(disk, offset, Pending)

CanFlush == waterMark < 1 \/ handle

\* buffer[mark:] overwritten by data, cut off where the buffer ends.
Overlay(mark, data) ==
  [i \in 1 .. BufferSize |->
     IF mark < i /\ i <= mark + Len(data) THEN data[i - mark] ELSE buffer[i]]

\* openForRead at the end of a sync: the descriptor is new and at the end of
\* the file, or f.file stays the one just closed.
Reopen ==
  \/ handle' = TRUE /\ offset' = Len(disk')
  \/ ReopenMayFail /\ handle' = FALSE /\ offset' = offset

-----------------------------------------------------------------------------

Init ==
  /\ buffer = [i \in 1 .. BufferSize |-> Zero]
  /\ disk \in {<< >>} \cup [1 .. 1 -> Byte]     \* a new room, or a recovered one
  /\ waterMark = 0
  /\ fileSize = Len(disk)
  /\ wholeSize = Len(disk)
  /\ handle = TRUE
  /\ offset = Len(disk)
  /\ timer = "waiting"
  /\ stage = "open"
  /\ process = "up"
  /\ archive = disk

Serving == process = "up" /\ stage = "open"

\* Mutant: only a full buffer is flushed, however long the data is.
NoRoomWhenFull(data) == BufferSize - waterMark <= 0

\* left <= length: the buffer must be flushed first.
NoRoom(data) == BufferSize - waterMark <= Len(data)

Accept(data) ==
  /\ Len(archive) + Len(data) <= MaxWhole
  /\ archive' = archive \o data
  /\ wholeSize' = wholeSize + Len(data)
  /\ UNCHANGED <<timer, stage, process>>

WriteToBuffer(data) ==
  /\ Serving
  /\ ~NoRoom(data)
  /\ Accept(data)
  /\ buffer' = Overlay(waterMark, data)
  /\ waterMark' = waterMark + Len(data)
  /\ UNCHANGED <<fileSize, osFile>>

\* Mutant: the water mark read before the sync is used after it.
WriteAfterSyncStaleMark(data) ==
  /\ Serving
  /\ NoRoom(data) /\ CanFlush
  /\ Len(data) <= BufferSize
  /\ Accept(data)
  /\ disk' = Flushed
  /\ fileSize' = fileSize + waterMark
  /\ Reopen
  /\ buffer' = Overlay(waterMark, data)
  /\ waterMark' = Len(data)

WriteAfterSync(data) ==
  /\ Serving
  /\ NoRoom(data) /\ CanFlush
  /\ Len(data) <= BufferSize
  /\ Accept(data)
  /\ disk' = Flushed
  /\ fileSize' = fileSize + waterMark
  /\ Reopen
  /\ buffer' = Overlay(0, data)
  /\ waterMark' = Len(data)

\* Mutant: a write larger than the buffer overtakes what is buffered.
WriteThroughUnflushed(data) ==
  /\ Serving
  /\ NoRoom(data) /\ CanFlush
  /\ Len(data) > BufferSize
  /\ Accept(data)
  /\ disk' = WriteAt(disk, Len(disk), data)
  /\ handle' = TRUE /\ offset' = Len(disk')
  /\ fileSize' = fileSize + Len(data)
  /\ UNCHANGED <<buffer, waterMark>>

\* A write larger than the buffer goes straight to the file.
WriteThrough(data) ==
  /\ Serving
  /\ NoRoom(data) /\ CanFlush
  /\ Len(data) > BufferSize
  /\ Accept(data)
  /\ disk' = WriteAt(Flushed, Len(Flushed), data)
  /\ handle' = TRUE /\ offset' = Len(disk')
  /\ fileSize' = fileSize + waterMark + Len(data)
  /\ waterMark' = 0
  /\ UNCHANGED buffer

\* The operating system refuses the data, after taking some of it or none:
\* the caller panics.  What a direct write left in the file counts as archived.
WriteFails(data) ==
  /\ Serving
  /\ NoRoom(data)
  /\ Len(archive) + Len(data) <= MaxWhole
  /\ process' = "down"
  /\ \/ /\ handle
        /\ waterMark > 0
        /\ \E n \in 0 .. waterMark - 1 :
             disk' = WriteAt(disk, offset, SubSeq(buffer, 1, n))
        /\ UNCHANGED archive
     \/ /\ ~CanFlush
        /\ UNCHANGED <<disk, archive>>
     \/ /\ CanFlush
        /\ Len(data) > BufferSize
        /\ \E n \in 0 .. Len(data) - 1 :
             /\ disk' = WriteAt(Flushed, Len(Flushed), SubSeq(data, 1, n))
             /\ archive' = archive \o SubSeq(data, 1, n)
  /\ UNCHANGED <<buffer, counters, handle, offset, timer, stage>>

Write(data) ==
  \/ WriteToBuffer(data)
  \/ WriteAfterSync(data)
  \/ WriteThrough(data)
  \/ WriteFails(data)

-----------------------------------------------------------------------------
(* startWriteTimer's goroutine: WriteCycle has passed, then it calls Sync. *)
(* Close may come between the two.                                         *)

TimerFires ==
  /\ process = "up"
  /\ timer = "waiting"
  /\ timer' = "syncing"
  /\ UNCHANGED <<buffer, counters, osFile, stage, process, archive>>

\* Mutant: the goroutine returns while the file is open.
TimerStopsEarly ==
  /\ process = "up"
  /\ timer = "waiting"
  /\ timer' = "gone"
  /\ UNCHANGED <<buffer, counters, osFile, stage, process, archive>>

TimerStops ==
  /\ process = "up"
  /\ timer = "waiting"
  /\ stage # "open"
  /\ timer' = "gone"
  /\ UNCHANGED <<buffer, counters, osFile, stage, process, archive>>

TimerSync ==
  /\ process = "up"
  /\ timer = "syncing"
  /\ CanFlush
  /\ disk' = Flushed
  /\ fileSize' = fileSize + waterMark
  /\ waterMark' = 0
  /\ Reopen
  /\ timer' = "waiting"
  /\ UNCHANGED <<buffer, wholeSize, stage, process, archive>>

TimerSyncFails ==
  /\ process = "up"
  /\ timer = "syncing"
  /\ waterMark > 0
  /\ \E n \in 0 .. waterMark - 1 :
       disk' = IF handle THEN WriteAt(disk, offset, SubSeq(buffer, 1, n)) ELSE disk
  /\ process' = "down"
  /\ UNCHANGED <<buffer, counters, handle, offset, timer, stage, archive>>

-----------------------------------------------------------------------------

\* Mutant: Clear without its Seek.
ClearWithoutSeek ==
  /\ Serving
  /\ waterMark' = 0
  /\ fileSize' = 0
  /\ wholeSize' = 0
  /\ archive' = << >>
  /\ IF handle THEN disk' = << >> ELSE UNCHANGED disk
  /\ UNCHANGED <<buffer, handle, offset, timer, stage, process>>

\* Truncate fails on a descriptor that is not open (and here on no other); its
\* caller's panic is recovered by the room's router, with the counters at 0.
Clear ==
  /\ Serving
  /\ waterMark' = 0
  /\ fileSize' = 0
  /\ wholeSize' = 0
  /\ archive' = << >>
  /\ IF handle THEN disk' = << >> /\ offset' = 0 ELSE UNCHANGED <<disk, offset>>
  /\ UNCHANGED <<buffer, handle, timer, stage, process>>

\* Close syncs and closes the descriptor.  Radio.Remove, its only caller,
\* ignores the error of a sync that fails.  One step, although only the sync
\* takes the lock: a write between the two is not in this model.
Close ==
  /\ Serving
  /\ stage' = "closed"
  /\ \/ /\ CanFlush
        /\ disk' = Flushed
        /\ offset' = Len(disk')
        /\ handle' = FALSE
     \/ /\ waterMark > 0
        /\ \E n \in 0 .. waterMark - 1 :
             disk' = IF handle THEN WriteAt(disk, offset, SubSeq(buffer, 1, n)) ELSE disk
        /\ Reopen
  /\ fileSize' = fileSize + waterMark
  /\ waterMark' = 0
  /\ UNCHANGED <<buffer, wholeSize, timer, process, archive>>

Remove ==
  /\ process = "up"
  /\ stage = "closed"
  /\ stage' = "removed"
  /\ disk' = << >>
  /\ archive' = << >>
  /\ UNCHANGED <<buffer, counters, handle, offset, timer, process>>

-----------------------------------------------------------------------------

Crash ==
  /\ process = "up"
  /\ process' = "down"
  /\ UNCHANGED <<buffer, counters, osFile, timer, stage, archive>>

\* MakeBufferedFile in the restarted server: the file is all there is.
Restart ==
  /\ process = "down"
  /\ process' = "up"
  /\ buffer' = [i \in 1 .. BufferSize |-> Zero]
  /\ waterMark' = 0
  /\ fileSize' = Len(disk)
  /\ wholeSize' = Len(disk)
  /\ handle' = TRUE
  /\ offset' = Len(disk)
  /\ timer' = "waiting"
  /\ stage' = "open"
  /\ archive' = disk
  /\ UNCHANGED disk

Next ==
  \/ \E data \in Data : Write(data)
  \/ TimerFires \/ TimerStops \/ TimerSync \/ TimerSyncFails
  \/ Clear \/ Close \/ Remove
  \/ Crash \/ Restart

Spec == Init /\ [][Next]_vars

\* The runtime runs the timer's goroutine; callers and crashes owe nothing.
FairSpec ==
  Spec /\ WF_vars(TimerFires) /\ WF_vars(TimerSync \/ TimerSyncFails)

-----------------------------------------------------------------------------
(* ReadAt changes nothing: its answer is a function of the state.          *)

Failed == [ok |-> FALSE, data |-> << >>]
Got(s) == [ok |-> TRUE, data |-> s]

OsRead(off, len) ==
  IF len = 0 THEN Got(<< >>)
  ELSE IF handle /\ off + len <= Len(disk)
       THEN Got(SubSeq(disk, off + 1, off + len))
       ELSE Failed

\* A read that begins in the file and ends in the buffer.
ReadAcross(off, len) ==
  LET head == OsRead(off, fileSize - off)
  IN IF head.ok THEN Got(head.data \o SubSeq(buffer, 1, off + len - fileSize))
     ELSE Failed

ReadAt(off, len) ==
  IF off + len > fileSize + waterMark THEN Failed
  ELSE IF off + len <= fileSize /\ fileSize # 0 THEN OsRead(off, len)
  ELSE IF off > fileSize
       THEN Got(SubSeq(buffer, off - fileSize + 1, off - fileSize + len))
       ELSE ReadAcross(off, len)

-----------------------------------------------------------------------------
(* Properties.                                                             *)

\* ReadAt never hands out a byte that is not the archive's byte at that
\* position, wherever the boundary between file and buffer lies, and a read
\* inside the archive succeeds while the descriptor is open.
ReadReturnsArchive ==
  Serving =>
    \A off, len \in 0 .. MaxWhole :
      LET r == ReadAt(off, len) IN
        /\ r.ok => /\ off + len <= Len(archive)
                   /\ r.data = SubSeq(archive, off + 1, off + len)
        /\ handle /\ off + len <= Len(archive) => r.ok

\* "Returns the size of file and buffer": what WholeSize, read without the
\* lock, promises to whoever computes positions from it.
WholeSizeIsFileAndBuffer ==
  Serving => wholeSize = Len(disk) + waterMark

\* "it can sync to file automatically": whatever has been accepted reaches
\* the file with no further call, unless the server goes down, the file is
\* closed, or the archive is cleared first.
SyncsByItself ==
  \A n \in 1 .. MaxWhole :
    (Serving /\ Len(archive) >= n)
      ~> (Len(disk) >= n \/ ~Serving \/ Len(archive) < n)

\* The buffered file is an archive log whose durable part is the file.
Log == INSTANCE ArchiveLog
         WITH Byte <- Cell, log <- archive, durable <- Len(disk)

ImplementsArchiveLog == Log!Spec

-----------------------------------------------------------------------------
(* The inductive invariant behind the properties above: what the file      *)
(* holds is the beginning of the archive and what is pending the rest.     *)

FileIsPrefix ==
  /\ Len(disk) <= Len(archive)
  /\ \A i \in 1 .. Len(disk) : disk[i] = archive[i]

BufferIsRest ==
  Serving =>
    /\ handle
    /\ offset = Len(disk)
    /\ fileSize = Len(disk)
    /\ Len(archive) = fileSize + waterMark
    /\ wholeSize = Len(archive)
    /\ \A i \in 1 .. waterMark : archive[fileSize + i] = buffer[i]

ClosedIsFlushed == (process = "up" /\ stage # "open") => waterMark = 0

\* File and buffer together are the archive, in order and without overlap,
\* in every state in which the file is served, and the file alone is a
\* prefix of it in every other, as long as the file can be reopened.
FileThenBuffer == FileIsPrefix /\ BufferIsRest /\ ClosedIsFlushed
=============================================================================

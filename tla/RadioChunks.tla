---------------------------- MODULE RadioChunks ----------------------------
(***************************************************************************)
(* pkg/Radio/Utils.go: the chunks of a client's pending queue and how they *)
(* are split, merged and queued.  A RadioTaskList is the sequence of its   *)
(* tasks; every operation takes the list's locker for its whole length, so *)
(* each is a function from the list before to the list after.              *)
(***************************************************************************)
EXTENDS Integers, Sequences

CONSTANTS CHUNK_SIZE, MAX_CHUNKS_IN_QUEUE

ASSUME RadioChunksAssumption ==
  /\ CHUNK_SIZE \in Nat \ {0}
  /\ MAX_CHUNKS_IN_QUEUE \in Nat \ {0}

FileChunk(start, length) == [kind |-> "file", start |-> start, length |-> length]
RAMChunk(data)           == [kind |-> "ram", data |-> data]

-----------------------------------------------------------------------------

\* CHUNK_SIZE, doubled until the chunk makes no more full pieces than fit;
\* grown[k] is the size after k turns of the loop, or fewer if it ends before.
RealChunkSize(length) ==
  LET grown[k \in 0 .. length] ==
        IF k = 0 THEN CHUNK_SIZE
        ELSE LET size == grown[k - 1] IN
               IF length \div size > MAX_CHUNKS_IN_QUEUE THEN size * 2 ELSE size
  IN grown[length]

\* Mutant: a remainder is queued even when there is none.
PiecesWithEmpty(chunk, size) ==
  LET full == chunk.length \div size
      rest == chunk.length % size
  IN [i \in 1 .. full + 1 |->
        FileChunk(chunk.start + (i - 1) * size, IF i <= full THEN size ELSE rest)]

\* Full pieces of the given size, and a shorter one for what remains.
Pieces(chunk, size) ==
  LET full == chunk.length \div size
      rest == chunk.length % size
  IN [i \in 1 .. (IF rest > 0 THEN full + 1 ELSE full) |->
        FileChunk(chunk.start + (i - 1) * size, IF i <= full THEN size ELSE rest)]

\* Mutant: pieces are never made larger than CHUNK_SIZE.
SplitAlike(chunk) == Pieces(chunk, CHUNK_SIZE)

splitChunk(chunk) == Pieces(chunk, RealChunkSize(chunk.length))

-----------------------------------------------------------------------------

Bottom(tasks)     == tasks[Len(tasks)]
PoppedBack(tasks) == SubSeq(tasks, 1, Len(tasks) - 1)

\* May the file chunk be merged into the last task?
Neighbour(tasks, chunk) ==
  /\ tasks # << >>
  /\ Bottom(tasks).kind = "file"
  /\ Bottom(tasks).start + Bottom(tasks).length = chunk.start

Merged(tasks, chunk) ==
  FileChunk(Bottom(tasks).start, Bottom(tasks).length + chunk.length)

\* Mutant: the old bottom chunk stays where it was when it is merged.
AppendedTwice(tasks, chunk) ==
  IF chunk.kind = "ram" THEN Append(tasks, chunk)
  ELSE IF Neighbour(tasks, chunk) THEN tasks \o splitChunk(Merged(tasks, chunk))
  ELSE tasks \o splitChunk(chunk)

\* The list after appendToPendings(chunk, list).
appendToPendings(tasks, chunk) ==
  IF chunk.kind = "ram" THEN Append(tasks, chunk)
  ELSE IF Neighbour(tasks, chunk)
       THEN PoppedBack(tasks) \o splitChunk(Merged(tasks, chunk))
       ELSE tasks \o splitChunk(chunk)

PopFront(tasks)         == Tail(tasks)
PushFront(tasks, chunk) == <<chunk>> \o tasks
=============================================================================

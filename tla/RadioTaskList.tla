--------------------------- MODULE RadioTaskList ---------------------------
(***************************************************************************)
(* One client's RadioTaskList between the two callers that its locker      *)
(* serialises: appendToPendings and fetchAndSend.  The history variable    *)
(* owed is what the client was promised, piece by piece and in order.      *)
(***************************************************************************)
EXTENDS RadioChunks, SequencesExt

CONSTANTS
  Message,      \* what a RAMChunk carries
  MaxPos,       \* bound: file chunks lie in the first MaxPos bytes
  MaxOwed       \* bound: no more than so many bytes and messages in all

ASSUME RadioTaskListAssumption == MaxPos \in Nat \ {0} /\ MaxOwed \in Nat

VARIABLES
  tasks,        \* list.tasks
  fileSize,     \* the readable size of the archive
  sent,         \* history: bytes (by position) and messages written out
  owed          \* history: those that were appended

vars == <<tasks, fileSize, sent, owed>>

InputChunk ==
  {FileChunk(s, l) : s \in 0 .. MaxPos - 1, l \in 1 .. MaxPos}
    \cup {RAMChunk(m) : m \in Message}

\* Where the last of the file chunks can end.
MaxFile == 2 * MaxPos - 1

\* The positions, or the message, that a chunk stands for, in order.
Units(chunk) ==
  IF chunk.kind = "ram" THEN <<chunk.data>>
  ELSE [i \in 1 .. chunk.length |-> chunk.start + i]

AllUnits(list) == FlattenSeq([i \in 1 .. Len(list) |-> Units(list[i])])

TypeOK ==
  /\ tasks \in Seq([kind : {"file"}, start : Nat, length : Nat \ {0}]
                     \cup [kind : {"ram"}, data : Message])
  /\ fileSize \in 0 .. MaxFile
  /\ sent \in Seq(Nat \cup Message)
  /\ owed \in Seq(Nat \cup Message)

Init ==
  /\ tasks = << >>
  /\ fileSize \in 0 .. MaxPos
  /\ sent = << >>
  /\ owed = << >>

\* The session's goroutine received a chunk.
AppendToPendings(chunk) ==
  /\ Len(owed) + Len(Units(chunk)) <= MaxOwed
  /\ tasks' = appendToPendings(tasks, chunk)
  /\ owed' = owed \o Units(chunk)
  /\ UNCHANGED <<fileSize, sent>>

\* Mutant: a chunk is served only when the archive goes on behind it.
ReadableInside(chunk) == chunk.kind = "ram" \/ chunk.start + chunk.length < fileSize

\* Can ReadAt serve the chunk?
Readable(chunk) == chunk.kind = "ram" \/ chunk.start + chunk.length <= fileSize

\* Mutant: a chunk that cannot be read yet is put back at the other end.
PutBackLast ==
  /\ tasks # << >>
  /\ IF Readable(Head(tasks))
     THEN /\ tasks' = PopFront(tasks)
          /\ sent' = sent \o Units(Head(tasks))
     ELSE /\ tasks' = Append(PopFront(tasks), Head(tasks))
          /\ UNCHANGED sent
  /\ UNCHANGED <<fileSize, owed>>

FetchAndSend ==
  /\ tasks # << >>
  /\ IF Readable(Head(tasks))
     THEN /\ tasks' = PopFront(tasks)
          /\ sent' = sent \o Units(Head(tasks))
     ELSE /\ tasks' = PushFront(PopFront(tasks), Head(tasks))
          /\ UNCHANGED sent
  /\ UNCHANGED <<fileSize, owed>>

\* The archive grows as other writes are recorded.
ArchiveGrows ==
  /\ fileSize < MaxFile
  /\ fileSize' = fileSize + 1
  /\ UNCHANGED <<tasks, sent, owed>>

Next ==
  \/ \E chunk \in InputChunk : AppendToPendings(chunk)
  \/ FetchAndSend
  \/ ArchiveGrows

Spec == Init /\ [][Next]_vars /\ WF_vars(FetchAndSend)

-----------------------------------------------------------------------------

\* Splitting, merging with the bottom chunk and putting an unreadable chunk
\* back lose, repeat and reorder nothing: what was written to the client and
\* what is still queued are, together, what was appended.
NothingLostOrReordered == owed = sent \o AllUnits(tasks)

\* "there shuold be 2048 RadioChunk instances in pending queue at most": what
\* does hold of that limit is that one append adds at most a full split and
\* its remainder, however long the chunk and whatever it is merged with.
OneAppendIsBounded ==
  [][Len(tasks') <= Len(tasks) + MAX_CHUNKS_IN_QUEUE + 1]_vars

\* A chunk at the head of the queue is written once the archive holds it: no
\* chunk waits for ever behind readable ones.
HeadIsServed ==
  \A n \in 1 .. MaxOwed :
    (Len(owed) >= n /\ fileSize = MaxFile) ~> Len(sent) >= n
=============================================================================

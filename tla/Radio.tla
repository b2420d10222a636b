------------------------------- MODULE Radio -------------------------------
(***************************************************************************)
(* pkg/Radio/Radio.go: the goroutine of run, which records what it is      *)
(* given and hands it to the clients; the helper goroutines it starts, one *)
(* per package and client; and one session (processClient) per AddClient,  *)
(* which queues chunks and writes them to its client's socket.             *)
(*                                                                         *)
(* r.locker is held across a wait in one place only, singleSend; wherever  *)
(* else it is taken the whole critical section is one action.  The         *)
(* archive's file is the log that ArchiveLog promises.                     *)
(***************************************************************************)
EXTENDS RadioChunks, SequencesExt, FiniteSets

CONSTANTS
  Client,         \* the sockets of one room
  FrameLength,    \* bytes of a DATA package; every other is one unit
  Traffic,        \* the kinds of packages the room hands over
  MaxFrames,      \* bound: packages in all
  MaxRequests,    \* bound: archive requests in all, hence sessions
  MaxPrunes,      \* bound: successful clearall requests
  Asked,          \* the datalengths that archive requests name, 0 if none
  AsksAgain,      \* may a client ask for the archive a second time?
  PeersMayStall,  \* may a peer stop reading for longer than 10 seconds?
  RoomMayClose    \* may the room be closed?

ASSUME RadioAssumption ==
  /\ IsFiniteSet(Client)
  /\ FrameLength \in Nat \ {0}
  /\ Traffic \subseteq {"write", "send", "single", "direct"}
  /\ Asked \subseteq Nat
  /\ MaxFrames \in Nat /\ MaxRequests \in Nat /\ MaxPrunes \in Nat
  /\ AsksAgain \in BOOLEAN /\ PeersMayStall \in BOOLEAN
  /\ RoomMayClose \in BOOLEAN

VARIABLES
  archive,      \* what r.file holds
  clients,      \* r.clients: the current session of each client, 0 if none
  sessions,     \* the RadioClients made so far, in the order of AddClient
  run,          \* the run goroutine: where it is and what it carries
  helpers,      \* the send_helper and write_helper goroutines
  request,      \* handleArchive, between its FileSize and its AddClient
  connected,    \* is the socket open?
  out,          \* what was written to the socket
  frames,       \* packages handed over so far
  prunes,       \* clearall requests so far
  crossed,      \* history: the packages being written during a clearall
  stage,        \* "open", then "closed" (Close), then "removed" (Remove)
  unreadable    \* how much of the archive went with the file

ending == <<stage, unreadable>>

vars == <<archive, clients, sessions, run, helpers, request, connected, out,
          frames, prunes, crossed, ending>>

SessionId == 1 .. MaxRequests

\* Part i of n of package f.
Unit == {<<f, i, n>> : f \in 1 .. MaxFrames, i \in 1 .. FrameLength, n \in 1 .. FrameLength}

DataFrame(f) == [i \in 1 .. FrameLength |-> <<f, i, FrameLength>>]
RAMFrame(f)  == RAMChunk(<<f, 1, 1>>)

Chunk == [kind : {"file"}, start : Nat, length : Nat \ {0}] \cup [kind : {"ram"}, data : Unit]

Idle == [at |-> "select"]

NoRequest == [start |-> -1, length |-> 0]

TypeOK ==
  /\ archive \in Seq(Unit)
  /\ clients \in [Client -> {0} \cup SessionId]
  /\ sessions \in Seq([client : Client, list : Seq(Chunk), buf : Seq(Unit), from : Nat,
                       at : {"select", "writing", "leaving", "ended"}, told : BOOLEAN])
  /\ run.at \in {"select", "record", "spread", "single", "stuck", "returned"}
  /\ \A h \in helpers : h.to \in DOMAIN sessions /\ h.chunk \in Chunk
  /\ request \in [Client -> [start : Int, length : Int]]
  /\ connected \in [Client -> BOOLEAN]
  /\ out \in [Client -> Seq(Unit)]
  /\ frames \in 0 .. MaxFrames
  /\ prunes \in 0 .. MaxPrunes
  /\ crossed \subseteq 1 .. MaxFrames
  /\ stage \in {"open", "closed", "removed"}
  /\ unreadable \in 0 .. Len(archive)

Init ==
  /\ archive = << >>
  /\ clients = [c \in Client |-> 0]
  /\ sessions = << >>
  /\ run = Idle
  /\ helpers = {}
  /\ request = [c \in Client |-> NoRequest]
  /\ connected = [c \in Client |-> TRUE]
  /\ out = [c \in Client |-> << >>]
  /\ frames = 0
  /\ prunes = 0
  /\ crossed = {}
  /\ stage = "open"
  /\ unreadable = 0

LockFree == run.at \notin {"single", "stuck"}

Without(c) == [clients EXCEPT ![c] = 0]     \* RemoveClient

\* The current sessions: those that send and write address.
Listed == {clients[c] : c \in Client} \ {0}

Arrives(kind) ==
  /\ kind \in Traffic
  /\ frames < MaxFrames
  /\ frames' = frames + 1

\* The run goroutine receives.  (Who sends on a closed channel panics: Room.)
HandOver(kind) ==
  /\ run.at = "select"
  /\ stage = "open"
  /\ Arrives(kind)

-----------------------------------------------------------------------------
(* run: write reads the archive's size, then writes, then takes the lock.  *)

TakeWrite ==
  /\ HandOver("write")
  /\ run' = [at |-> "record", frame |-> frames', oldPos |-> Len(archive)]
  /\ UNCHANGED <<archive, clients, sessions, helpers, request, connected, out, prunes, crossed, ending>>

Record ==
  /\ run.at = "record"
  /\ archive' = archive \o DataFrame(run.frame)
  /\ run' = [run EXCEPT !.at = "spread"]
  /\ UNCHANGED <<clients, sessions, helpers, request, connected, out, frames, prunes, crossed, ending>>

\* Mutant: the position is taken after the write.
SpreadFromEnd ==
  /\ run.at = "spread"
  /\ helpers' = helpers \cup
       {[id |-> run.frame, to |-> s, chunk |-> FileChunk(Len(archive), FrameLength)] : s \in Listed}
  /\ run' = Idle
  /\ UNCHANGED <<archive, clients, sessions, request, connected, out, frames, prunes, crossed, ending>>

Spread ==
  /\ run.at = "spread"
  /\ helpers' = helpers \cup
       {[id |-> run.frame, to |-> s, chunk |-> FileChunk(run.oldPos, FrameLength)] : s \in Listed}
  /\ run' = Idle
  /\ UNCHANGED <<archive, clients, sessions, request, connected, out, frames, prunes, crossed, ending>>

\* Mutant: the first receiver is served without a helper goroutine.
TakeSendInPlace ==
  /\ HandOver("send")
  /\ run' = IF Listed = {} THEN Idle
            ELSE [at |-> "single", frame |-> frames', to |-> CHOOSE s \in Listed : TRUE]
  /\ UNCHANGED <<archive, clients, sessions, helpers, request, connected, out, prunes, crossed, ending>>

TakeSend ==
  /\ HandOver("send")
  /\ helpers' = helpers \cup
       {[id |-> frames', to |-> s, chunk |-> RAMFrame(frames')] : s \in Listed}
  /\ UNCHANGED <<archive, clients, sessions, run, request, connected, out, prunes, crossed, ending>>

\* singleSend keeps r.locker until the session receives, or for 10 seconds.
TakeSingle(c) ==
  /\ HandOver("single")
  /\ run' = IF clients[c] = 0 THEN Idle
            ELSE [at |-> "single", frame |-> frames', to |-> clients[c]]
  /\ UNCHANGED <<archive, clients, sessions, helpers, request, connected, out, prunes, crossed, ending>>

\* A session's goroutine receives a chunk.
Receive(s, chunk) ==
  /\ sessions[s].at = "select"
  /\ sessions' = [sessions EXCEPT ![s].list = appendToPendings(@, chunk)]

\* Has nobody received from the other end for 10 seconds?
TenSeconds(s) ==
  \/ sessions[s].at = "ended"
  \/ sessions[s].at = "leaving" /\ ~LockFree
  \/ PeersMayStall /\ sessions[s].at = "writing"

SingleSent ==
  /\ run.at = "single"
  /\ Receive(run.to, RAMFrame(run.frame))
  /\ run' = Idle
  /\ UNCHANGED <<archive, clients, helpers, request, connected, out, frames, prunes, crossed, ending>>

\* RemoveClient waits for the lock that singleSend itself holds.
SingleTimesOut ==
  /\ run.at = "single"
  /\ TenSeconds(run.to)
  /\ run' = [at |-> "stuck"]
  /\ UNCHANGED <<archive, clients, sessions, helpers, request, connected, out, frames, prunes, crossed, ending>>

\* GoingClose is closed, or one of the channels of packages.
Returns ==
  /\ run.at = "select"
  /\ stage # "open"
  /\ run' = [at |-> "returned"]
  /\ UNCHANGED <<archive, clients, sessions, helpers, request, connected, out, frames, prunes, crossed, ending>>

Run ==
  \/ TakeWrite \/ Record \/ Spread \/ TakeSend
  \/ \E c \in Client : TakeSingle(c)
  \/ SingleSent \/ SingleTimesOut \/ Returns

-----------------------------------------------------------------------------
(* The helpers.                                                            *)

HelperDelivers(h) ==
  /\ Receive(h.to, h.chunk)
  /\ helpers' = helpers \ {h}
  /\ UNCHANGED <<archive, clients, run, request, connected, out, frames, prunes, crossed, ending>>

HelperTimesOut(h) ==
  /\ TenSeconds(h.to)
  /\ LockFree
  /\ clients' = Without(sessions[h.to].client)
  /\ helpers' = helpers \ {h}
  /\ UNCHANGED <<archive, sessions, run, request, connected, out, frames, prunes, crossed, ending>>

-----------------------------------------------------------------------------
(* Sessions: the rest of processClient, and fetchAndSend.                  *)

\* Mutant: a chunk is served only when the archive goes on behind it.
ReadableInside(chunk) ==
  chunk.kind = "file" =>
    unreadable <= chunk.start /\ chunk.start + chunk.length < Len(archive)

\* A write after the file is closed stays in its buffer, and can be read.
Readable(chunk) ==
  chunk.kind = "file" =>
    unreadable <= chunk.start /\ chunk.start + chunk.length <= Len(archive)

Bytes(chunk) ==
  IF chunk.kind = "ram" THEN <<chunk.data>>
  ELSE SubSeq(archive, chunk.start + 1, chunk.start + chunk.length)

\* An unreadable chunk goes back to the front of the list: nothing changes.
Fetch(s) ==
  /\ sessions[s].at = "select"
  /\ sessions[s].list # << >>
  /\ Readable(Head(sessions[s].list))
  /\ sessions' = [sessions EXCEPT ![s].at = "writing",
                                  ![s].buf = Bytes(Head(sessions[s].list)),
                                  ![s].list = PopFront(@)]
  /\ UNCHANGED <<archive, clients, run, helpers, request, connected, out, frames, prunes, crossed, ending>>

Written(s) ==
  /\ sessions[s].at = "writing"
  /\ connected[sessions[s].client]
  /\ out' = [out EXCEPT ![sessions[s].client] = @ \o sessions[s].buf]
  /\ sessions' = [sessions EXCEPT ![s].at = "select", ![s].buf = << >>]
  /\ UNCHANGED <<archive, clients, run, helpers, request, connected, frames, prunes, crossed, ending>>

\* Mutant: a session that is told sends its list first.
LeavesWhenDone(s) ==
  /\ \/ sessions[s].at = "writing" /\ ~connected[sessions[s].client]
     \/ sessions[s].at = "select" /\ sessions[s].told /\ sessions[s].list = << >>
  /\ sessions' = [sessions EXCEPT ![s].at = "leaving", ![s].buf = << >>]
  /\ UNCHANGED <<archive, clients, run, helpers, request, connected, out, frames, prunes, crossed, ending>>

\* WriteRaw failed, or the close callback was received: the session receives
\* no more, and calls RemoveClient, which may have to wait for the lock.
Leaves(s) ==
  /\ \/ sessions[s].at = "writing" /\ ~connected[sessions[s].client]
     \/ sessions[s].at = "select" /\ sessions[s].told
  /\ sessions' = [sessions EXCEPT ![s].at = "leaving", ![s].buf = << >>]
  /\ UNCHANGED <<archive, clients, run, helpers, request, connected, out, frames, prunes, crossed, ending>>

Ends(s) ==
  /\ sessions[s].at = "leaving"
  /\ LockFree
  /\ clients' = Without(sessions[s].client)
  /\ sessions' = [sessions EXCEPT ![s].at = "ended"]
  /\ UNCHANGED <<archive, run, helpers, request, connected, out, frames, prunes, crossed, ending>>

Session(s) == Fetch(s) \/ Written(s) \/ Leaves(s) \/ Ends(s)

-----------------------------------------------------------------------------
(* The room: handleArchive, handleClearAll, removeClient, direct writes.    *)

\* A client resumes behind the packages it has kept.  After a clearall or a
\* crash of the server these can be more than the archive holds.
Position == {FrameLength * k : k \in 0 .. MaxFrames}

\* handleArchive: everything from start on, or more if more was asked for.
DataLength(start, asked) ==
  LET wanted == IF asked # 0 THEN asked ELSE Len(archive) - start
  IN IF start + wanted <= Len(archive) THEN Len(archive) - start ELSE wanted

ArchiveRequest(c) ==
  /\ request[c] = NoRequest
  /\ AsksAgain \/ \A s \in DOMAIN sessions : sessions[s].client # c
  /\ Len(sessions) + Cardinality({d \in Client : request[d] # NoRequest}) < MaxRequests
  /\ \E start \in Position, asked \in Asked :
       request' = [request EXCEPT ![c] = [start |-> start, length |-> DataLength(start, asked)]]
  /\ UNCHANGED <<archive, clients, sessions, run, helpers, connected, out, frames, prunes, crossed, ending>>

\* Where the session starts, and how much it is owed at once.
StartPos(start) == IF start > Len(archive) THEN Len(archive) ELSE start

\* Mutant: the size is the one handleArchive answered with.
ChunkSizeAsAnswered(start, length) == IF length > 0 THEN length ELSE 0

ChunkSize(start, length) ==
  IF StartPos(start) + length > Len(archive) THEN length
  ELSE Len(archive) - StartPos(start)

AddClient(c) ==
  /\ request[c] # NoRequest
  /\ LockFree
  /\ LET start == StartPos(request[c].start)
         size  == ChunkSize(request[c].start, request[c].length)
     IN sessions' = Append(sessions,
          [client |-> c, at |-> "select", told |-> FALSE, buf |-> << >>, from |-> start,
           list |-> IF size = 0 THEN << >> ELSE splitChunk(FileChunk(start, size))])
  /\ clients' = [clients EXCEPT ![c] = Len(sessions')]
  /\ request' = [request EXCEPT ![c] = NoRequest]
  /\ UNCHANGED <<archive, run, helpers, connected, out, frames, prunes, crossed, ending>>

\* The room's removeClient: a kick, a silent client, a stranger's package.
\* The session is not told and goes on with its list.
RemoveClient(c) ==
  /\ clients[c] # 0
  /\ LockFree
  /\ clients' = Without(c)
  /\ UNCHANGED <<archive, sessions, run, helpers, request, connected, out, frames, prunes, crossed, ending>>

\* The sessions in r.clients get empty lists; then the file is cleared.  (Of a
\* closed file the counters are, and the panic is recovered by the router.)
Prune ==
  /\ prunes < MaxPrunes
  /\ LockFree
  /\ prunes' = prunes + 1
  /\ crossed' = IF run.at = "record" THEN crossed \cup {run.frame} ELSE crossed
  /\ archive' = << >>
  /\ sessions' = [s \in DOMAIN sessions |->
                    IF s \in Listed THEN [sessions[s] EXCEPT !.list = << >>] ELSE sessions[s]]
  /\ unreadable' = 0
  /\ UNCHANGED <<clients, run, helpers, request, connected, out, frames, stage>>

\* The room writes to the socket past the Radio, under the same writeLock.
DirectSend(c) ==
  /\ connected[c]
  /\ \A s \in DOMAIN sessions : sessions[s].client = c => sessions[s].at # "writing"
  /\ Arrives("direct")
  /\ out' = [out EXCEPT ![c] = Append(@, <<frames', 1, 1>>)]
  /\ UNCHANGED <<archive, clients, sessions, run, helpers, request, connected, prunes, crossed, ending>>

\* The connection is lost; the callbacks registered so far are called.
Disconnect(c) ==
  /\ connected[c]
  /\ connected' = [connected EXCEPT ![c] = FALSE]
  /\ sessions' = [s \in DOMAIN sessions |->
                    IF sessions[s].client = c THEN [sessions[s] EXCEPT !.told = TRUE]
                    ELSE sessions[s]]
  /\ UNCHANGED <<archive, clients, run, helpers, request, out, frames, prunes, crossed, ending>>

-----------------------------------------------------------------------------
(* The end of the room: Room.Close, and its goroutines' removeAllClient.   *)

Close ==
  /\ RoomMayClose
  /\ stage = "open"
  /\ stage' = "closed"
  /\ UNCHANGED <<archive, clients, sessions, run, helpers, request, connected, out, frames, prunes, crossed, unreadable>>

\* file.Close and file.Remove.  The sessions are not told.
RemoveFile ==
  /\ stage = "closed"
  /\ LockFree
  /\ stage' = "removed"
  /\ unreadable' = Len(archive)
  /\ UNCHANGED <<archive, clients, sessions, run, helpers, request, connected, out, frames, prunes, crossed>>

\* The file's timer had fired before it was closed: what was written since
\* goes to another file, where it is not found.
LateSync ==
  /\ stage = "removed"
  /\ unreadable' = Len(archive)
  /\ UNCHANGED <<archive, clients, sessions, run, helpers, request, connected, out, frames, prunes, crossed, stage>>

RemoveAllClients ==
  /\ stage # "open"
  /\ LockFree
  /\ clients' = [c \in Client |-> 0]
  /\ UNCHANGED <<archive, sessions, run, helpers, request, connected, out, frames, prunes, crossed, ending>>

Next ==
  \/ Run
  \/ \E h \in helpers : HelperDelivers(h) \/ HelperTimesOut(h)
  \/ \E s \in DOMAIN sessions : Session(s)
  \/ \E c \in Client : \/ ArchiveRequest(c) \/ AddClient(c) \/ RemoveClient(c)
                      \/ DirectSend(c) \/ Disconnect(c)
  \/ Prune
  \/ Close \/ RemoveFile \/ LateSync \/ RemoveAllClients

Spec == Init /\ [][Next]_vars

\* The Go runtime runs every goroutine that is not blocked, and a peer that
\* does not stall reads on; requests, packages and failures owe nothing.
FairSpec ==
  /\ Spec
  /\ WF_vars(Record) /\ WF_vars(Spread) /\ WF_vars(SingleSent \/ SingleTimesOut)
  /\ WF_vars(Returns)
  /\ \A s \in SessionId :
       /\ WF_vars(s \in DOMAIN sessions /\ Session(s))
       /\ WF_vars(\E h \in helpers : h.to = s /\ (HelperDelivers(h) \/ HelperTimesOut(h)))

-----------------------------------------------------------------------------
(* Properties.                                                             *)

Covers(chunk, p) == chunk.kind = "file" /\ chunk.start < p /\ p <= chunk.start + chunk.length

\* Is byte p of the archive on its way to session s, or already there?
OnItsWay(s, p) ==
  \/ archive[p] \in ToSet(out[sessions[s].client])
  \/ archive[p] \in ToSet(sessions[s].buf)
  \/ \E i \in DOMAIN sessions[s].list : Covers(sessions[s].list[i], p)
  \/ \E h \in helpers : h.to = s /\ Covers(h.chunk, p)
  \/ run.at = "spread" /\ p > run.oldPos

\* The bytes that client c, if it is subscribed, must not miss.
Owed(c) ==
  LET s == clients[c] IN
    IF s # 0 /\ sessions[s].at \in {"select", "writing"}
    THEN sessions[s].from + 1 .. Len(archive) ELSE {}

\* Whatever the order in which the run goroutine, the helpers, AddClient,
\* clearall and lost connections come, no byte recorded after a client's
\* starting point is ever forgotten on its way to it, but for the one package
\* that a clearall can find between reading its position and being written.
NothingForgotten ==
  \A c \in Client : \A p \in Owed(c) : OnItsWay(clients[c], p) \/ archive[p][1] \in crossed

\* "once request success, clients will receive new data as well."
NewDataIsReceived ==
  \A c \in Client : \A p \in Owed(c) : OnItsWay(clients[c], p)

\* "each block of data will be prepended a 4 bytes, size header": a client can
\* only find the next block where the last one ends, so no other bytes may
\* come between two bytes of a package.
FramesIntact ==
  \A c \in Client :
    /\ out[c] # << >> => out[c][1][2] = 1
    /\ \A k \in 1 .. Len(out[c]) - 1 :
         LET u == out[c][k] IN
           out[c][k + 1][2] = (IF u[2] = u[3] THEN 1 ELSE u[2] + 1)
           /\ (u[2] # u[3] => out[c][k + 1][1] = u[1])

\* "Write expected Buffer that send to every Client and record data": what is
\* recorded while a client is subscribed is in the end written to its socket,
\* unless it loses its subscription or its connection first, or the room ends.
RecordedIsSent ==
  \A c \in Client, f \in 1 .. MaxFrames :
    (/\ clients[c] # 0
     /\ \E p \in DOMAIN archive : archive[p] = <<f, FrameLength, FrameLength>>
                                  /\ p > sessions[clients[c]].from)
      ~> (<<f, FrameLength, FrameLength>> \in ToSet(out[c]) \/ clients[c] = 0 \/ ~connected[c] \/ stage # "open")

\* The run goroutine always comes back for the next package, and returns when
\* the room is closed, whatever it was doing then.
RadioKeepsServing ==
  /\ []<>(run.at \in {"select", "returned"})
  /\ stage # "open" ~> run.at = "returned"

Told(s) == s \in DOMAIN sessions /\ sessions[s].told

Over(s) ==
  /\ s \in DOMAIN sessions /\ sessions[s].at = "ended"
  /\ \A h \in helpers : h.to # s

\* A session that is told of the end of its connection ends, and every helper
\* with it: also when the room has gone under it, with a list that nothing can
\* ever be read for.
SessionsEnd ==
  \A s \in SessionId : Told(s) ~> Over(s)
=============================================================================

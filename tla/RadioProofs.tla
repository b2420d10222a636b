----------------------------- MODULE RadioProofs -----------------------------
(***************************************************************************)
(* Proofs about the Radio, for any clients, traffic, bounds and sizes.     *)
(***************************************************************************)
EXTENDS Radio, RadioChunksProofs, FiniteSetTheorems

-----------------------------------------------------------------------------
(* Types.                                                                  *)

SessionRecord ==
  [client : Client, list : Seq(Chunk), buf : Seq(Unit), from : Nat,
   at : {"select", "writing", "leaving", "ended"}, told : BOOLEAN]

RunState ==
  [at : {"select", "stuck", "returned"}]
    \cup [at : {"record", "spread"}, frame : 1 .. MaxFrames, oldPos : Nat]
    \cup [at : {"single"}, frame : 1 .. MaxFrames, to : Nat]

HelperRecord == [id : 1 .. MaxFrames, to : Nat, chunk : Chunk]

Pending == {c \in Client : request[c] # NoRequest}

FileTyped == archive \in Seq(Unit) /\ unreadable \in 0 .. Len(archive)

SessionsTyped == sessions \in Seq(SessionRecord)

\* A subscription is to a session of that client.
ClientsTyped ==
  /\ clients \in [Client -> {0} \cup SessionId]
  /\ \A c \in Client : clients[c] # 0 => /\ clients[c] \in 1 .. Len(sessions)
                                         /\ sessions[clients[c]].client = c

RunTyped == run \in RunState /\ (run.at = "single" => run.to \in 1 .. Len(sessions))

HelpersTyped == \A h \in helpers : h \in HelperRecord /\ h.to \in 1 .. Len(sessions)

\* There is room for the sessions of the requests under way.
RequestsTyped ==
  /\ request \in [Client -> [start : Int, length : Int]]
  /\ \A c \in Client : request[c] = NoRequest \/ request[c].start \in Nat
  /\ Len(sessions) + Cardinality(Pending) <= MaxRequests

PeersTyped == connected \in [Client -> BOOLEAN] /\ out \in [Client -> Seq(Unit)]

CountersTyped ==
  /\ frames \in 0 .. MaxFrames
  /\ prunes \in 0 .. MaxPrunes
  /\ crossed \subseteq 1 .. MaxFrames
  /\ stage \in {"open", "closed", "removed"}

TypeInv ==
  /\ FileTyped /\ SessionsTyped /\ ClientsTyped /\ RunTyped
  /\ HelpersTyped /\ RequestsTyped /\ PeersTyped /\ CountersTyped

LEMMA ChunkIsChunksOf == Chunk = ChunksOf(Unit)
BY DEF Chunk, ChunksOf, FileChunks, RAMChunks

LEMMA TypeInvImpliesTypeOK == TypeInv => TypeOK
<1> SUFFICES ASSUME TypeInv PROVE TypeOK
  OBVIOUS
<1>1. DOMAIN sessions = 1 .. Len(sessions)
  BY LenProperties DEF TypeInv, SessionsTyped
<1>2. run.at \in {"select", "record", "spread", "single", "stuck", "returned"}
  BY DEF TypeInv, RunTyped, RunState
<1>3. \A h \in helpers : h.to \in DOMAIN sessions /\ h.chunk \in Chunk
  BY <1>1 DEF TypeInv, HelpersTyped, HelperRecord
<1>4. sessions \in Seq([client : Client, list : Seq(Chunk), buf : Seq(Unit), from : Nat,
                        at : {"select", "writing", "leaving", "ended"}, told : BOOLEAN])
  BY DEF TypeInv, SessionsTyped, SessionRecord
<1> QED BY <1>2, <1>3, <1>4
        DEF TypeInv, FileTyped, ClientsTyped, RequestsTyped, PeersTyped, CountersTyped, TypeOK

LEMMA InitIsTyped == Init => TypeInv
<1> SUFFICES ASSUME Init PROVE TypeInv
  OBVIOUS
<1>1. FileTyped /\ SessionsTyped
  BY EmptySeq DEF Init, ending, FileTyped, SessionsTyped
<1>2. ClientsTyped
  BY DEF Init, ClientsTyped
<1>3. RunTyped /\ HelpersTyped
  BY DEF Init, Idle, RunTyped, HelpersTyped, RunState
<1>4. RequestsTyped
  <2>1. Pending = {}
    BY DEF Init, Pending
  <2>2. Len(sessions) = 0 /\ Cardinality(Pending) = 0
    BY <2>1, FS_EmptySet DEF Init
  <2>3. NoRequest \in [start : Int, length : Int]
    BY DEF NoRequest
  <2> QED BY <2>2, <2>3, RadioAssumption DEF Init, RequestsTyped
<1>5. PeersTyped /\ CountersTyped
  BY EmptySeq, RadioAssumption DEF Init, PeersTyped, CountersTyped
<1> QED BY <1>1, <1>2, <1>3, <1>4, <1>5 DEF TypeInv

-----------------------------------------------------------------------------
(* Steps keep the types: first the sessions, on whose number the others    *)
(* depend.                                                                 *)

\* Sessions stay those they were: each of its client, from where it started.
SessionsKept ==
  /\ sessions' \in Seq(SessionRecord)
  /\ Len(sessions) <= Len(sessions')
  /\ \A s \in 1 .. Len(sessions) : sessions'[s].client = sessions[s].client

\* A session is replaced by one of the same client.
LEMMA OneChanged ==
  ASSUME SessionsTyped, NEW s \in 1 .. Len(sessions), NEW r \in SessionRecord,
         r.client = sessions[s].client, sessions' = [sessions EXCEPT ![s] = r]
  PROVE  /\ SessionsKept /\ Len(sessions') = Len(sessions)
         /\ \A t \in 1 .. Len(sessions) : sessions'[t] = IF t = s THEN r ELSE sessions[t]
<1>1. /\ [sessions EXCEPT ![s] = r] \in Seq(SessionRecord)
      /\ Len([sessions EXCEPT ![s] = r]) = Len(sessions)
      /\ \A t \in 1 .. Len(sessions) :
           [sessions EXCEPT ![s] = r][t] = IF t = s THEN r ELSE sessions[t]
  BY ExceptSeq DEF SessionsTyped
<1>2. Len(sessions) \in Nat
  BY LenProperties DEF SessionsTyped
<1> QED BY <1>1, <1>2 DEF SessionsKept

LEMMA SessionFields ==
  ASSUME SessionsTyped, NEW s \in 1 .. Len(sessions)
  PROVE  /\ sessions[s] \in SessionRecord
         /\ sessions[s].client \in Client /\ sessions[s].list \in Seq(Chunk)
         /\ sessions[s].buf \in Seq(Unit) /\ sessions[s].from \in Nat
         /\ sessions[s].at \in {"select", "writing", "leaving", "ended"}
         /\ sessions[s].told \in BOOLEAN
<1>1. sessions[s] \in SessionRecord
  BY ElementOfSeq DEF SessionsTyped
<1> QED BY <1>1 DEF SessionRecord

LEMMA ReceiveKeeps ==
  ASSUME SessionsTyped, NEW s \in 1 .. Len(sessions), NEW chunk \in Chunk, Receive(s, chunk)
  PROVE  /\ SessionsKept /\ Len(sessions') = Len(sessions)
         /\ \A t \in 1 .. Len(sessions) : sessions'[t] =
              IF t = s THEN [sessions[s] EXCEPT !.list = appendToPendings(sessions[s].list, chunk)]
              ELSE sessions[t]
<1>1. PICK r : r = [sessions[s] EXCEPT !.list = appendToPendings(sessions[s].list, chunk)]
  OBVIOUS
<1>2. appendToPendings(sessions[s].list, chunk) \in Seq(Chunk)
  BY SessionFields, AppendType, ChunkIsChunksOf
<1>3. r \in SessionRecord /\ r.client = sessions[s].client
  BY <1>1, <1>2, SessionFields DEF SessionRecord
<1>4. sessions' = [sessions EXCEPT ![s] = r]
  BY <1>1 DEF Receive
<1> QED BY <1>1, <1>3, <1>4, OneChanged

LEMMA BytesTyped ==
  ASSUME FileTyped, NEW chunk \in Chunk, Readable(chunk)
  PROVE  /\ Bytes(chunk) \in Seq(Unit)
         /\ \A p \in 1 .. Len(archive) : Covers(chunk, p) =>
              \E i \in 1 .. Len(Bytes(chunk)) : Bytes(chunk)[i] = archive[p]
<1>0. Len(archive) \in Nat /\ \A p \in 1 .. Len(archive) : archive[p] \in Unit
  BY LenProperties, ElementOfSeq DEF FileTyped
<1>1. CASE chunk.kind = "ram"
  <2>1. Bytes(chunk) = <<chunk.data>> /\ chunk.data \in Unit
    BY <1>1 DEF Bytes, Chunk
  <2> QED BY <1>1, <2>1 DEF Covers
<1>2. CASE chunk.kind = "file"
  <2>1. PICK m \in Nat, n \in Nat : m = chunk.start /\ n = chunk.length
    BY <1>2 DEF Chunk
  <2>2. m + n <= Len(archive) /\ Bytes(chunk) = SubSeq(archive, m + 1, m + n)
    BY <1>2, <2>1 DEF Readable, Bytes
  <2>3. \A i \in m + 1 .. m + n : archive[i] \in Unit
    BY <1>0, <2>2
  <2>4. PICK a \in Int, b \in Int : a = m + 1 /\ b = m + n
    OBVIOUS
  <2>5. /\ SubSeq(archive, a, b) \in Seq(Unit)
        /\ Len(SubSeq(archive, a, b)) = IF a <= b THEN b - a + 1 ELSE 0
        /\ \A i \in 1 .. b - a + 1 : SubSeq(archive, a, b)[i] = archive[a + i - 1]
    BY <2>3, <2>4, SubSeqProperties
  <2>6. ASSUME NEW p \in 1 .. Len(archive), Covers(chunk, p)
        PROVE  \E i \in 1 .. Len(Bytes(chunk)) : Bytes(chunk)[i] = archive[p]
    <3>1. p \in m + 1 .. m + n
      BY <2>1, <2>6 DEF Covers
    <3>2. p - m \in 1 .. b - a + 1 /\ a + (p - m) - 1 = p /\ Len(Bytes(chunk)) = b - a + 1
      BY <2>2, <2>4, <2>5, <3>1
    <3>3. Bytes(chunk)[p - m] = archive[p]
      BY <2>2, <2>4, <2>5, <3>2
    <3> QED BY <3>2, <3>3
  <2> QED BY <2>2, <2>4, <2>5, <2>6
<1> QED BY <1>1, <1>2 DEF Chunk

\* What the steps of one session make of it.
FetchedFrom(s) ==
  [sessions[s] EXCEPT !.at = "writing", !.buf = Bytes(Head(sessions[s].list)),
                      !.list = Tail(sessions[s].list)]
WrittenBy(s) == [sessions[s] EXCEPT !.at = "select", !.buf = << >>]
LeavingOf(s) == [sessions[s] EXCEPT !.at = "leaving", !.buf = << >>]
EndedOf(s)   == [sessions[s] EXCEPT !.at = "ended"]

LEMMA SessionKeeps ==
  ASSUME FileTyped, SessionsTyped, NEW s \in 1 .. Len(sessions), NEW r,
         \/ Fetch(s) /\ r = FetchedFrom(s)
         \/ Written(s) /\ r = WrittenBy(s)
         \/ Leaves(s) /\ r = LeavingOf(s)
         \/ Ends(s) /\ r = EndedOf(s)
  PROVE  /\ SessionsKept /\ Len(sessions') = Len(sessions) /\ r \in SessionRecord
         /\ r.client = sessions[s].client
         /\ \A t \in 1 .. Len(sessions) : sessions'[t] = IF t = s THEN r ELSE sessions[t]
<1> DEFINE Out == r \in SessionRecord /\ r.client = sessions[s].client
                    /\ sessions' = [sessions EXCEPT ![s] = r]
<1>1. ASSUME Fetch(s) /\ r = FetchedFrom(s) PROVE Out
  <2>1. /\ sessions[s].list \in Seq(Chunk) /\ sessions[s].list # << >>
        /\ Readable(Head(sessions[s].list))
    BY <1>1, SessionFields DEF Fetch
  <2>2. Head(sessions[s].list) \in Chunk /\ Tail(sessions[s].list) \in Seq(Chunk)
    BY <2>1, HeadTailProperties
  <2>3. Bytes(Head(sessions[s].list)) \in Seq(Unit)
    BY <2>1, <2>2, BytesTyped
  <2>4. r \in SessionRecord /\ r.client = sessions[s].client
    BY <1>1, <2>2, <2>3, SessionFields DEF FetchedFrom, SessionRecord
  <2>5. sessions' = [sessions EXCEPT ![s] = r]
    BY <1>1 DEF Fetch, FetchedFrom, PopFront
  <2> QED BY <2>4, <2>5
<1>2. ASSUME Written(s) /\ r = WrittenBy(s) PROVE Out
  <2>1. r \in SessionRecord /\ r.client = sessions[s].client
    BY <1>2, SessionFields, EmptySeq DEF WrittenBy, SessionRecord
  <2>2. sessions' = [sessions EXCEPT ![s] = r]
    BY <1>2 DEF Written, WrittenBy
  <2> QED BY <2>1, <2>2
<1>3. ASSUME Leaves(s) /\ r = LeavingOf(s) PROVE Out
  <2>1. r \in SessionRecord /\ r.client = sessions[s].client
    BY <1>3, SessionFields, EmptySeq DEF LeavingOf, SessionRecord
  <2>2. sessions' = [sessions EXCEPT ![s] = r]
    BY <1>3 DEF Leaves, LeavingOf
  <2> QED BY <2>1, <2>2
<1>4. ASSUME Ends(s) /\ r = EndedOf(s) PROVE Out
  <2>1. r \in SessionRecord /\ r.client = sessions[s].client
    BY <1>4, SessionFields DEF EndedOf, SessionRecord
  <2>2. sessions' = [sessions EXCEPT ![s] = r]
    BY <1>4 DEF Ends, EndedOf
  <2> QED BY <2>1, <2>2
<1>5. Out
  BY <1>1, <1>2, <1>3, <1>4
<1> QED BY <1>5, OneChanged

\* A clearall and a lost connection change sessions, but not whose they are.
LEMMA AllChanged ==
  ASSUME SessionsTyped, Prune \/ \E c \in Client : Disconnect(c)
  PROVE  /\ SessionsKept /\ Len(sessions') = Len(sessions)
         /\ \A t \in 1 .. Len(sessions) :
              /\ sessions'[t].at = sessions[t].at /\ sessions'[t].buf = sessions[t].buf
              /\ sessions'[t].from = sessions[t].from
              /\ (\E c \in Client : Disconnect(c)) => sessions'[t].list = sessions[t].list
<1>1. PICK n \in Nat : n = Len(sessions) /\ DOMAIN sessions = 1 .. n
  BY LenProperties DEF SessionsTyped
<1>2. PICK t : t = sessions'
  OBVIOUS
<1>3. \A s \in 1 .. n : /\ sessions[s] \in SessionRecord
                        /\ [sessions[s] EXCEPT !.list = << >>] \in SessionRecord
                        /\ [sessions[s] EXCEPT !.told = TRUE] \in SessionRecord
  BY <1>1, SessionFields, EmptySeq DEF SessionRecord
<1>4. /\ t = [s \in 1 .. n |-> t[s]]
      /\ \A s \in 1 .. n : \/ t[s] = sessions[s]
                           \/ t[s] = [sessions[s] EXCEPT !.list = << >>]
                           \/ t[s] = [sessions[s] EXCEPT !.told = TRUE]
      /\ (\E c \in Client : Disconnect(c)) =>
           \A s \in 1 .. n : t[s] = sessions[s] \/ t[s] = [sessions[s] EXCEPT !.told = TRUE]
  <2>1. ASSUME \E c \in Client : Disconnect(c)
        PROVE  /\ t = [s \in 1 .. n |-> t[s]]
               /\ \A s \in 1 .. n : t[s] = sessions[s] \/ t[s] = [sessions[s] EXCEPT !.told = TRUE]
    BY <1>1, <1>2, <2>1 DEF Disconnect
  <2>2. CASE Prune
    <3>1. /\ t = [s \in 1 .. n |-> t[s]]
          /\ \A s \in 1 .. n : t[s] = sessions[s] \/ t[s] = [sessions[s] EXCEPT !.list = << >>]
      BY <1>1, <1>2, <2>2 DEF Prune
    <3> QED BY <2>1, <3>1
  <2> QED BY <2>1, <2>2
<1>5. \A s \in 1 .. n : t[s] \in SessionRecord
  BY <1>3, <1>4
<1>6. t \in Seq(SessionRecord) /\ Len(t) = n
  BY <1>4, <1>5, IsASeq
<1>7. \A s \in 1 .. n : /\ t[s].client = sessions[s].client
                        /\ t[s].at = sessions[s].at /\ t[s].buf = sessions[s].buf
                        /\ t[s].from = sessions[s].from
                        /\ (\E c \in Client : Disconnect(c)) => t[s].list = sessions[s].list
  <2> SUFFICES ASSUME NEW s \in 1 .. n
               PROVE  /\ t[s].client = sessions[s].client
                      /\ t[s].at = sessions[s].at /\ t[s].buf = sessions[s].buf
                      /\ t[s].from = sessions[s].from
                      /\ (\E c \in Client : Disconnect(c)) => t[s].list = sessions[s].list
    OBVIOUS
  <2>1. PICK r \in SessionRecord : r = sessions[s]
    BY <1>3
  <2> QED BY <1>4, <2>1 DEF SessionRecord
<1> QED BY <1>1, <1>2, <1>6, <1>7 DEF SessionsKept

\* AddClient makes a session more.
NewSession(c) ==
  LET start == StartPos(request[c].start)
      size  == ChunkSize(request[c].start, request[c].length)
  IN [client |-> c, at |-> "select", told |-> FALSE, buf |-> << >>, from |-> start,
      list |-> IF size = 0 THEN << >> ELSE splitChunk(FileChunk(start, size))]

\* It is owed all that the archive holds from its start, and perhaps more.
LEMMA NewList ==
  ASSUME FileTyped, RequestsTyped, NEW c \in Client, request[c] # NoRequest
  PROVE  /\ NewSession(c) \in SessionRecord
         /\ NewSession(c).from \in 0 .. Len(archive)
         /\ \E to \in Nat : /\ Len(archive) <= to
                            /\ Follows(NewSession(c).list, NewSession(c).from, to)
<1>1. PICK n \in Nat, first \in Nat, length \in Int :
        n = Len(archive) /\ first = request[c].start /\ length = request[c].length
  BY LenProperties DEF FileTyped, RequestsTyped
<1>2. PICK start \in Nat : start = StartPos(request[c].start) /\ start <= n
  BY <1>1 DEF StartPos
<1>3. PICK size \in Nat : size = ChunkSize(request[c].start, request[c].length) /\ n <= start + size
  BY <1>1, <1>2 DEF ChunkSize
<1>4. PICK list : list = IF size = 0 THEN << >> ELSE splitChunk(FileChunk(start, size))
  OBVIOUS
<1>5. Follows(list, start, start + size)
  <2>1. CASE size = 0
    BY <1>4, <2>1, EmptySeq DEF Follows
  <2>2. CASE size # 0
    BY <1>4, <2>2, SplitFollows
  <2> QED BY <2>1, <2>2
<1>6. list \in Seq(Chunk)
  <2>1. list \in Seq(FileChunks)
    BY <1>5 DEF Follows
  <2>2. Len(list) \in Nat /\ list = [i \in 1 .. Len(list) |-> list[i]]
    BY <2>1, LenProperties
  <2>3. \A i \in 1 .. Len(list) : list[i] \in Chunk
    BY <2>1, ElementOfSeq, ChunkIsChunksOf DEF ChunksOf
  <2> QED BY <2>2, <2>3, IsASeq
<1>7. NewSession(c) = [client |-> c, at |-> "select", told |-> FALSE, buf |-> << >>,
                       from |-> start, list |-> list]
  BY <1>2, <1>3, <1>4 DEF NewSession
<1>8. << >> \in Seq(Unit)
  BY EmptySeq
<1> QED BY <1>1, <1>2, <1>3, <1>5, <1>6, <1>7, <1>8 DEF SessionRecord

LEMMA AddKeeps ==
  ASSUME FileTyped, SessionsTyped, RequestsTyped, NEW c \in Client, AddClient(c)
  PROVE  /\ SessionsKept /\ Len(sessions') = Len(sessions) + 1
         /\ \A t \in 1 .. Len(sessions) : sessions'[t] = sessions[t]
         /\ sessions'[Len(sessions) + 1] = NewSession(c)
<1>1. sessions' = Append(sessions, NewSession(c)) /\ request[c] # NoRequest
  BY DEF AddClient, NewSession
<1>2. NewSession(c) \in SessionRecord
  BY <1>1, NewList
<1>3. /\ Append(sessions, NewSession(c)) \in Seq(SessionRecord)
      /\ Len(Append(sessions, NewSession(c))) = Len(sessions) + 1
      /\ \A t \in 1 .. Len(sessions) : Append(sessions, NewSession(c))[t] = sessions[t]
      /\ Append(sessions, NewSession(c))[Len(sessions) + 1] = NewSession(c)
  BY <1>2, AppendProperties DEF SessionsTyped
<1>4. Len(sessions) \in Nat
  BY LenProperties DEF SessionsTyped
<1> QED BY <1>1, <1>3, <1>4 DEF SessionsKept

\* What a step that leaves a variable alone, or only takes from it, keeps.
LEMMA SessionsSame ==
  ASSUME SessionsTyped, sessions' = sessions
  PROVE  SessionsKept /\ Len(sessions') = Len(sessions)
<1>1. Len(sessions) \in Nat
  BY LenProperties DEF SessionsTyped
<1> QED BY <1>1 DEF SessionsKept, SessionsTyped

LEMMA Carried ==
  ASSUME TypeInv, SessionsKept
  PROVE  /\ SessionsTyped'
         /\ clients' = clients \/ (\E c : clients' = Without(c)) => ClientsTyped'
         /\ run' \in RunState /\ (run'.at = "single" => run' = run) => RunTyped'
         /\ helpers' \subseteq helpers => HelpersTyped'
         /\ request' = request /\ Len(sessions') = Len(sessions) => RequestsTyped'
         /\ archive' = archive /\ unreadable' = unreadable => FileTyped'
         /\ connected' = connected /\ out' = out => PeersTyped'
<1>1. Len(sessions) \in Nat /\ Len(sessions') \in Nat /\ Len(sessions) <= Len(sessions')
  BY LenProperties DEF TypeInv, SessionsTyped, SessionsKept
<1>2. \A s \in 1 .. Len(sessions) : s \in 1 .. Len(sessions')
                                    /\ sessions'[s].client = sessions[s].client
  BY <1>1 DEF SessionsKept
<1>3. ASSUME clients' = clients \/ \E c : clients' = Without(c) PROVE ClientsTyped'
  <2>1. clients \in [Client -> {0} \cup SessionId]
    BY DEF TypeInv, ClientsTyped
  <2>2. clients' \in [Client -> {0} \cup SessionId]
        /\ \A c \in Client : clients'[c] = 0 \/ clients'[c] = clients[c]
    BY <1>3, <2>1 DEF Without
  <2>3. \A c \in Client : clients[c] # 0 => /\ clients[c] \in 1 .. Len(sessions)
                                            /\ sessions[clients[c]].client = c
    BY DEF TypeInv, ClientsTyped
  <2>4. ASSUME NEW c \in Client, clients'[c] # 0
        PROVE  clients'[c] \in 1 .. Len(sessions') /\ sessions'[clients'[c]].client = c
    BY <1>2, <2>2, <2>3, <2>4
  <2> QED BY <2>2, <2>4 DEF ClientsTyped, SessionId
<1>4. ASSUME run' \in RunState, run'.at = "single" => run' = run PROVE RunTyped'
  <2>1. run'.at = "single" => run'.to \in 1 .. Len(sessions')
    BY <1>2, <1>4 DEF TypeInv, RunTyped
  <2> QED BY <1>4, <2>1 DEF RunTyped, RunState
<1>5. ASSUME helpers' \subseteq helpers PROVE HelpersTyped'
  <2>1. \A h \in helpers' : h \in HelperRecord /\ h.to \in 1 .. Len(sessions')
    BY <1>2, <1>5 DEF TypeInv, HelpersTyped
  <2> QED BY <2>1 DEF HelpersTyped, HelperRecord, Chunk, Unit
<1>6. ASSUME request' = request, Len(sessions') = Len(sessions) PROVE RequestsTyped'
  <2>1. Pending' = Pending
    BY <1>6 DEF Pending
  <2> QED BY <1>6, <2>1 DEF TypeInv, RequestsTyped, NoRequest
<1>7. ASSUME archive' = archive, unreadable' = unreadable PROVE FileTyped'
  BY <1>7 DEF TypeInv, FileTyped, Unit
<1>8. ASSUME connected' = connected, out' = out PROVE PeersTyped'
  BY <1>8 DEF TypeInv, PeersTyped, Unit
<1>9. SessionsTyped'
  BY DEF SessionsKept, SessionsTyped, SessionRecord, Chunk, Unit
<1> QED BY <1>3, <1>4, <1>5, <1>6, <1>7, <1>8, <1>9

LEMMA CountersSame ==
  ASSUME TypeInv, frames' = frames, prunes' = prunes, crossed' = crossed, stage' = stage
  PROVE  CountersTyped'
BY DEF TypeInv, CountersTyped

\* A package arrives.
LEMMA CountersArrive ==
  ASSUME TypeInv, NEW kind, Arrives(kind), prunes' = prunes, crossed' = crossed, stage' = stage
  PROVE  CountersTyped' /\ frames' \in 1 .. MaxFrames
BY RadioAssumption DEF TypeInv, CountersTyped, Arrives

\* The sessions in r.clients are sessions.
LEMMA ListedTyped ==
  ASSUME TypeInv
  PROVE  \A s \in Listed : s \in 1 .. Len(sessions) /\ s \in Nat
<1>1. Len(sessions) \in Nat
  BY LenProperties DEF TypeInv, SessionsTyped
<1> QED BY <1>1 DEF TypeInv, ClientsTyped, Listed

\* Helpers for the listed sessions.
LEMMA HelpersAdded ==
  ASSUME TypeInv, sessions' = sessions, NEW id \in 1 .. MaxFrames, NEW chunk \in Chunk,
         helpers' = helpers \cup {[id |-> id, to |-> s, chunk |-> chunk] : s \in Listed}
  PROVE  HelpersTyped'
<1>1. ASSUME NEW h \in helpers' PROVE h \in HelperRecord /\ h.to \in 1 .. Len(sessions)
  <2>1. CASE h \in helpers
    BY <2>1 DEF TypeInv, HelpersTyped
  <2>2. CASE \E s \in Listed : h = [id |-> id, to |-> s, chunk |-> chunk]
    BY <2>2, ListedTyped DEF HelperRecord
  <2> QED BY <2>1, <2>2
<1> QED BY <1>1 DEF HelpersTyped, HelperRecord, Chunk, Unit

\* The run goroutine.
LEMMA FrameTyped ==
  ASSUME NEW f \in 1 .. MaxFrames
  PROVE  RAMFrame(f) \in Chunk /\ DataFrame(f) \in Seq(Unit) /\ Len(DataFrame(f)) = FrameLength
<1>1. 1 \in 1 .. FrameLength /\ FrameLength \in 1 .. FrameLength /\ FrameLength \in Nat
  BY RadioAssumption
<1>2. RAMFrame(f) \in Chunk
  BY <1>1 DEF RAMFrame, RAMChunk, Chunk, Unit
<1>3. \A i \in 1 .. FrameLength : <<f, i, FrameLength>> \in Unit
  BY <1>1 DEF Unit
<1>4. [i \in 1 .. FrameLength |-> <<f, i, FrameLength>>] \in Seq(Unit)
      /\ Len([i \in 1 .. FrameLength |-> <<f, i, FrameLength>>]) = FrameLength
  <2>1. PICK g : g = [i \in 1 .. FrameLength |-> <<f, i, FrameLength>>]
    OBVIOUS
  <2>2. g = [i \in 1 .. FrameLength |-> g[i]] /\ \A i \in 1 .. FrameLength : g[i] \in Unit
    BY <1>3, <2>1
  <2>3. g \in Seq(Unit) /\ Len(g) = FrameLength
    BY <1>1, <2>2, IsASeq
  <2> QED BY <2>1, <2>3
<1> QED BY <1>2, <1>4 DEF DataFrame

LEMMA RunFields ==
  ASSUME TypeInv
  PROVE  /\ run.at \in {"record", "spread"} => run.frame \in 1 .. MaxFrames /\ run.oldPos \in Nat
         /\ run.at = "single" => run.frame \in 1 .. MaxFrames /\ run.to \in 1 .. Len(sessions)
BY DEF TypeInv, RunTyped, RunState

LEMMA RunStepIsTyped == TypeInv /\ Run => TypeInv' /\ SessionsKept
<1> SUFFICES ASSUME TypeInv, Run PROVE TypeInv' /\ SessionsKept
  OBVIOUS
<1>0. /\ FileTyped /\ SessionsTyped /\ ClientsTyped /\ RunTyped
      /\ HelpersTyped /\ RequestsTyped /\ PeersTyped /\ CountersTyped
  BY DEF TypeInv
<1>i. Idle \in RunState /\ Idle.at = "select"
  BY DEF Idle, RunState
<1>1. CASE TakeWrite
  <2>1. SessionsKept /\ Len(sessions') = Len(sessions)
    BY <1>0, <1>1, SessionsSame DEF TakeWrite
  <2>2. CountersTyped' /\ frames' \in 1 .. MaxFrames
    BY <1>1, CountersArrive DEF TakeWrite, HandOver, ending
  <2>3. Len(archive) \in Nat
    BY <1>0, LenProperties DEF FileTyped
  <2>4. run' \in RunState /\ run'.at # "single"
    BY <1>1, <2>2, <2>3 DEF TakeWrite, RunState
  <2> QED BY <1>1, <2>1, <2>2, <2>4, Carried DEF TakeWrite, ending, TypeInv
<1>2. CASE Record
  <2>1. SessionsKept /\ Len(sessions') = Len(sessions)
    BY <1>0, <1>2, SessionsSame DEF Record
  <2>2. run.frame \in 1 .. MaxFrames /\ run.oldPos \in Nat
    BY <1>2, RunFields DEF Record
  <2>3. run' \in RunState /\ run'.at # "single"
    BY <1>0, <1>2, <2>2 DEF Record, RunState, RunTyped
  <2>4. FileTyped'
    <3>1. /\ archive' \in Seq(Unit) /\ Len(archive') = Len(archive) + FrameLength
          /\ unreadable' = unreadable /\ Len(archive) \in Nat
      BY <1>0, <1>2, <2>2, FrameTyped, ConcatProperties, LenProperties DEF Record, FileTyped, ending
    <3> QED BY <1>0, <3>1, RadioAssumption DEF FileTyped, Unit
  <2>5. CountersTyped'
    BY <1>2, CountersSame DEF Record, ending
  <2> QED BY <1>2, <2>1, <2>3, <2>4, <2>5, Carried DEF Record, ending, TypeInv
<1>3. CASE Spread
  <2>1. SessionsKept /\ Len(sessions') = Len(sessions)
    BY <1>0, <1>3, SessionsSame DEF Spread
  <2>2. run.frame \in 1 .. MaxFrames /\ FileChunk(run.oldPos, FrameLength) \in Chunk
    BY <1>3, RunFields, RadioAssumption DEF Spread, FileChunk, Chunk
  <2>3. HelpersTyped'
    BY <1>3, <2>2, HelpersAdded DEF Spread
  <2>4. CountersTyped'
    BY <1>3, CountersSame DEF Spread, ending
  <2> QED BY <1>3, <1>i, <2>1, <2>3, <2>4, Carried DEF Spread, ending, TypeInv
<1>4. CASE TakeSend
  <2>1. SessionsKept /\ Len(sessions') = Len(sessions)
    BY <1>0, <1>4, SessionsSame DEF TakeSend
  <2>2. CountersTyped' /\ frames' \in 1 .. MaxFrames
    BY <1>4, CountersArrive DEF TakeSend, HandOver, ending
  <2>3. HelpersTyped'
    BY <1>4, <2>2, FrameTyped, HelpersAdded DEF TakeSend
  <2> QED BY <1>0, <1>4, <2>1, <2>2, <2>3, Carried DEF TakeSend, ending, TypeInv, RunTyped
<1>5. CASE \E c \in Client : TakeSingle(c)
  <2>0. PICK c \in Client : TakeSingle(c)
    BY <1>5
  <2>1. SessionsKept /\ Len(sessions') = Len(sessions)
    BY <1>0, <2>0, SessionsSame DEF TakeSingle
  <2>2. CountersTyped' /\ frames' \in 1 .. MaxFrames
    BY <2>0, CountersArrive DEF TakeSingle, HandOver, ending
  <2>3. RunTyped'
    <3>1. CASE clients[c] = 0
      BY <1>i, <2>0, <3>1 DEF TakeSingle, RunTyped, RunState
    <3>2. CASE clients[c] # 0
      <4>1. clients[c] \in 1 .. Len(sessions) /\ clients[c] \in Nat
        BY <1>0, <3>2, ListedTyped DEF ClientsTyped, Listed
      <4>2. run' = [at |-> "single", frame |-> frames', to |-> clients[c]]
        BY <2>0, <3>2 DEF TakeSingle
      <4> QED BY <2>1, <2>2, <4>1, <4>2 DEF RunTyped, RunState
    <3> QED BY <3>1, <3>2
  <2> QED BY <2>0, <2>1, <2>2, <2>3, Carried DEF TakeSingle, ending, TypeInv
<1>6. CASE SingleSent
  <2>1. run.frame \in 1 .. MaxFrames /\ run.to \in 1 .. Len(sessions)
    BY <1>6, RunFields DEF SingleSent
  <2>2. SessionsKept /\ Len(sessions') = Len(sessions)
    BY <1>0, <1>6, <2>1, FrameTyped, ReceiveKeeps DEF SingleSent
  <2>3. CountersTyped'
    BY <1>6, CountersSame DEF SingleSent, ending
  <2> QED BY <1>6, <1>i, <2>2, <2>3, Carried DEF SingleSent, ending, TypeInv
<1>7. CASE SingleTimesOut \/ Returns
  <2>1. SessionsKept /\ Len(sessions') = Len(sessions)
    BY <1>0, <1>7, SessionsSame DEF SingleTimesOut, Returns
  <2>2. run' \in RunState /\ run'.at # "single"
    BY <1>7 DEF SingleTimesOut, Returns, RunState
  <2>3. CountersTyped'
    BY <1>7, CountersSame DEF SingleTimesOut, Returns, ending
  <2> QED BY <1>7, <2>1, <2>2, <2>3, Carried DEF SingleTimesOut, Returns, ending, TypeInv
<1> QED BY <1>1, <1>2, <1>3, <1>4, <1>5, <1>6, <1>7 DEF Run

\* The helpers, and the sessions.
LEMMA HelperStepIsTyped ==
  ASSUME TypeInv, NEW h \in helpers, HelperDelivers(h) \/ HelperTimesOut(h)
  PROVE  TypeInv' /\ SessionsKept
<1>0. /\ FileTyped /\ SessionsTyped /\ ClientsTyped /\ RunTyped
      /\ HelpersTyped /\ RequestsTyped /\ PeersTyped /\ CountersTyped
  BY DEF TypeInv
<1>1. h.to \in 1 .. Len(sessions) /\ h.chunk \in Chunk
  BY <1>0 DEF HelpersTyped, HelperRecord
<1>2. SessionsKept /\ Len(sessions') = Len(sessions)
  <2>1. CASE HelperDelivers(h)
    BY <1>0, <1>1, <2>1, ReceiveKeeps DEF HelperDelivers
  <2>2. CASE HelperTimesOut(h)
    BY <1>0, <2>2, SessionsSame DEF HelperTimesOut
  <2> QED BY <2>1, <2>2
<1>3. CountersTyped'
  BY CountersSame DEF HelperDelivers, HelperTimesOut, ending
<1>4. helpers' \subseteq helpers /\ (clients' = clients \/ \E c : clients' = Without(c))
  BY DEF HelperDelivers, HelperTimesOut
<1>5. run' = run /\ request' = request /\ archive' = archive /\ unreadable' = unreadable
      /\ connected' = connected /\ out' = out
  BY DEF HelperDelivers, HelperTimesOut, ending
<1> QED BY <1>0, <1>2, <1>3, <1>4, <1>5, Carried DEF TypeInv, RunTyped

LEMMA SessionStepIsTyped ==
  ASSUME TypeInv, NEW s \in DOMAIN sessions, Session(s)
  PROVE  TypeInv' /\ SessionsKept
<1>0. /\ FileTyped /\ SessionsTyped /\ ClientsTyped /\ RunTyped
      /\ HelpersTyped /\ RequestsTyped /\ PeersTyped /\ CountersTyped
  BY DEF TypeInv
<1>1. s \in 1 .. Len(sessions)
  BY <1>0, LenProperties DEF SessionsTyped
<1>2. SessionsKept /\ Len(sessions') = Len(sessions)
  <2>1. \E r : \/ Fetch(s) /\ r = FetchedFrom(s)
               \/ Written(s) /\ r = WrittenBy(s)
               \/ Leaves(s) /\ r = LeavingOf(s)
               \/ Ends(s) /\ r = EndedOf(s)
    BY DEF Session
  <2> QED BY <1>0, <1>1, <2>1, SessionKeeps
<1>3. CountersTyped'
  BY CountersSame DEF Session, Fetch, Written, Leaves, Ends, ending
<1>4. /\ clients' = clients \/ \E c : clients' = Without(c)
      /\ helpers' = helpers /\ run' = run /\ request' = request
      /\ archive' = archive /\ unreadable' = unreadable
  BY DEF Session, Fetch, Written, Leaves, Ends, ending
<1>5. PeersTyped'
  <2>1. CASE Written(s)
    <3>1. PICK c \in Client : c = sessions[s].client
      BY <1>0, <1>1, SessionFields
    <3>2. connected' = connected /\ out' = [out EXCEPT ![c] = out[c] \o sessions[s].buf]
      BY <2>1, <3>1 DEF Written
    <3>3. out[c] \o sessions[s].buf \in Seq(Unit)
      BY <1>0, <1>1, SessionFields, ConcatProperties DEF PeersTyped
    <3> QED BY <1>0, <3>2, <3>3 DEF PeersTyped, Unit
  <2>2. CASE ~Written(s)
    <3>1. connected' = connected /\ out' = out
      BY <2>2 DEF Session, Fetch, Leaves, Ends
    <3> QED BY <1>2, <3>1, Carried
  <2> QED BY <2>1, <2>2
<1> QED BY <1>0, <1>2, <1>3, <1>4, <1>5, Carried DEF TypeInv, RunTyped

\* The room.
LEMMA PendingFinite == IsFiniteSet(Pending) /\ Cardinality(Pending) \in Nat
<1>1. IsFiniteSet(Pending)
  BY FS_Subset, RadioAssumption DEF Pending
<1> QED BY <1>1, FS_CardinalityType

LEMMA RequestIsTyped ==
  ASSUME TypeInv, NEW c \in Client, ArchiveRequest(c)
  PROVE  TypeInv' /\ SessionsKept
<1>0. /\ FileTyped /\ SessionsTyped /\ ClientsTyped /\ RunTyped
      /\ HelpersTyped /\ RequestsTyped /\ PeersTyped /\ CountersTyped
  BY DEF TypeInv
<1>1. SessionsKept /\ Len(sessions') = Len(sessions)
  BY <1>0, SessionsSame DEF ArchiveRequest
<1>2. PICK start \in Position, asked \in Asked :
        request' = [request EXCEPT ![c] = [start |-> start, length |-> DataLength(start, asked)]]
  BY DEF ArchiveRequest
<1>3. PICK new : new = [start |-> start, length |-> DataLength(start, asked)]
  OBVIOUS
<1>4. new \in [start : Int, length : Int] /\ new.start \in Nat /\ new # NoRequest
  <2>1. start \in Nat
    BY RadioAssumption, NextMultiple DEF Position
  <2>2. Len(archive) \in Nat /\ asked \in Nat
    BY <1>0, LenProperties, RadioAssumption DEF FileTyped
  <2>3. DataLength(start, asked) \in Int
    BY <2>1, <2>2 DEF DataLength
  <2> QED BY <1>3, <2>1, <2>3 DEF NoRequest
<1>5. request' = [request EXCEPT ![c] = new]
  BY <1>2, <1>3
<1>6. Pending' = Pending \cup {c} /\ c \notin Pending
  <2>1. NoRequest' = NoRequest /\ request[c] = NoRequest
    BY DEF NoRequest, ArchiveRequest
  <2> QED BY <1>0, <1>4, <1>5, <2>1 DEF Pending, RequestsTyped
<1>7. Len(sessions) + Cardinality(Pending) < MaxRequests /\ Cardinality(Pending) \in Nat
  BY PendingFinite DEF ArchiveRequest, Pending
<1>8. Cardinality(Pending') = Cardinality(Pending) + 1
  BY <1>6, PendingFinite, FS_AddElement
<1>9. Len(sessions) \in Nat
  BY <1>0, LenProperties DEF SessionsTyped
<1>10. RequestsTyped'
  <2>1. /\ request' \in [Client -> [start : Int, length : Int]]
        /\ \A d \in Client : request'[d] = NoRequest \/ request'[d].start \in Nat
    BY <1>0, <1>4, <1>5 DEF RequestsTyped
  <2>2. Len(sessions') + Cardinality(Pending') <= MaxRequests
    BY <1>1, <1>7, <1>8, <1>9, RadioAssumption
  <2> QED BY <2>1, <2>2 DEF RequestsTyped, NoRequest
<1>11. CountersTyped'
  BY CountersSame DEF ArchiveRequest, ending
<1> QED BY <1>0, <1>1, <1>10, <1>11, Carried DEF ArchiveRequest, ending, TypeInv, RunTyped

LEMMA AddIsTyped ==
  ASSUME TypeInv, NEW c \in Client, AddClient(c)
  PROVE  TypeInv' /\ SessionsKept
<1>0. /\ FileTyped /\ SessionsTyped /\ ClientsTyped /\ RunTyped
      /\ HelpersTyped /\ RequestsTyped /\ PeersTyped /\ CountersTyped
  BY DEF TypeInv
<1>1. /\ SessionsKept /\ Len(sessions') = Len(sessions) + 1
      /\ sessions'[Len(sessions) + 1] = NewSession(c)
  BY <1>0, AddKeeps
<1>2. Len(sessions) \in Nat
  BY <1>0, LenProperties DEF SessionsTyped
<1>3. request' = [request EXCEPT ![c] = NoRequest] /\ c \in Pending
      /\ clients' = [clients EXCEPT ![c] = Len(sessions) + 1]
  BY <1>1 DEF AddClient, Pending
<1>4. Pending' = Pending \ {c}
  <2>1. NoRequest' = NoRequest
    BY DEF NoRequest
  <2> QED BY <1>0, <1>3, <2>1 DEF Pending, RequestsTyped
<1>5. Cardinality(Pending') = Cardinality(Pending) - 1 /\ Cardinality(Pending) \in Nat
      /\ Cardinality(Pending') \in Nat
  <2>1. IsFiniteSet(Pending')
    BY <1>4, PendingFinite, FS_RemoveElement
  <2> QED BY <1>3, <1>4, <2>1, PendingFinite, FS_RemoveElement, FS_CardinalityType
<1>6. Len(sessions) + 1 + Cardinality(Pending') <= MaxRequests
  BY <1>0, <1>2, <1>5, RadioAssumption DEF RequestsTyped
<1>7. RequestsTyped'
  <2>1. NoRequest \in [start : Int, length : Int]
    BY DEF NoRequest
  <2>2. /\ request' \in [Client -> [start : Int, length : Int]]
        /\ \A d \in Client : request'[d] = NoRequest \/ request'[d].start \in Nat
    BY <1>0, <1>3, <2>1 DEF RequestsTyped
  <2> QED BY <1>1, <1>6, <2>2 DEF RequestsTyped, NoRequest
<1>8. ClientsTyped'
  <2>1. Len(sessions) + 1 \in SessionId
    BY <1>2, <1>5, <1>6, RadioAssumption DEF SessionId
  <2>2. clients' \in [Client -> {0} \cup SessionId]
    BY <1>0, <1>3, <2>1 DEF ClientsTyped
  <2>3. ASSUME NEW d \in Client, clients'[d] # 0
        PROVE  clients'[d] \in 1 .. Len(sessions') /\ sessions'[clients'[d]].client = d
    <3>1. CASE d = c
      <4>1. clients'[d] = Len(sessions) + 1
        BY <1>0, <1>3, <3>1 DEF ClientsTyped
      <4>2. NewSession(c).client = c
        BY DEF NewSession
      <4> QED BY <1>1, <1>2, <3>1, <4>1, <4>2
    <3>2. CASE d # c
      <4>1. clients'[d] = clients[d] /\ clients[d] \in 1 .. Len(sessions) /\ sessions[clients[d]].client = d
        BY <1>0, <1>3, <2>3, <3>2 DEF ClientsTyped
      <4> QED BY <1>1, <1>2, <4>1 DEF SessionsKept
    <3> QED BY <3>1, <3>2
  <2> QED BY <2>2, <2>3 DEF ClientsTyped, SessionId
<1>9. CountersTyped'
  BY CountersSame DEF AddClient, ending
<1> QED BY <1>0, <1>1, <1>7, <1>8, <1>9, Carried DEF AddClient, ending, TypeInv, RunTyped

LEMMA RoomStepIsTyped ==
  ASSUME TypeInv, NEW c \in Client, RemoveClient(c) \/ DirectSend(c) \/ Disconnect(c)
  PROVE  TypeInv' /\ SessionsKept
<1>0. /\ FileTyped /\ SessionsTyped /\ ClientsTyped /\ RunTyped
      /\ HelpersTyped /\ RequestsTyped /\ PeersTyped /\ CountersTyped
  BY DEF TypeInv
<1>1. CASE RemoveClient(c)
  <2>1. SessionsKept /\ Len(sessions') = Len(sessions)
    BY <1>0, <1>1, SessionsSame DEF RemoveClient
  <2>2. CountersTyped'
    BY <1>1, CountersSame DEF RemoveClient, ending
  <2>3. \E d : clients' = Without(d)
    BY <1>1 DEF RemoveClient
  <2> QED BY <1>0, <1>1, <2>1, <2>2, <2>3, Carried DEF RemoveClient, ending, TypeInv, RunTyped
<1>2. CASE DirectSend(c)
  <2>1. SessionsKept /\ Len(sessions') = Len(sessions)
    BY <1>0, <1>2, SessionsSame DEF DirectSend
  <2>2. CountersTyped' /\ frames' \in 1 .. MaxFrames
    BY <1>2, CountersArrive DEF DirectSend, ending
  <2>3. PeersTyped'
    <3>1. <<frames', 1, 1>> \in Unit
      BY <2>2, RadioAssumption DEF Unit
    <3>2. Append(out[c], <<frames', 1, 1>>) \in Seq(Unit)
      BY <1>0, <3>1, AppendProperties DEF PeersTyped
    <3>3. connected' = connected /\ out' = [out EXCEPT ![c] = Append(out[c], <<frames', 1, 1>>)]
      BY <1>2 DEF DirectSend
    <3> QED BY <1>0, <3>2, <3>3 DEF PeersTyped, Unit
  <2> QED BY <1>0, <1>2, <2>1, <2>2, <2>3, Carried DEF DirectSend, ending, TypeInv, RunTyped
<1>3. CASE Disconnect(c)
  <2>1. SessionsKept /\ Len(sessions') = Len(sessions)
    BY <1>0, <1>3, AllChanged
  <2>2. CountersTyped'
    BY <1>3, CountersSame DEF Disconnect, ending
  <2>3. PeersTyped'
    BY <1>0, <1>3 DEF Disconnect, PeersTyped, Unit
  <2> QED BY <1>0, <1>3, <2>1, <2>2, <2>3, Carried DEF Disconnect, ending, TypeInv, RunTyped
<1> QED BY <1>1, <1>2, <1>3

LEMMA PruneIsTyped == TypeInv /\ Prune => TypeInv' /\ SessionsKept
<1> SUFFICES ASSUME TypeInv, Prune PROVE TypeInv' /\ SessionsKept
  OBVIOUS
<1>0. /\ FileTyped /\ SessionsTyped /\ ClientsTyped /\ RunTyped
      /\ HelpersTyped /\ RequestsTyped /\ PeersTyped /\ CountersTyped
  BY DEF TypeInv
<1>1. SessionsKept /\ Len(sessions') = Len(sessions)
  BY <1>0, AllChanged
<1>2. FileTyped'
  <2>1. << >> \in Seq(Unit) /\ Len(<< >>) = 0
    BY EmptySeq
  <2> QED BY <2>1 DEF Prune, FileTyped, Unit
<1>3. CountersTyped'
  <2>1. run.at = "record" => run.frame \in 1 .. MaxFrames
    BY RunFields
  <2> QED BY <1>0, <2>1, RadioAssumption DEF Prune, CountersTyped
<1> QED BY <1>0, <1>1, <1>2, <1>3, Carried DEF Prune, TypeInv, RunTyped

LEMMA EndStepIsTyped ==
  TypeInv /\ (Close \/ RemoveFile \/ LateSync \/ RemoveAllClients) => TypeInv' /\ SessionsKept
<1> SUFFICES ASSUME TypeInv, Close \/ RemoveFile \/ LateSync \/ RemoveAllClients
             PROVE  TypeInv' /\ SessionsKept
  OBVIOUS
<1>0. /\ FileTyped /\ SessionsTyped /\ ClientsTyped /\ RunTyped
      /\ HelpersTyped /\ RequestsTyped /\ PeersTyped /\ CountersTyped
  BY DEF TypeInv
<1>1. SessionsKept /\ Len(sessions') = Len(sessions)
  BY <1>0, SessionsSame DEF Close, RemoveFile, LateSync, RemoveAllClients
<1>2. FileTyped'
  <2>1. Len(archive) \in 0 .. Len(archive)
    BY <1>0, LenProperties DEF FileTyped
  <2> QED BY <1>0, <2>1 DEF Close, RemoveFile, LateSync, RemoveAllClients, ending, FileTyped, Unit
<1>3. CountersTyped'
  BY <1>0 DEF Close, RemoveFile, LateSync, RemoveAllClients, ending, CountersTyped
<1>4. ClientsTyped'
  <2>1. CASE RemoveAllClients
    <3>1. clients' = [c \in Client |-> 0]
      BY <2>1 DEF RemoveAllClients
    <3> QED BY <3>1 DEF ClientsTyped
  <2>2. CASE ~RemoveAllClients
    <3>1. clients' = clients
      BY <2>2 DEF Close, RemoveFile, LateSync
    <3> QED BY <1>1, <3>1, Carried
  <2> QED BY <2>1, <2>2
<1>5. run' = run /\ helpers' = helpers /\ request' = request /\ connected' = connected /\ out' = out
  BY DEF Close, RemoveFile, LateSync, RemoveAllClients
<1> QED BY <1>0, <1>1, <1>2, <1>3, <1>4, <1>5, Carried DEF TypeInv, RunTyped

LEMMA StepIsTyped == TypeInv /\ [Next]_vars => TypeInv' /\ SessionsKept
<1> SUFFICES ASSUME TypeInv, [Next]_vars PROVE TypeInv' /\ SessionsKept
  OBVIOUS
<1>1. CASE UNCHANGED vars
  <2>1. SessionsKept /\ Len(sessions') = Len(sessions)
    BY <1>1, SessionsSame DEF TypeInv, vars
  <2>2. CountersTyped'
    BY <1>1, CountersSame DEF vars, ending
  <2> QED BY <1>1, <2>1, <2>2, Carried DEF vars, ending, TypeInv, RunTyped
<1>2. CASE \E c \in Client : ArchiveRequest(c) \/ AddClient(c) \/ RemoveClient(c) \/ DirectSend(c) \/ Disconnect(c)
  BY <1>2, RequestIsTyped, AddIsTyped, RoomStepIsTyped
<1> QED BY <1>1, <1>2, RunStepIsTyped, HelperStepIsTyped, SessionStepIsTyped, PruneIsTyped,
           EndStepIsTyped DEF Next

\* Subscriptions, helpers and the run goroutine name sessions that there are,
\* and every session queues chunks of at least one byte.
THEOREM RadioIsTyped == Spec => []TypeOK
BY InitIsTyped, StepIsTyped, TypeInvImpliesTypeOK, PTL DEF Spec

-----------------------------------------------------------------------------
(* Nothing is forgotten.                                                   *)

Listing(list, p) == \E i \in 1 .. Len(list) : Covers(list[i], p)

\* Queueing a chunk uncovers nothing, and covers what the chunk does.
LEMMA AppendCovers ==
  ASSUME NEW list \in Seq(Chunk), NEW chunk \in Chunk, NEW p \in Nat,
         Listing(list, p) \/ Covers(chunk, p)
  PROVE  Listing(appendToPendings(list, chunk), p)
<1>0. /\ list \in Seq(ChunksOf(Unit)) /\ (chunk \in RAMChunks(Unit) \/ chunk \in FileChunks)
      /\ Len(list) \in Nat
  BY ChunkIsChunksOf, LenProperties DEF ChunksOf
<1>1. CASE chunk \in RAMChunks(Unit)
  <2>1. PICK longer : longer = Append(list, chunk) /\ longer = appendToPendings(list, chunk)
    BY <1>0, <1>1, AppendRAM
  <2>2. Len(longer) = Len(list) + 1 /\ \A i \in 1 .. Len(list) : longer[i] = list[i]
    <3>1. /\ Len(Append(list, chunk)) = Len(list) + 1
          /\ \A i \in 1 .. Len(list) : Append(list, chunk)[i] = list[i]
      BY AppendProperties
    <3> QED BY <2>1, <3>1
  <2>3. ~Covers(chunk, p)
    BY <1>1 DEF Covers, RAMChunks
  <2> QED BY <1>0, <2>1, <2>2, <2>3 DEF Listing
<1>2. CASE chunk \in FileChunks
  <2>0. PICK kept, pieces : \E from \in Nat : Cut(Unit, list, chunk, kept, pieces, from)
    BY <1>0, <1>2, AppendFile
  <2>1. PICK from \in Nat : Cut(Unit, list, chunk, kept, pieces, from)
    BY <2>0
  <2>2. PICK start \in Nat, end \in Nat : start = chunk.start /\ end = chunk.start + chunk.length
    BY <1>2 DEF FileChunks
  <2>3. /\ kept \in Seq(ChunksOf(Unit)) /\ pieces \in Seq(FileChunks)
        /\ appendToPendings(list, chunk) = kept \o pieces /\ Follows(pieces, from, end)
    BY <2>1, <2>2 DEF Cut, Follows
  <2>4. pieces \in Seq(ChunksOf(Unit)) /\ \A i \in 1 .. Len(pieces) : pieces[i].kind = "file"
    <3>1. Len(pieces) \in Nat /\ pieces = [i \in 1 .. Len(pieces) |-> pieces[i]]
      BY <2>3, LenProperties
    <3>2. \A i \in 1 .. Len(pieces) : pieces[i] \in FileChunks /\ pieces[i] \in ChunksOf(Unit)
      BY <2>3, ElementOfSeq DEF ChunksOf
    <3>3. pieces \in Seq(ChunksOf(Unit))
      BY <3>1, <3>2, IsASeq
    <3> QED BY <3>2, <3>3 DEF FileChunks
  <2>5. PICK whole : whole = kept \o pieces
    OBVIOUS
  <2>6. /\ Len(kept) \in Nat /\ Len(pieces) \in Nat /\ Len(whole) = Len(kept) + Len(pieces)
        /\ \A i \in 1 .. Len(kept) + Len(pieces) :
             whole[i] = IF i <= Len(kept) THEN kept[i] ELSE pieces[i - Len(kept)]
    BY <2>3, <2>4, <2>5, ConcatProperties, LenProperties
  <2>7. ASSUME p \in from + 1 .. end PROVE Listing(whole, p)
    <3>1. PICK j \in 1 .. Len(pieces) : pieces[j].start < p /\ p <= pieces[j].start + pieces[j].length
      BY <2>3, <2>7, FollowsCovers
    <3>2. Len(kept) + j \in 1 .. Len(whole) /\ whole[Len(kept) + j] = pieces[j]
      BY <2>6, <3>1
    <3>3. Covers(pieces[j], p)
      BY <2>4, <3>1 DEF Covers
    <3> QED BY <3>2, <3>3 DEF Listing
  <2>8. ASSUME NEW i \in 1 .. Len(kept), Covers(kept[i], p) PROVE Listing(whole, p)
    <3>1. i \in 1 .. Len(whole) /\ whole[i] = kept[i]
      BY <2>6, <2>8
    <3> QED BY <2>8, <3>1 DEF Listing
  <2>9. CASE Covers(chunk, p)
    <3>1. from <= start
      BY <2>1, <2>2 DEF Cut
    <3>2. p \in from + 1 .. end
      BY <2>2, <2>9, <3>1 DEF Covers
    <3> QED BY <2>3, <2>5, <2>7, <3>2
  <2>10. CASE Listing(list, p)
    <3>1. PICK i \in 1 .. Len(list) : Covers(list[i], p)
      BY <2>10 DEF Listing
    <3>2. CASE kept = list
      BY <2>3, <2>5, <2>8, <3>1, <3>2
    <3>3. CASE from < start /\ list = Append(kept, FileChunk(from, start - from))
      <4>1. PICK bottom : bottom = FileChunk(from, start - from)
        OBVIOUS
      <4>2. bottom.start = from /\ bottom.start + bottom.length = start /\ bottom \in ChunksOf(Unit)
        BY <3>3, <4>1 DEF FileChunk, ChunksOf, FileChunks
      <4>3. list = Append(kept, bottom)
        BY <3>3, <4>1
      <4>4. /\ Len(list) = Len(kept) + 1 /\ list[Len(kept) + 1] = bottom
            /\ \A j \in 1 .. Len(kept) : list[j] = kept[j]
        BY <2>3, <4>2, <4>3, AppendProperties
      <4>5. CASE i \in 1 .. Len(kept)
        <5>1. Covers(kept[i], p)
          BY <3>1, <4>4, <4>5
        <5> QED BY <2>3, <2>5, <2>8, <4>5, <5>1
      <4>6. CASE i = Len(kept) + 1
        <5>1. p \in from + 1 .. start
          BY <3>1, <4>2, <4>4, <4>6 DEF Covers
        <5>2. start <= end
          BY <1>2, <2>2 DEF FileChunks
        <5>3. p \in from + 1 .. end
          BY <5>1, <5>2
        <5> QED BY <2>3, <2>5, <2>7, <5>3
      <4> QED BY <2>6, <4>4, <4>5, <4>6
    <3> QED BY <2>1, <2>2, <3>2, <3>3 DEF Cut
  <2> QED BY <2>9, <2>10
<1> QED BY <1>0, <1>1, <1>2

\* Where the byte can be.
InOut(s, p)     == archive[p] \in ToSet(out[sessions[s].client])
InBuffer(s, p)  == archive[p] \in ToSet(sessions[s].buf)
InList(s, p)    == Listing(sessions[s].list, p)
InHelpers(s, p) == \E h \in helpers : h.to = s /\ Covers(h.chunk, p)
InRun(p)        == run.at = "spread" /\ p > run.oldPos

Somewhere(s, p) == InOut(s, p) \/ InBuffer(s, p) \/ InList(s, p) \/ InHelpers(s, p) \/ InRun(p)

LEMMA OnItsWayIsSomewhere ==
  ASSUME SessionsTyped, NEW s \in 1 .. Len(sessions), NEW p
  PROVE  OnItsWay(s, p) <=> Somewhere(s, p)
<1>1. DOMAIN sessions[s].list = 1 .. Len(sessions[s].list)
  BY SessionFields, LenProperties
<1> QED BY <1>1 DEF OnItsWay, Somewhere, InOut, InBuffer, InList, InHelpers, InRun, Listing

Active(s) == sessions[s].at \in {"select", "writing"}

\* NothingForgotten, of the places named above.
KeptInv ==
  \A c \in Client : clients[c] # 0 /\ Active(clients[c]) =>
    \A p \in sessions[clients[c]].from + 1 .. Len(archive) :
      Somewhere(clients[c], p) \/ archive[p][1] \in crossed

LEMMA KeptIsNothingForgotten == TypeInv => (KeptInv <=> NothingForgotten)
<1> SUFFICES ASSUME TypeInv PROVE KeptInv <=> NothingForgotten
  OBVIOUS
<1>1. ASSUME NEW c \in Client, clients[c] # 0
      PROVE  clients[c] \in 1 .. Len(sessions)
             /\ \A p : OnItsWay(clients[c], p) <=> Somewhere(clients[c], p)
  <2>1. clients[c] \in 1 .. Len(sessions) /\ SessionsTyped
    BY <1>1 DEF TypeInv, ClientsTyped
  <2> QED BY <2>1, OnItsWayIsSomewhere
<1>2. \A c \in Client : Owed(c) = IF clients[c] # 0 /\ Active(clients[c])
                                  THEN sessions[clients[c]].from + 1 .. Len(archive) ELSE {}
  BY DEF Owed, Active
<1> QED BY <1>1, <1>2 DEF KeptInv, NothingForgotten

\* A byte stays where it is when nothing is taken from there.
LEMMA StaysSomewhere ==
  ASSUME TypeInv, NEW s \in 1 .. Len(sessions), NEW p \in 1 .. Len(archive), Somewhere(s, p),
         archive'[p] = archive[p],
         sessions'[s].client = sessions[s].client,
         \A c \in Client : ToSet(out[c]) \subseteq ToSet(out'[c]),
         sessions'[s].buf = sessions[s].buf, sessions'[s].list = sessions[s].list,
         \A h \in helpers : h.to = s => h \in helpers',
         run' = run \/ run.at # "spread"
  PROVE  Somewhere(s, p)'
<1>1. sessions[s].client \in Client
  BY SessionFields DEF TypeInv
<1>2. InOut(s, p) => InOut(s, p)'
  BY <1>1 DEF InOut, ToSet
<1>3. InBuffer(s, p) => InBuffer(s, p)'
  BY DEF InBuffer, ToSet
<1>4. InList(s, p) => InList(s, p)'
  BY DEF InList, Listing, Covers
<1>5. InHelpers(s, p) => InHelpers(s, p)'
  BY DEF InHelpers, Covers
<1>6. InRun(p) => InRun(p)'
  BY DEF InRun
<1> QED BY <1>2, <1>3, <1>4, <1>5, <1>6 DEF Somewhere

\* What is owed after a step that keeps the archive and leaves the client its
\* session was owed before.
LEMMA SubscriptionKept ==
  ASSUME TypeInv, KeptInv, NEW c \in Client, clients[c] # 0, Active(clients[c]),
         NEW p \in sessions[clients[c]].from + 1 .. Len(archive)
  PROVE  /\ clients[c] \in 1 .. Len(sessions) /\ p \in 1 .. Len(archive) /\ p \in Nat
         /\ sessions[clients[c]].client = c
         /\ Somewhere(clients[c], p) \/ archive[p][1] \in crossed
<1>1. clients[c] \in 1 .. Len(sessions) /\ sessions[clients[c]].client = c
  BY DEF TypeInv, ClientsTyped
<1>2. sessions[clients[c]].from \in Nat
  BY <1>1, SessionFields DEF TypeInv
<1>3. Len(archive) \in Nat
  BY LenProperties DEF TypeInv, FileTyped
<1> QED BY <1>1, <1>2, <1>3 DEF KeptInv

\* What client c is owed after a step.
KeptFor(c) ==
  clients[c] # 0 /\ Active(clients[c]) =>
    \A p \in sessions[clients[c]].from + 1 .. Len(archive) :
      Somewhere(clients[c], p) \/ archive[p][1] \in crossed

\* A step that leaves the client's session alone, and takes nothing away.
LEMMA UntouchedKept ==
  ASSUME TypeInv, KeptInv, SessionsKept, NEW c \in Client,
         clients'[c] = 0 \/ clients'[c] = clients[c],
         archive' = archive, crossed' = crossed,
         \A d \in Client : ToSet(out[d]) \subseteq ToSet(out'[d]),
         clients[c] # 0 =>
           /\ sessions'[clients[c]].at = sessions[clients[c]].at
           /\ sessions'[clients[c]].from = sessions[clients[c]].from
           /\ sessions'[clients[c]].buf = sessions[clients[c]].buf
           /\ sessions'[clients[c]].list = sessions[clients[c]].list
           /\ \A h \in helpers : h.to = clients[c] => h \in helpers',
         run' = run \/ run.at # "spread"
  PROVE  KeptFor(c)'
<1> SUFFICES ASSUME clients'[c] # 0, Active(clients[c])',
                    NEW p \in sessions'[clients'[c]].from + 1 .. Len(archive')
             PROVE  Somewhere(clients[c], p)' \/ archive'[p][1] \in crossed'
  BY DEF KeptFor
<1>1. clients[c] # 0 /\ clients'[c] = clients[c]
  OBVIOUS
<1>2. Active(clients[c]) /\ p \in sessions[clients[c]].from + 1 .. Len(archive)
  BY <1>1 DEF Active
<1>3. /\ clients[c] \in 1 .. Len(sessions) /\ p \in 1 .. Len(archive)
      /\ Somewhere(clients[c], p) \/ archive[p][1] \in crossed
  BY <1>1, <1>2, SubscriptionKept
<1>4. PICK s \in 1 .. Len(sessions) : s = clients[c] /\ s = clients'[c]
  BY <1>1, <1>3
<1>5. sessions'[s].client = sessions[s].client
  BY DEF SessionsKept
<1>6. Somewhere(s, p) => Somewhere(s, p)'
  BY <1>1, <1>3, <1>4, <1>5, StaysSomewhere
<1>7. Somewhere(s, p)' => Somewhere(clients[c], p)'
  BY <1>4 DEF Somewhere, InOut, InBuffer, InList, InHelpers, InRun
<1> QED BY <1>3, <1>4, <1>6, <1>7

\* A write extends the archive that it found, unless a clearall came between.
RunInv ==
  /\ run.at = "record" => /\ Len(archive) <= run.oldPos
                          /\ run.oldPos = Len(archive) \/ run.frame \in crossed
  /\ run.at = "spread" => Len(archive) <= run.oldPos + FrameLength

\* A session's buffer is empty but while it writes.
BuffersInv == \A s \in 1 .. Len(sessions) : sessions[s].at = "select" => sessions[s].buf = << >>

LEMMA RunStep == TypeInv /\ RunInv /\ [Next]_vars => RunInv'
<1> SUFFICES ASSUME TypeInv, RunInv, [Next]_vars PROVE RunInv'
  OBVIOUS
<1>1. Len(archive) \in Nat /\ FrameLength \in Nat
  BY LenProperties, RadioAssumption DEF TypeInv, FileTyped
<1>2. CASE TakeWrite
  BY <1>1, <1>2 DEF TakeWrite, RunInv
<1>3. CASE Record
  <2>1. run.frame \in 1 .. MaxFrames /\ run.oldPos \in Nat
    BY <1>3, RunFields DEF Record
  <2>2. Len(archive') = Len(archive) + FrameLength
    BY <1>3, <2>1, FrameTyped, ConcatProperties DEF Record, TypeInv, FileTyped
  <2>3. run'.at = "spread" /\ run'.oldPos = run.oldPos
    <3>1. run \in [at : {"record", "spread"}, frame : 1 .. MaxFrames, oldPos : Nat]
      BY <1>3 DEF Record, TypeInv, RunTyped, RunState
    <3> QED BY <1>3, <3>1 DEF Record
  <2> QED BY <1>1, <1>3, <2>1, <2>2, <2>3 DEF Record, RunInv
<1>4. CASE Prune
  <2>1. run.at \in {"record", "spread"} => run.oldPos \in Nat
    BY RunFields
  <2>2. archive' = << >> /\ Len(<< >>) = 0 /\ run' = run
    BY <1>4 DEF Prune
  <2>3. run.at = "record" => run.frame \in crossed'
    BY <1>4 DEF Prune
  <2> QED BY <1>1, <2>1, <2>2, <2>3 DEF RunInv
<1>5. CASE Spread \/ SingleSent \/ SingleTimesOut \/ Returns \/ \E c \in Client : TakeSingle(c)
  <2>1. run'.at \notin {"record", "spread"}
    BY <1>5 DEF Spread, SingleSent, SingleTimesOut, Returns, TakeSingle, Idle
  <2> QED BY <2>1 DEF RunInv
<1>6. CASE UNCHANGED <<run, archive, crossed>>
  BY <1>6 DEF RunInv
<1>7. ASSUME ~TakeWrite, ~Record, ~Prune, ~Spread, ~SingleSent, ~SingleTimesOut, ~Returns,
             ~\E c \in Client : TakeSingle(c)
      PROVE  UNCHANGED <<run, archive, crossed>>
  <2>1. ASSUME NEW c \in Client,
               ArchiveRequest(c) \/ AddClient(c) \/ RemoveClient(c) \/ DirectSend(c) \/ Disconnect(c)
        PROVE  UNCHANGED <<run, archive, crossed>>
    BY <2>1 DEF ArchiveRequest, AddClient, RemoveClient, DirectSend, Disconnect
  <2>2. ASSUME NEW s, Session(s) PROVE UNCHANGED <<run, archive, crossed>>
    BY <2>2 DEF Session, Fetch, Written, Leaves, Ends
  <2>3. ASSUME NEW h, HelperDelivers(h) \/ HelperTimesOut(h) PROVE UNCHANGED <<run, archive, crossed>>
    BY <2>3 DEF HelperDelivers, HelperTimesOut
  <2>4. ASSUME TakeSend \/ Close \/ RemoveFile \/ LateSync \/ RemoveAllClients \/ UNCHANGED vars
        PROVE  UNCHANGED <<run, archive, crossed>>
    BY <2>4 DEF TakeSend, Close, RemoveFile, LateSync, RemoveAllClients, vars
  <2> QED BY <1>7, <2>1, <2>2, <2>3, <2>4 DEF Next, Run
<1> QED BY <1>2, <1>3, <1>4, <1>5, <1>6, <1>7

LEMMA BuffersStep == TypeInv /\ BuffersInv /\ [Next]_vars => BuffersInv'
<1> SUFFICES ASSUME TypeInv, BuffersInv, [Next]_vars PROVE BuffersInv'
  OBVIOUS
<1>0. SessionsTyped /\ FileTyped /\ RequestsTyped /\ Len(sessions) \in Nat
      /\ DOMAIN sessions = 1 .. Len(sessions)
  BY LenProperties DEF TypeInv, SessionsTyped
<1>1. ASSUME NEW s \in 1 .. Len(sessions), NEW chunk \in Chunk, Receive(s, chunk) PROVE BuffersInv'
  <2>1. /\ Len(sessions') = Len(sessions)
        /\ \A t \in 1 .. Len(sessions) : sessions'[t] =
             IF t = s THEN [sessions[s] EXCEPT !.list = appendToPendings(sessions[s].list, chunk)]
             ELSE sessions[t]
    BY <1>0, <1>1, ReceiveKeeps
  <2>2. sessions'[s].at = sessions[s].at /\ sessions'[s].buf = sessions[s].buf
    BY <1>0, <2>1, SessionFields DEF SessionRecord
  <2> QED BY <2>1, <2>2 DEF BuffersInv
<1>2. CASE SingleSent
  <2>1. run.frame \in 1 .. MaxFrames /\ run.to \in 1 .. Len(sessions)
    BY <1>2, RunFields DEF SingleSent
  <2> QED BY <1>1, <1>2, <2>1, FrameTyped DEF SingleSent
<1>3. ASSUME NEW h \in helpers, HelperDelivers(h) PROVE BuffersInv'
  <2>1. h.to \in 1 .. Len(sessions) /\ h.chunk \in Chunk
    BY DEF TypeInv, HelpersTyped, HelperRecord
  <2> QED BY <1>1, <1>3, <2>1 DEF HelperDelivers
<1>4. ASSUME NEW s \in 1 .. Len(sessions), Session(s) PROVE BuffersInv'
  <2>1. PICK r : \/ Fetch(s) /\ r = FetchedFrom(s)
                 \/ Written(s) /\ r = WrittenBy(s)
                 \/ Leaves(s) /\ r = LeavingOf(s)
                 \/ Ends(s) /\ r = EndedOf(s)
    BY <1>4 DEF Session
  <2>2. /\ Len(sessions') = Len(sessions)
        /\ \A t \in 1 .. Len(sessions) : sessions'[t] = IF t = s THEN r ELSE sessions[t]
    BY <1>0, <2>1, SessionKeeps
  <2>3. r.at = "select" => r.buf = << >>
    BY <1>0, <2>1, SessionFields DEF SessionRecord, FetchedFrom, WrittenBy, LeavingOf, EndedOf
  <2> QED BY <2>2, <2>3 DEF BuffersInv
<1>5. ASSUME NEW c \in Client, AddClient(c) PROVE BuffersInv'
  <2>1. /\ Len(sessions') = Len(sessions) + 1
        /\ \A t \in 1 .. Len(sessions) : sessions'[t] = sessions[t]
        /\ sessions'[Len(sessions) + 1] = NewSession(c)
    BY <1>0, <1>5, AddKeeps
  <2>2. NewSession(c).buf = << >>
    BY DEF NewSession
  <2> QED BY <1>0, <2>1, <2>2 DEF BuffersInv
<1>6. CASE Prune \/ \E c \in Client : Disconnect(c)
  BY <1>0, <1>6, AllChanged DEF BuffersInv
<1>7. CASE UNCHANGED sessions
  BY <1>7 DEF BuffersInv
<1>8. ASSUME ~SingleSent, ~Prune, ~\E c \in Client : Disconnect(c) \/ AddClient(c),
             ~\E h \in helpers : HelperDelivers(h), ~\E s \in 1 .. Len(sessions) : Session(s)
      PROVE  UNCHANGED sessions
  <2>1. ASSUME NEW c \in Client, ArchiveRequest(c) \/ RemoveClient(c) \/ DirectSend(c) \/ TakeSingle(c)
        PROVE  UNCHANGED sessions
    BY <2>1 DEF ArchiveRequest, RemoveClient, DirectSend, TakeSingle
  <2>2. ASSUME NEW h, HelperTimesOut(h) PROVE UNCHANGED sessions
    BY <2>2 DEF HelperTimesOut
  <2>3. ASSUME \/ TakeWrite \/ Record \/ Spread \/ TakeSend \/ SingleTimesOut \/ Returns
               \/ Close \/ RemoveFile \/ LateSync \/ RemoveAllClients \/ UNCHANGED vars
        PROVE  UNCHANGED sessions
    BY <2>3 DEF TakeWrite, Record, Spread, TakeSend, SingleTimesOut, Returns,
                Close, RemoveFile, LateSync, RemoveAllClients, vars
  <2> QED BY <1>0, <1>8, <2>1, <2>2, <2>3 DEF Next, Run
<1> QED BY <1>0, <1>2, <1>3, <1>4, <1>5, <1>6, <1>7, <1>8

\* Every client is owed what it was, or its share of it in another place.
LEMMA QuietKeeps ==
  ASSUME TypeInv, KeptInv, SessionsKept,
         sessions' = sessions \/ \E c \in Client : Disconnect(c),
         \A c \in Client : clients'[c] = 0 \/ clients'[c] = clients[c],
         archive' = archive, crossed' = crossed, helpers \subseteq helpers',
         \A d \in Client : ToSet(out[d]) \subseteq ToSet(out'[d]),
         run' = run \/ run.at # "spread"
  PROVE  KeptInv'
<1>1. ASSUME NEW s \in 1 .. Len(sessions)
      PROVE  /\ sessions'[s].at = sessions[s].at /\ sessions'[s].from = sessions[s].from
             /\ sessions'[s].buf = sessions[s].buf /\ sessions'[s].list = sessions[s].list
  <2>1. CASE sessions' = sessions
    BY <2>1
  <2>2. CASE \E c \in Client : Disconnect(c)
    <3>1. SessionsTyped
      BY DEF TypeInv
    <3> QED BY <2>2, <3>1, AllChanged
  <2> QED BY <2>1, <2>2
<1>2. ASSUME NEW c \in Client PROVE KeptFor(c)'
  <2>1. clients[c] # 0 => clients[c] \in 1 .. Len(sessions)
    BY DEF TypeInv, ClientsTyped
  <2> QED BY <1>1, <2>1, UntouchedKept
<1> QED BY <1>2 DEF KeptInv, KeptFor

\* A session that receives a chunk.
LEMMA ReceiveKeepsAll ==
  ASSUME TypeInv, KeptInv, NEW s \in 1 .. Len(sessions), NEW chunk \in Chunk, Receive(s, chunk),
         clients' = clients, archive' = archive, crossed' = crossed, out' = out,
         \A h \in helpers : h \in helpers' \/ (h.to = s /\ h.chunk = chunk),
         run' = run \/ run.at # "spread"
  PROVE  KeptInv'
<1>0. SessionsTyped
  BY DEF TypeInv
<1>1. /\ SessionsKept
      /\ \A t \in 1 .. Len(sessions) : sessions'[t] =
           IF t = s THEN [sessions[s] EXCEPT !.list = appendToPendings(sessions[s].list, chunk)]
           ELSE sessions[t]
  BY <1>0, ReceiveKeeps
<1>2. /\ sessions'[s].at = sessions[s].at /\ sessions'[s].from = sessions[s].from
      /\ sessions'[s].buf = sessions[s].buf /\ sessions'[s].client = sessions[s].client
      /\ sessions'[s].list = appendToPendings(sessions[s].list, chunk)
      /\ sessions[s].list \in Seq(Chunk)
  BY <1>0, <1>1, SessionFields DEF SessionRecord
<1>3. ASSUME NEW c \in Client, clients[c] # s PROVE KeptFor(c)'
  <2>1. clients[c] # 0 => clients[c] \in 1 .. Len(sessions) /\ sessions'[clients[c]] = sessions[clients[c]]
    BY <1>1, <1>3 DEF TypeInv, ClientsTyped
  <2>2. \A h \in helpers : h.to = clients[c] => h \in helpers'
    BY <1>3
  <2> QED BY <1>1, <2>1, <2>2, UntouchedKept
<1>4. ASSUME NEW c \in Client, clients[c] = s PROVE KeptFor(c)'
  <2> SUFFICES ASSUME clients[c] # 0, Active(s), NEW p \in sessions[s].from + 1 .. Len(archive)
               PROVE  Somewhere(s, p)' \/ archive[p][1] \in crossed
    BY <1>2, <1>4 DEF KeptFor, Active, Somewhere, InOut, InBuffer, InList, InHelpers, InRun
  <2>1. p \in Nat /\ (Somewhere(s, p) \/ archive[p][1] \in crossed)
    BY <1>4, SubscriptionKept
  <2>2. InOut(s, p) => InOut(s, p)'
    BY <1>2 DEF InOut
  <2>3. InBuffer(s, p) => InBuffer(s, p)'
    BY <1>2 DEF InBuffer
  <2>4. InList(s, p) \/ Covers(chunk, p) => InList(s, p)'
    <3>1. Listing(sessions[s].list, p) \/ Covers(chunk, p) => Listing(appendToPendings(sessions[s].list, chunk), p)
      BY <1>2, <2>1, AppendCovers
    <3> QED BY <1>2, <3>1 DEF InList, Listing, Covers
  <2>5. InHelpers(s, p) => InHelpers(s, p)' \/ Covers(chunk, p)
    BY DEF InHelpers, Covers
  <2>6. InRun(p) => InRun(p)'
    BY DEF InRun
  <2> QED BY <2>1, <2>2, <2>3, <2>4, <2>5, <2>6 DEF Somewhere
<1> QED BY <1>3, <1>4 DEF KeptInv, KeptFor

\* write: the archive grows behind the position that the helpers will name.
LEMMA RecordKeeps == TypeInv /\ RunInv /\ KeptInv /\ Record => KeptInv'
<1> SUFFICES ASSUME TypeInv, RunInv, KeptInv, Record, NEW c \in Client PROVE KeptFor(c)'
  BY DEF KeptInv, KeptFor
<1>1. /\ run.at = "record" /\ run.frame \in 1 .. MaxFrames /\ run.oldPos \in Nat
      /\ Len(archive) <= run.oldPos
      /\ run.oldPos = Len(archive) \/ run.frame \in crossed
  BY RunFields DEF Record, RunInv
<1>2. PICK n \in Nat : n = Len(archive)
  BY LenProperties DEF TypeInv, FileTyped
<1>3. PICK longer : longer = archive'
  OBVIOUS
<1>4. /\ Len(longer) = n + FrameLength
      /\ \A p \in 1 .. n : longer[p] = archive[p]
      /\ \A p \in n + 1 .. n + FrameLength : longer[p][1] = run.frame
  <2>1. PICK frame : frame = DataFrame(run.frame)
    OBVIOUS
  <2>2. frame \in Seq(Unit) /\ Len(frame) = FrameLength /\ archive \in Seq(Unit)
    BY <1>1, <2>1, FrameTyped DEF TypeInv, FileTyped
  <2>3. longer = archive \o frame
    BY <1>3, <2>1 DEF Record
  <2>4. /\ Len(longer) = n + FrameLength
        /\ \A p \in 1 .. n + FrameLength : longer[p] = IF p <= n THEN archive[p] ELSE frame[p - n]
    BY <1>2, <2>2, <2>3, ConcatProperties
  <2>5. \A i \in 1 .. FrameLength : frame[i][1] = run.frame
    BY <2>1 DEF DataFrame
  <2>6. FrameLength \in Nat /\ \A p \in n + 1 .. n + FrameLength : p - n \in 1 .. FrameLength
    BY RadioAssumption
  <2> QED BY <2>4, <2>5, <2>6
<1>5. /\ clients' = clients /\ sessions' = sessions /\ helpers' = helpers /\ out' = out
      /\ crossed' = crossed
  BY DEF Record
<1>6. run'.at = "spread" /\ run'.oldPos = run.oldPos
  <2>1. run \in [at : {"record", "spread"}, frame : 1 .. MaxFrames, oldPos : Nat]
    BY <1>1 DEF TypeInv, RunTyped, RunState
  <2> QED BY <2>1 DEF Record
<1> SUFFICES ASSUME clients[c] # 0, Active(clients[c]),
                    NEW p \in sessions[clients[c]].from + 1 .. n + FrameLength
             PROVE  Somewhere(clients[c], p)' \/ longer[p][1] \in crossed
  BY <1>3, <1>4, <1>5 DEF KeptFor, Active
<1>7. clients[c] \in 1 .. Len(sessions) /\ sessions[clients[c]].from \in Nat
  BY SessionFields DEF TypeInv, ClientsTyped
<1>8. CASE p <= n
  <2>1. p \in sessions[clients[c]].from + 1 .. Len(archive)
    BY <1>2, <1>8
  <2>2. p \in 1 .. Len(archive) /\ (Somewhere(clients[c], p) \/ archive[p][1] \in crossed)
    BY <2>1, SubscriptionKept
  <2>3. longer[p] = archive[p]
    BY <1>2, <1>4, <2>2
  <2>4. PICK s \in 1 .. Len(sessions) : s = clients[c] /\ s = clients'[c]
    BY <1>5, <1>7
  <2>5. Somewhere(s, p) => Somewhere(s, p)'
    BY <1>1, <1>3, <1>5, <2>2, <2>3, StaysSomewhere
  <2>6. Somewhere(s, p)' => Somewhere(clients[c], p)'
    BY <2>4 DEF Somewhere, InOut, InBuffer, InList, InHelpers, InRun
  <2> QED BY <2>2, <2>3, <2>4, <2>5, <2>6
<1>9. CASE ~(p <= n)
  <2>1. p \in n + 1 .. n + FrameLength
    BY <1>2, <1>7, <1>9, RadioAssumption
  <2>2. CASE run.oldPos = Len(archive)
    <3>1. p > run.oldPos
      BY <1>2, <2>1, <2>2
    <3> QED BY <1>6, <3>1 DEF Somewhere, InRun
  <2>3. CASE run.frame \in crossed
    BY <1>4, <2>1, <2>3
  <2> QED BY <1>1, <2>2, <2>3
<1> QED BY <1>8, <1>9

\* What the run goroutine carried, helpers carry.
LEMMA SpreadKeeps == TypeInv /\ RunInv /\ KeptInv /\ Spread => KeptInv'
<1> SUFFICES ASSUME TypeInv, RunInv, KeptInv, Spread, NEW c \in Client PROVE KeptFor(c)'
  BY DEF KeptInv, KeptFor
<1>1. /\ clients' = clients /\ sessions' = sessions /\ archive' = archive /\ out' = out
      /\ crossed' = crossed /\ helpers \subseteq helpers'
  BY DEF Spread
<1>2. /\ run.at = "spread" /\ run.oldPos \in Nat /\ Len(archive) <= run.oldPos + FrameLength
  BY RunFields DEF Spread, RunInv
<1> SUFFICES ASSUME clients[c] # 0, Active(clients[c]),
                    NEW p \in sessions[clients[c]].from + 1 .. Len(archive)
             PROVE  Somewhere(clients[c], p)' \/ archive[p][1] \in crossed
  BY <1>1 DEF KeptFor, Active
<1>3. /\ clients[c] \in 1 .. Len(sessions) /\ p \in 1 .. Len(archive) /\ p \in Nat
      /\ Somewhere(clients[c], p) \/ archive[p][1] \in crossed
  BY SubscriptionKept
<1>4. PICK s \in 1 .. Len(sessions) : s = clients[c] /\ s = clients'[c]
  BY <1>1, <1>3
<1>5. InOut(s, p) \/ InBuffer(s, p) \/ InList(s, p) \/ InHelpers(s, p) => Somewhere(s, p)'
  BY <1>1 DEF Somewhere, InOut, InBuffer, InList, InHelpers, Listing, Covers
<1>6. InRun(p) => Somewhere(s, p)'
  <2> SUFFICES ASSUME InRun(p) PROVE InHelpers(s, p)'
    BY DEF Somewhere
  <2>1. PICK h : h = [id |-> run.frame, to |-> s, chunk |-> FileChunk(run.oldPos, FrameLength)]
    OBVIOUS
  <2>2. h \in helpers'
    <3>1. s \in Listed
      BY <1>4 DEF Listed
    <3> QED BY <2>1, <3>1 DEF Spread
  <2>3. Len(archive) \in Nat /\ FrameLength \in Nat
    BY LenProperties, RadioAssumption DEF TypeInv, FileTyped
  <2>4. Covers(h.chunk, p)
    BY <1>2, <1>3, <2>1, <2>3 DEF InRun, Covers, FileChunk
  <2> QED BY <2>1, <2>2, <2>4 DEF InHelpers, Covers
<1>7. Somewhere(s, p)' => Somewhere(clients[c], p)'
  BY <1>4 DEF Somewhere, InOut, InBuffer, InList, InHelpers, InRun
<1> QED BY <1>3, <1>4, <1>5, <1>6, <1>7 DEF Somewhere

\* A helper that gives up takes the client off the list as it goes.
LEMMA TimeoutKeeps ==
  ASSUME TypeInv, KeptInv, SessionsKept, NEW h \in helpers, HelperTimesOut(h), NEW c \in Client
  PROVE  KeptFor(c)'
<1>1. h.to \in 1 .. Len(sessions) /\ clients \in [Client -> {0} \cup SessionId]
  BY DEF TypeInv, HelpersTyped, ClientsTyped
<1>2. /\ clients' = [clients EXCEPT ![sessions[h.to].client] = 0]
      /\ sessions' = sessions /\ archive' = archive /\ out' = out /\ crossed' = crossed /\ run' = run
      /\ helpers' = helpers \ {h}
  BY DEF HelperTimesOut, Without
<1>3. CASE c = sessions[h.to].client
  <2>1. clients'[c] = 0
    BY <1>1, <1>2, <1>3
  <2> QED BY <2>1 DEF KeptFor
<1>4. CASE c # sessions[h.to].client
  <2>1. clients'[c] = clients[c]
    BY <1>1, <1>2, <1>4
  <2>2. clients[c] # 0 => h.to # clients[c]
    BY <1>4 DEF TypeInv, ClientsTyped
  <2> QED BY <1>2, <2>1, <2>2, UntouchedKept
<1> QED BY <1>3, <1>4

\* A session carries what it takes from its list to its client.
LEMMA SessionStepKeeps ==
  ASSUME TypeInv, KeptInv, BuffersInv, NEW s \in 1 .. Len(sessions), Session(s), NEW c \in Client
  PROVE  KeptFor(c)'
<1>0. FileTyped /\ SessionsTyped /\ PeersTyped /\ clients \in [Client -> {0} \cup SessionId]
  BY DEF TypeInv, ClientsTyped
<1>1. PICK r : \/ Fetch(s) /\ r = FetchedFrom(s)
               \/ Written(s) /\ r = WrittenBy(s)
               \/ Leaves(s) /\ r = LeavingOf(s)
               \/ Ends(s) /\ r = EndedOf(s)
  BY DEF Session
<1>2. /\ SessionsKept /\ r.client = sessions[s].client
      /\ \A t \in 1 .. Len(sessions) : sessions'[t] = IF t = s THEN r ELSE sessions[t]
  BY <1>0, <1>1, SessionKeeps
<1>3. archive' = archive /\ crossed' = crossed /\ helpers' = helpers /\ run' = run
  BY DEF Session, Fetch, Written, Leaves, Ends
<1>4. clients'[c] = 0 \/ clients'[c] = clients[c]
  BY <1>0 DEF Session, Fetch, Written, Leaves, Ends, Without
<1>5. sessions[s].client \in Client
  BY <1>0, SessionFields
<1>6. /\ \A d \in Client : out'[d] = out[d] \/ (Written(s) /\ out'[d] = out[d] \o sessions[s].buf)
      /\ Written(s) => out'[sessions[s].client] = out[sessions[s].client] \o sessions[s].buf
  BY <1>0, <1>5 DEF Session, Fetch, Written, Leaves, Ends, PeersTyped
<1>7. \A d \in Client : ToSet(out[d]) \subseteq ToSet(out'[d])
  <2> SUFFICES ASSUME NEW d \in Client, out'[d] = out[d] \o sessions[s].buf
               PROVE  ToSet(out[d]) \subseteq ToSet(out'[d])
    BY <1>6
  <2>1. PICK a, b, ab : a = out[d] /\ b = sessions[s].buf /\ ab = out'[d]
    OBVIOUS
  <2>2. a \in Seq(Unit) /\ b \in Seq(Unit) /\ ab = a \o b
    BY <1>0, <2>1, SessionFields DEF PeersTyped
  <2>3. /\ ab \in Seq(Unit) /\ Len(ab) = Len(a) + Len(b) /\ Len(a) \in Nat /\ Len(b) \in Nat
        /\ \A i \in 1 .. Len(a) + Len(b) : ab[i] = IF i <= Len(a) THEN a[i] ELSE b[i - Len(a)]
    BY <2>2, ConcatProperties, LenProperties
  <2>4. DOMAIN a = 1 .. Len(a) /\ DOMAIN ab = 1 .. Len(ab)
    BY <2>2, <2>3, LenProperties
  <2>5. \A i \in 1 .. Len(a) : i \in 1 .. Len(ab) /\ ab[i] = a[i]
    BY <2>3
  <2> QED BY <2>1, <2>4, <2>5 DEF ToSet
<1>8. CASE clients[c] # s
  <2>1. clients[c] # 0 => clients[c] \in 1 .. Len(sessions) /\ sessions'[clients[c]] = sessions[clients[c]]
    BY <1>2, <1>8 DEF TypeInv, ClientsTyped
  <2> QED BY <1>2, <1>3, <1>4, <1>7, <2>1, UntouchedKept
<1>9. CASE clients[c] = s
  <2> SUFFICES ASSUME clients'[c] # 0, Active(s)',
                      NEW p \in sessions'[s].from + 1 .. Len(archive)
               PROVE  Somewhere(s, p)' \/ archive[p][1] \in crossed
    BY <1>3, <1>4, <1>9 DEF KeptFor, Active, Somewhere, InOut, InBuffer, InList, InHelpers, InRun
  <2>1. sessions'[s] = r /\ clients'[c] = s /\ r.at \in {"select", "writing"} /\ s # 0
    BY <1>2, <1>4, <1>9 DEF Active
  <2>2. r.from = sessions[s].from
    BY <1>0, <1>1, SessionFields DEF SessionRecord, FetchedFrom, WrittenBy, LeavingOf, EndedOf
  <2>3. Fetch(s) \/ Written(s)
    BY <1>0, <1>1, <2>1, SessionFields DEF SessionRecord, LeavingOf, EndedOf
  <2>4. Active(s)
    BY <2>3 DEF Fetch, Written, Active
  <2>5. /\ p \in 1 .. Len(archive) /\ sessions[s].client = c
        /\ Somewhere(s, p) \/ archive[p][1] \in crossed
    BY <1>9, <2>1, <2>2, <2>4, SubscriptionKept
  <2>6. InOut(s, p) => InOut(s, p)'
    BY <1>2, <1>3, <1>5, <1>7, <2>1 DEF InOut
  <2>7. InHelpers(s, p) => InHelpers(s, p)'
    BY <1>3 DEF InHelpers, Covers
  <2>8. InRun(p) => InRun(p)'
    BY <1>3 DEF InRun
  <2>9. CASE Fetch(s)
    <3>1. sessions[s].buf = << >> /\ sessions[s].list \in Seq(Chunk) /\ sessions[s].list # << >>
      BY <1>0, <2>9, SessionFields DEF Fetch, BuffersInv
    <3>2. r = FetchedFrom(s)
      <4>1. sessions'[s] = FetchedFrom(s)
        BY <1>0, <2>9, SessionKeeps
      <4> QED BY <2>1, <4>1
    <3>3. PICK head, rest : head = Head(sessions[s].list) /\ rest = Tail(sessions[s].list)
      OBVIOUS
    <3>4. /\ head \in Chunk /\ Readable(head) /\ rest \in Seq(Chunk)
          /\ Len(rest) = Len(sessions[s].list) - 1
          /\ \A i \in 1 .. Len(rest) : rest[i] = sessions[s].list[i + 1]
          /\ head = sessions[s].list[1] /\ Len(sessions[s].list) \in Nat
      BY <2>9, <3>1, <3>3, HeadTailProperties, LenProperties DEF Fetch
    <3>5. r.buf = Bytes(head) /\ r.list = rest
      BY <1>0, <3>2, <3>3, SessionFields DEF SessionRecord, FetchedFrom
    <3>6. ~InBuffer(s, p)
      BY <3>1 DEF InBuffer, ToSet
    <3>7. Covers(head, p) => InBuffer(s, p)'
      <4> SUFFICES ASSUME Covers(head, p) PROVE archive[p] \in ToSet(Bytes(head))
        BY <1>3, <2>1, <3>5 DEF InBuffer
      <4>1. PICK i \in 1 .. Len(Bytes(head)) : Bytes(head)[i] = archive[p]
        BY <1>0, <2>5, <3>4, BytesTyped
      <4>2. DOMAIN Bytes(head) = 1 .. Len(Bytes(head))
        <5>1. Bytes(head) \in Seq(Unit)
          BY <1>0, <3>4, BytesTyped
        <5> QED BY <5>1, LenProperties
      <4> QED BY <4>1, <4>2 DEF ToSet
    <3>8. Listing(rest, p) => InList(s, p)'
      BY <2>1, <3>5 DEF InList, Listing, Covers
    <3>9. InList(s, p) => Covers(head, p) \/ Listing(rest, p)
      <4> SUFFICES ASSUME NEW i \in 1 .. Len(sessions[s].list), Covers(sessions[s].list[i], p), i # 1
                   PROVE  Listing(rest, p)
        BY <3>4 DEF InList, Listing
      <4>1. i - 1 \in 1 .. Len(rest) /\ (i - 1) + 1 = i
        BY <3>4
      <4>2. rest[i - 1] = sessions[s].list[i]
        BY <3>4, <4>1
      <4> QED BY <4>1, <4>2 DEF Listing
    <3> QED BY <2>5, <2>6, <2>7, <2>8, <3>6, <3>7, <3>8, <3>9 DEF Somewhere
  <2>10. CASE Written(s)
    <3>1. r = WrittenBy(s)
      <4>1. sessions'[s] = WrittenBy(s)
        BY <1>0, <2>10, SessionKeeps
      <4> QED BY <2>1, <4>1
    <3>2. r.list = sessions[s].list /\ r.client = c
      BY <1>0, <2>5, <3>1, SessionFields DEF SessionRecord, WrittenBy
    <3>3. InList(s, p) => InList(s, p)'
      BY <2>1, <3>2 DEF InList, Listing, Covers
    <3>4. InBuffer(s, p) => InOut(s, p)'
      <4> SUFFICES ASSUME archive[p] \in ToSet(sessions[s].buf) PROVE archive[p] \in ToSet(out'[c])
        BY <1>3, <2>1, <3>2 DEF InBuffer, InOut
      <4>1. PICK a, b, ab : a = out[c] /\ b = sessions[s].buf /\ ab = out'[c]
        OBVIOUS
      <4>2. a \in Seq(Unit) /\ b \in Seq(Unit) /\ ab = a \o b
        BY <1>0, <1>6, <2>5, <2>10, <4>1, SessionFields DEF PeersTyped
      <4>3. /\ ab \in Seq(Unit) /\ Len(ab) = Len(a) + Len(b) /\ Len(a) \in Nat /\ Len(b) \in Nat
            /\ \A i \in 1 .. Len(a) + Len(b) : ab[i] = IF i <= Len(a) THEN a[i] ELSE b[i - Len(a)]
        BY <4>2, ConcatProperties, LenProperties
      <4>4. DOMAIN b = 1 .. Len(b) /\ DOMAIN ab = 1 .. Len(ab)
        BY <4>2, <4>3, LenProperties
      <4>5. PICK i \in 1 .. Len(b) : archive[p] = b[i]
        BY <4>1, <4>4 DEF ToSet
      <4>6. Len(a) + i \in 1 .. Len(ab) /\ ab[Len(a) + i] = b[i]
        <5>1. /\ Len(a) + i \in 1 .. Len(a) + Len(b) /\ ~(Len(a) + i <= Len(a))
              /\ (Len(a) + i) - Len(a) = i
          BY <4>3
        <5>2. ab[Len(a) + i] = b[(Len(a) + i) - Len(a)]
          BY <4>3, <5>1
        <5> QED BY <4>3, <5>1, <5>2
      <4> QED BY <4>1, <4>4, <4>5, <4>6 DEF ToSet
    <3> QED BY <2>5, <2>6, <2>7, <2>8, <3>3, <3>4 DEF Somewhere
  <2> QED BY <2>3, <2>9, <2>10
<1> QED BY <1>8, <1>9

\* A new session starts with all that the archive holds behind its start.
LEMMA AddKeepsAll ==
  ASSUME TypeInv, KeptInv, NEW a \in Client, AddClient(a), NEW c \in Client
  PROVE  KeptFor(c)'
<1>0. /\ FileTyped /\ SessionsTyped /\ RequestsTyped /\ request[a] # NoRequest
      /\ clients \in [Client -> {0} \cup SessionId]
      /\ Len(sessions) \in Nat /\ Len(archive) \in Nat
  BY LenProperties DEF TypeInv, ClientsTyped, FileTyped, SessionsTyped, AddClient
<1>1. /\ SessionsKept /\ Len(sessions') = Len(sessions) + 1
      /\ \A t \in 1 .. Len(sessions) : sessions'[t] = sessions[t]
      /\ sessions'[Len(sessions) + 1] = NewSession(a)
  BY <1>0, AddKeeps
<1>2. /\ clients' = [clients EXCEPT ![a] = Len(sessions) + 1]
      /\ archive' = archive /\ crossed' = crossed /\ helpers' = helpers /\ run' = run /\ out' = out
  BY <1>1 DEF AddClient
<1>3. CASE c # a
  <2>1. clients'[c] = clients[c]
    BY <1>0, <1>2, <1>3
  <2>2. clients[c] # 0 => sessions'[clients[c]] = sessions[clients[c]]
    BY <1>1 DEF TypeInv, ClientsTyped
  <2> QED BY <1>1, <1>2, <2>1, <2>2, UntouchedKept
<1>4. CASE c = a
  <2>1. PICK s \in Nat : s = clients'[c] /\ s = Len(sessions) + 1
    BY <1>0, <1>2, <1>4
  <2>2. sessions'[s] = NewSession(a) /\ NewSession(a).from \in Nat
    BY <1>0, <1>1, <2>1, NewList
  <2> SUFFICES ASSUME NEW p \in NewSession(a).from + 1 .. Len(archive) PROVE InList(s, p)'
    BY <1>2, <2>1, <2>2 DEF KeptFor, Somewhere, InOut, InBuffer, InList, InHelpers, InRun
  <2>3. PICK to \in Nat : Len(archive) <= to /\ Follows(NewSession(a).list, NewSession(a).from, to)
    BY <1>0, NewList
  <2>4. PICK from \in Nat, list \in {NewSession(a).list} : from = NewSession(a).from
    BY <2>2
  <2>5. p \in from + 1 .. to /\ Follows(list, from, to)
    BY <1>0, <2>3, <2>4
  <2>6. PICK i \in 1 .. Len(list) : list[i].start < p /\ p <= list[i].start + list[i].length
    BY <2>5, FollowsCovers
  <2>7. list[i].kind = "file"
    <3>1. list[i] \in FileChunks
      BY <2>5, ElementOfSeq DEF Follows
    <3> QED BY <3>1 DEF FileChunks
  <2> QED BY <2>2, <2>4, <2>6, <2>7 DEF InList, Listing, Covers
<1> QED BY <1>3, <1>4

LEMMA PruneKeepsAll == TypeInv /\ Prune => KeptInv'
<1> SUFFICES ASSUME TypeInv, Prune, NEW c \in Client, clients'[c] # 0 PROVE KeptFor(c)'
  BY DEF KeptInv, KeptFor
<1>1. clients'[c] = clients[c] /\ clients[c] \in 1 .. Len(sessions) /\ SessionsTyped
  BY DEF Prune, TypeInv, ClientsTyped
<1>2. sessions'[clients[c]].from = sessions[clients[c]].from /\ sessions[clients[c]].from \in Nat
  BY <1>1, AllChanged, SessionFields
<1>3. Len(archive') = 0
  BY DEF Prune
<1>4. sessions'[clients'[c]].from + 1 .. Len(archive') = {}
  BY <1>1, <1>2, <1>3
<1> QED BY <1>4 DEF KeptFor

LEMMA KeptStep == TypeInv /\ RunInv /\ BuffersInv /\ KeptInv /\ [Next]_vars => KeptInv'
<1> SUFFICES ASSUME TypeInv, RunInv, BuffersInv, KeptInv, [Next]_vars PROVE KeptInv'
  OBVIOUS
<1>0. SessionsKept /\ clients \in [Client -> {0} \cup SessionId] /\ out \in [Client -> Seq(Unit)]
      /\ DOMAIN sessions = 1 .. Len(sessions)
  BY StepIsTyped, LenProperties DEF TypeInv, ClientsTyped, PeersTyped, SessionsTyped
<1>1. ASSUME \/ TakeWrite \/ TakeSend \/ (\E c \in Client : TakeSingle(c)) \/ SingleTimesOut \/ Returns
             \/ \E c \in Client : ArchiveRequest(c) \/ RemoveClient(c) \/ Disconnect(c)
             \/ Close \/ RemoveFile \/ LateSync \/ RemoveAllClients \/ UNCHANGED vars
      PROVE  KeptInv'
  <2>1. out' = out /\ archive' = archive /\ crossed' = crossed /\ helpers \subseteq helpers'
        /\ (run' = run \/ run.at # "spread")
        /\ (sessions' = sessions \/ \E c \in Client : Disconnect(c))
    BY <1>1 DEF TakeWrite, TakeSend, TakeSingle, SingleTimesOut, Returns, HandOver, ArchiveRequest,
                RemoveClient, Disconnect, Close, RemoveFile, LateSync, RemoveAllClients, vars
  <2>2. \A c \in Client : clients'[c] = 0 \/ clients'[c] = clients[c]
    BY <1>0, <1>1 DEF TakeWrite, TakeSend, TakeSingle, SingleTimesOut, Returns, ArchiveRequest,
                RemoveClient, Without, Disconnect, Close, RemoveFile, LateSync, RemoveAllClients, vars
  <2> QED BY <1>0, <2>1, <2>2, QuietKeeps
<1>2. ASSUME NEW c \in Client, DirectSend(c) PROVE KeptInv'
  <2>1. /\ sessions' = sessions /\ clients' = clients /\ archive' = archive /\ crossed' = crossed
        /\ helpers' = helpers /\ run' = run
    BY <1>2 DEF DirectSend
  <2>2. \A d \in Client : ToSet(out[d]) \subseteq ToSet(out'[d])
    <3> SUFFICES ASSUME NEW d \in Client PROVE ToSet(out[d]) \subseteq ToSet(out'[d])
      OBVIOUS
    <3>1. frames' \in 1 .. MaxFrames
      BY <1>2, CountersArrive DEF DirectSend, ending
    <3>2. PICK unit \in Unit : unit = <<frames', 1, 1>>
      <4>1. <<frames', 1, 1>> \in Unit
        BY <3>1, RadioAssumption DEF Unit
      <4> QED BY <4>1
    <3>3. PICK a \in Seq(Unit), b \in Seq(Unit) : a = out[d] /\ b = out'[d] /\ (b = a \/ b = Append(a, unit))
      <4>1. out'[d] = out[d] \/ out'[d] = Append(out[d], unit)
        BY <1>0, <1>2, <3>2 DEF DirectSend
      <4>2. out[d] \in Seq(Unit) /\ Append(out[d], unit) \in Seq(Unit)
        BY <1>0, AppendProperties
      <4> QED BY <4>1, <4>2
    <3>4. \A i \in 1 .. Len(a) : i \in 1 .. Len(b) /\ b[i] = a[i]
      <4>1. CASE b = a
        BY <4>1
      <4>2. CASE b = Append(a, unit)
        BY <4>2, AppendProperties, LenProperties
      <4> QED BY <3>3, <4>1, <4>2
    <3>5. DOMAIN a = 1 .. Len(a) /\ DOMAIN b = 1 .. Len(b)
      BY LenProperties
    <3> QED BY <3>3, <3>4, <3>5 DEF ToSet
  <2> QED BY <1>0, <2>1, <2>2, QuietKeeps
<1>3. CASE Record \/ Spread
  BY <1>3, RecordKeeps, SpreadKeeps
<1>4. CASE SingleSent
  <2>1. run.frame \in 1 .. MaxFrames /\ run.to \in 1 .. Len(sessions) /\ run.at = "single"
    BY <1>4, RunFields DEF SingleSent
  <2>2. RAMFrame(run.frame) \in Chunk
    BY <2>1, FrameTyped
  <2> QED BY <1>4, <2>1, <2>2, ReceiveKeepsAll DEF SingleSent
<1>5. ASSUME NEW h \in helpers, HelperDelivers(h) PROVE KeptInv'
  <2>1. h.to \in 1 .. Len(sessions) /\ h.chunk \in Chunk
    BY DEF TypeInv, HelpersTyped, HelperRecord
  <2>2. \A g \in helpers : g \in helpers' \/ (g.to = h.to /\ g.chunk = h.chunk)
    BY <1>5 DEF HelperDelivers
  <2> QED BY <1>5, <2>1, <2>2, ReceiveKeepsAll DEF HelperDelivers
<1>6. ASSUME NEW h \in helpers, HelperTimesOut(h) PROVE KeptInv'
  BY <1>0, <1>6, TimeoutKeeps DEF KeptInv, KeptFor
<1>7. ASSUME NEW s \in 1 .. Len(sessions), Session(s) PROVE KeptInv'
  BY <1>7, SessionStepKeeps DEF KeptInv, KeptFor
<1>8. ASSUME NEW a \in Client, AddClient(a) PROVE KeptInv'
  BY <1>8, AddKeepsAll DEF KeptInv, KeptFor
<1>9. CASE Prune
  BY <1>9, PruneKeepsAll
<1>10. CASE UNCHANGED vars
  BY <1>1, <1>10
<1>11. CASE Next
  <2>1. CASE Run
    BY <1>1, <1>3, <1>4, <2>1 DEF Run
  <2>2. CASE \E h \in helpers : HelperDelivers(h) \/ HelperTimesOut(h)
    BY <1>5, <1>6, <2>2
  <2>3. CASE \E s \in DOMAIN sessions : Session(s)
    BY <1>0, <1>7, <2>3
  <2>4. CASE \E c \in Client : \/ ArchiveRequest(c) \/ AddClient(c) \/ RemoveClient(c)
                               \/ DirectSend(c) \/ Disconnect(c)
    BY <1>1, <1>2, <1>8, <2>4
  <2>5. CASE Prune \/ Close \/ RemoveFile \/ LateSync \/ RemoveAllClients
    BY <1>1, <1>9, <2>5
  <2> QED BY <1>11, <2>1, <2>2, <2>3, <2>4, <2>5 DEF Next
<1> QED BY <1>10, <1>11

\* No byte recorded behind a subscribed client's start is ever forgotten on its
\* way, for any clients and traffic, however the run goroutine, the helpers that
\* give up, kicks, new subscriptions and clearalls come: but for a package that
\* a clearall finds between its position and its write.
THEOREM NothingIsForgotten == Spec => []NothingForgotten
<1> DEFINE Inv == TypeInv /\ RunInv /\ BuffersInv /\ KeptInv
<1>1. Init => Inv
  <2> SUFFICES ASSUME Init PROVE Inv
    OBVIOUS
  <2>1. RunInv /\ BuffersInv /\ KeptInv
    BY DEF Init, Idle, RunInv, BuffersInv, KeptInv
  <2> QED BY <2>1, InitIsTyped
<1>2. Inv /\ [Next]_vars => Inv'
  BY StepIsTyped, RunStep, BuffersStep, KeptStep
<1>3. Inv => NothingForgotten
  BY KeptIsNothingForgotten
<1> QED BY <1>1, <1>2, <1>3, PTL DEF Spec

-----------------------------------------------------------------------------
(* No package is torn, as long as nothing but one session writes to each   *)
(* socket, nothing is cleared, and what is asked for are whole packages.   *)

Whole(pos) == \E k \in Nat : pos = FrameLength * k

Undisturbed ==
  /\ ~AsksAgain
  /\ "direct" \notin Traffic
  /\ MaxPrunes = 0
  /\ \A asked \in Asked : Whole(asked)

LEMMA Products ==
  ASSUME NEW b \in Nat \ {0}, NEW j \in Nat, NEW k \in Nat
  PROVE  /\ b * j \in Nat /\ b * (j + k) = b * j + b * k
         /\ j < k => b * j + b <= b * k
         /\ b * 0 = 0 /\ b * 1 = b
<1>1. b * j \in Nat /\ b * k \in Nat
  BY SMT
<1>2. b * (j + k) = b * j + b * k
  BY SMT
<1>3. ASSUME j < k PROVE b * j + b <= b * k
  <2>1. PICK d \in Nat : k = j + 1 + d
    <3>1. k - j - 1 \in Nat /\ k = j + 1 + (k - j - 1)
      BY <1>3
    <3> QED BY <3>1
  <2>2. b * d \in Nat /\ b * (j + 1 + d) = b * j + b + b * d
    BY SMT
  <2> QED BY <1>1, <2>1, <2>2
<1> QED BY <1>1, <1>2, <1>3

LEMMA WholeSums ==
  /\ Whole(0) /\ Whole(FrameLength)
  /\ \A x, y : Whole(x) /\ Whole(y) => x \in Nat /\ y \in Nat /\ Whole(x + y)
<1>1. FrameLength \in Nat \ {0}
  BY RadioAssumption
<1>2. Whole(0) /\ Whole(FrameLength)
  <2>1. FrameLength * 0 = 0 /\ FrameLength * 1 = FrameLength
    BY <1>1
  <2> QED BY <2>1 DEF Whole
<1>3. ASSUME NEW x, NEW y, Whole(x), Whole(y) PROVE x \in Nat /\ y \in Nat /\ Whole(x + y)
  <2>1. PICK j \in Nat : x = FrameLength * j
    BY <1>3 DEF Whole
  <2>2. PICK k \in Nat : y = FrameLength * k
    BY <1>3 DEF Whole
  <2>3. x \in Nat /\ y \in Nat /\ FrameLength * (j + k) = x + y
    BY <1>1, <2>1, <2>2, Products
  <2>4. j + k \in Nat
    OBVIOUS
  <2> QED BY <2>3, <2>4 DEF Whole
<1> QED BY <1>2, <1>3

\* There is no boundary inside a package.
LEMMA WholeGap ==
  ASSUME NEW x, Whole(x), NEW i \in 1 .. FrameLength
  PROVE  x \in Nat /\ (Whole(x + i) <=> i = FrameLength)
<1>1. FrameLength \in Nat \ {0} /\ x \in Nat
  BY RadioAssumption, WholeSums
<1>2. PICK j \in Nat : x = FrameLength * j
  BY DEF Whole
<1>3. Whole(x + FrameLength)
  BY WholeSums
<1>4. ASSUME Whole(x + i), i < FrameLength PROVE FALSE
  <2>1. PICK k \in Nat : x + i = FrameLength * k
    BY <1>4 DEF Whole
  <2>2. FrameLength * j \in Nat /\ FrameLength * k \in Nat
    BY <1>1, Products
  <2>3. CASE j < k
    <3>1. FrameLength * j + FrameLength <= FrameLength * k
      BY <1>1, <2>3, Products
    <3> QED BY <1>1, <1>2, <1>4, <2>1, <2>2, <3>1
  <2>4. CASE k < j
    <3>1. FrameLength * k + FrameLength <= FrameLength * j
      BY <1>1, <2>4, Products
    <3> QED BY <1>1, <1>2, <1>4, <2>1, <2>2, <3>1
  <2>5. CASE k = j
    BY <1>1, <1>2, <1>4, <2>1, <2>2, <2>5
  <2> QED BY <2>3, <2>4, <2>5
<1> QED BY <1>1, <1>3, <1>4

\* v may come after u.
NextUnit(u, v) ==
  /\ v[2] = (IF u[2] = u[3] THEN 1 ELSE u[2] + 1)
  /\ u[2] # u[3] => v[1] = u[1]

\* The archive is made of whole packages.
ArchiveInv ==
  /\ Whole(Len(archive))
  /\ \A p \in 1 .. Len(archive) :
       /\ archive[p][3] = FrameLength
       /\ Whole(p) <=> archive[p][2] = FrameLength
       /\ Whole(p - 1) => archive[p][2] = 1
  /\ \A p \in 1 .. Len(archive) - 1 : NextUnit(archive[p], archive[p + 1])

LEMMA RecordMakesWhole ==
  ASSUME FileTyped, ArchiveInv, NEW f \in 1 .. MaxFrames, archive' = archive \o DataFrame(f)
  PROVE  /\ ArchiveInv' /\ Len(archive) <= Len(archive')
         /\ \A p \in 1 .. Len(archive) : archive'[p] = archive[p]
<1>1. PICK n \in Nat : n = Len(archive)
  BY LenProperties DEF FileTyped
<1>2. PICK frame \in Seq(Unit) : frame = DataFrame(f) /\ Len(frame) = FrameLength
  BY FrameTyped
<1>3. \A i \in 1 .. FrameLength : frame[i] = <<f, i, FrameLength>>
  BY <1>2 DEF DataFrame
<1>4. PICK longer : longer = archive'
  OBVIOUS
<1>5. /\ Len(longer) = n + FrameLength
      /\ \A p \in 1 .. n + FrameLength : longer[p] = IF p <= n THEN archive[p] ELSE frame[p - n]
  <2>1. /\ Len(archive \o frame) = n + FrameLength
        /\ \A p \in 1 .. n + FrameLength :
             (archive \o frame)[p] = IF p <= n THEN archive[p] ELSE frame[p - n]
    BY <1>1, <1>2, ConcatProperties DEF FileTyped
  <2> QED BY <1>2, <1>4, <2>1
<1>6. FrameLength \in Nat \ {0} /\ Whole(n)
  BY <1>1, RadioAssumption DEF ArchiveInv
<1>7. \A p \in 1 .. n : longer[p] = archive[p]
  BY <1>5, <1>6
<1>8. \A i \in 1 .. FrameLength : longer[n + i] = <<f, i, FrameLength>>
  <2> SUFFICES ASSUME NEW i \in 1 .. FrameLength PROVE longer[n + i] = <<f, i, FrameLength>>
    OBVIOUS
  <2>1. n + i \in 1 .. n + FrameLength /\ ~(n + i <= n) /\ (n + i) - n = i
    BY <1>6
  <2> QED BY <1>3, <1>5, <2>1
<1>9. Whole(n + FrameLength)
  BY <1>6, WholeSums
<1>10. ASSUME NEW p \in 1 .. n + FrameLength
       PROVE  /\ longer[p][3] = FrameLength
              /\ Whole(p) <=> longer[p][2] = FrameLength
              /\ Whole(p - 1) => longer[p][2] = 1
  <2>1. CASE p <= n
    BY <1>1, <1>7, <2>1 DEF ArchiveInv
  <2>2. CASE ~(p <= n)
    <3>1. PICK i \in 1 .. FrameLength : p = n + i
      <4>1. p - n \in 1 .. FrameLength /\ p = n + (p - n)
        BY <1>6, <2>2
      <4> QED BY <4>1
    <3>2. longer[p] = <<f, i, FrameLength>>
      BY <1>8, <3>1
    <3>3. Whole(p) <=> i = FrameLength
      BY <1>6, <3>1, WholeGap
    <3>4. Whole(p - 1) => i = 1
      <4> SUFFICES ASSUME Whole(p - 1), i # 1 PROVE FALSE
        OBVIOUS
      <4>1. PICK j \in 1 .. FrameLength : j = i - 1 /\ p - 1 = n + j /\ j # FrameLength
        <5>1. i - 1 \in 1 .. FrameLength /\ p - 1 = n + (i - 1) /\ i - 1 # FrameLength
          BY <1>6, <3>1
        <5> QED BY <5>1
      <4> QED BY <1>6, <4>1, WholeGap
    <3> QED BY <3>2, <3>3, <3>4
  <2> QED BY <2>1, <2>2
<1>11. ASSUME NEW p \in 1 .. n + FrameLength - 1 PROVE NextUnit(longer[p], longer[p + 1])
  <2>1. CASE p < n
    <3>1. p \in 1 .. n - 1 /\ p \in 1 .. n /\ p + 1 \in 1 .. n
      BY <2>1
    <3> QED BY <1>1, <1>7, <3>1 DEF ArchiveInv
  <2>2. CASE p = n
    <3>1. n \in 1 .. n /\ longer[n] = archive[n] /\ archive[n][2] = archive[n][3]
      BY <1>1, <1>6, <1>7, <2>2 DEF ArchiveInv
    <3>2. 1 \in 1 .. FrameLength /\ longer[n + 1] = <<f, 1, FrameLength>>
      BY <1>6, <1>8
    <3> QED BY <2>2, <3>1, <3>2 DEF NextUnit
  <2>3. CASE p > n
    <3>1. PICK i \in 1 .. FrameLength : p = n + i /\ i + 1 \in 1 .. FrameLength /\ p + 1 = n + (i + 1)
                                        /\ i # FrameLength
      <4>1. /\ p - n \in 1 .. FrameLength /\ p = n + (p - n) /\ (p - n) + 1 \in 1 .. FrameLength
            /\ p + 1 = n + ((p - n) + 1) /\ p - n # FrameLength
        BY <1>6, <2>3
      <4> QED BY <4>1
    <3>2. longer[p] = <<f, i, FrameLength>> /\ longer[p + 1] = <<f, i + 1, FrameLength>>
      BY <1>8, <3>1
    <3> QED BY <3>1, <3>2 DEF NextUnit
  <2> QED BY <2>1, <2>2, <2>3
<1>12. ArchiveInv'
  <2>1. Whole(Len(archive'))
    BY <1>4, <1>5, <1>9
  <2>2. Len(archive') = n + FrameLength
    BY <1>4, <1>5
  <2>3. \A p \in 1 .. Len(archive') :
          /\ archive'[p][3] = FrameLength
          /\ Whole(p) <=> archive'[p][2] = FrameLength
          /\ Whole(p - 1) => archive'[p][2] = 1
    BY <1>4, <1>10, <2>2
  <2>4. \A p \in 1 .. Len(archive') - 1 : NextUnit(archive'[p], archive'[p + 1])
    <3> SUFFICES ASSUME NEW p \in 1 .. Len(archive') - 1 PROVE NextUnit(archive'[p], archive'[p + 1])
      OBVIOUS
    <3>1. p \in 1 .. n + FrameLength - 1
      BY <1>6, <2>2
    <3>2. NextUnit(longer[p], longer[p + 1])
      BY <1>11, <3>1
    <3> QED BY <1>4, <3>2
  <2> QED BY <2>1, <2>3, <2>4 DEF ArchiveInv, Whole, NextUnit
<1>13. n <= n + FrameLength
  BY <1>6
<1> QED BY <1>1, <1>4, <1>5, <1>7, <1>12, <1>13

\* What is written to a socket, one unit behind the other.
Chained(stream) ==
  /\ stream # << >> => stream[1][2] = 1
  /\ \A k \in 1 .. Len(stream) - 1 : NextUnit(stream[k], stream[k + 1])

LEMMA ChainedConcat ==
  ASSUME NEW s \in Seq(Unit), NEW t \in Seq(Unit), Chained(s),
         \A k \in 1 .. Len(t) - 1 : NextUnit(t[k], t[k + 1]),
         t # << >> => IF s = << >> THEN t[1][2] = 1 ELSE NextUnit(s[Len(s)], t[1])
  PROVE  Chained(s \o t)
<1>1. PICK m \in Nat, n \in Nat : m = Len(s) /\ n = Len(t)
  BY LenProperties
<1>2. PICK u : u = s \o t
  OBVIOUS
<1>3. /\ u \in Seq(Unit) /\ Len(u) = m + n
      /\ \A k \in 1 .. m + n : u[k] = IF k <= m THEN s[k] ELSE t[k - m]
  BY <1>1, <1>2, ConcatProperties
<1>4. (s = << >> <=> m = 0) /\ (t = << >> <=> n = 0) /\ (u = << >> <=> m + n = 0)
  BY <1>1, <1>3, EmptySeq
<1>5. ASSUME m + n # 0 PROVE u[1][2] = 1
  <2>1. CASE m # 0
    BY <1>3, <1>4, <2>1 DEF Chained
  <2>2. CASE m = 0
    <3>1. 1 \in 1 .. m + n /\ 1 - m = 1 /\ ~(1 <= m)
      BY <1>5, <2>2
    <3>2. u[1] = t[1]
      BY <1>3, <3>1
    <3> QED BY <1>4, <1>5, <2>2, <3>2
  <2> QED BY <2>1, <2>2
<1>6. ASSUME NEW k \in 1 .. m + n - 1 PROVE NextUnit(u[k], u[k + 1])
  <2>1. CASE k < m
    <3>1. k \in 1 .. m - 1 /\ u[k] = s[k] /\ u[k + 1] = s[k + 1]
      BY <1>3, <2>1
    <3> QED BY <1>1, <3>1 DEF Chained
  <2>2. CASE k = m
    <3>1. u[k] = s[m] /\ u[k + 1] = t[1] /\ m # 0 /\ n # 0
      <4>1. k \in 1 .. m + n /\ k + 1 \in 1 .. m + n /\ (k + 1) - m = 1 /\ ~(k + 1 <= m)
        BY <2>2
      <4> QED BY <1>3, <2>2, <4>1
    <3> QED BY <1>1, <1>4, <3>1
  <2>3. CASE k > m
    <3>1. PICK j \in 1 .. n - 1 : k = m + j
      <4>1. k - m \in 1 .. n - 1 /\ k = m + (k - m)
        BY <2>3
      <4> QED BY <4>1
    <3>2. u[k] = t[j] /\ u[k + 1] = t[j + 1]
      <4>1. /\ k \in 1 .. m + n /\ k + 1 \in 1 .. m + n
            /\ ~(k <= m) /\ ~(k + 1 <= m)
        BY <2>3
      <4>2. u[k] = t[k - m] /\ u[k + 1] = t[(k + 1) - m]
        BY <1>3, <4>1
      <4>3. k - m = j /\ (k + 1) - m = j + 1
        BY <3>1
      <4> QED BY <4>2, <4>3
    <3> QED BY <1>1, <3>2
  <2> QED BY <2>1, <2>2, <2>3
<1>7. Chained(u)
  <2>1. Len(u) = m + n
    BY <1>3
  <2>2. u # << >> => u[1][2] = 1
    BY <1>4, <1>5
  <2> QED BY <1>6, <2>1, <2>2 DEF Chained
<1> QED BY <1>2, <1>7

-----------------------------------------------------------------------------
(* The queues.                                                             *)

StartsWhole(chunk) == chunk.kind = "file" => Whole(chunk.start)
EndsWhole(chunk)   == chunk.kind = "file" => Whole(chunk.start + chunk.length)
IsPackage(chunk)   == chunk.kind = "ram" => chunk.data[2] = 1 /\ chunk.data[3] = 1

\* b goes on where a ends, or both do so between packages.
Joins(a, b) ==
  \/ a.kind = "file" /\ b.kind = "file" /\ a.start + a.length = b.start
  \/ EndsWhole(a) /\ StartsWhole(b)

Linked(list) ==
  /\ \A i \in 1 .. Len(list) : IsPackage(list[i])
  /\ \A i \in 1 .. Len(list) - 1 : Joins(list[i], list[i + 1])

ListInv(list) == Linked(list) /\ (list # << >> => EndsWhole(list[Len(list)]))

\* A stream that ends at pos of the archive, or between packages if pos is such
\* a position.
EndsAt(stream, pos) ==
  IF Whole(pos) THEN stream # << >> => stream[Len(stream)][2] = stream[Len(stream)][3]
  ELSE stream # << >> /\ pos \in 1 .. Len(archive) /\ stream[Len(stream)] = archive[pos]

\* The list takes it up from there.
GoesOn(pos, list) ==
  IF list = << >> THEN Whole(pos)
  ELSE \/ Whole(pos) /\ StartsWhole(list[1])
       \/ list[1].kind = "file" /\ list[1].start = pos

\* The next chunk of a list continues the stream.
LEMMA FetchGoesOn ==
  ASSUME FileTyped, ArchiveInv, NEW stream \in Seq(Unit), Chained(stream),
         NEW pos \in Nat, EndsAt(stream, pos),
         NEW list \in Seq(Chunk), list # << >>, ListInv(list), GoesOn(pos, list), Readable(list[1])
  PROVE  /\ Chained(stream \o Bytes(list[1])) /\ ListInv(Tail(list))
         /\ \E next \in Nat : EndsAt(stream \o Bytes(list[1]), next) /\ GoesOn(next, Tail(list))
<1>1. PICK n \in Nat, N \in Nat : n + 1 = Len(list) /\ N = Len(archive)
  <2>1. Len(list) \in Nat /\ Len(list) # 0 /\ Len(archive) \in Nat
    BY LenProperties, EmptySeq DEF FileTyped
  <2>2. Len(list) - 1 \in Nat /\ (Len(list) - 1) + 1 = Len(list)
    BY <2>1
  <2> QED BY <2>1, <2>2
<1>2. PICK head, rest : head = list[1] /\ rest = Tail(list)
  OBVIOUS
<1>3. /\ head \in Chunk /\ rest \in Seq(Chunk) /\ Len(rest) = n
      /\ \A i \in 1 .. n : rest[i] = list[i + 1]
      /\ (rest = << >> <=> n = 0)
  <2>1. /\ Tail(list) \in Seq(Chunk) /\ Len(Tail(list)) = Len(list) - 1
        /\ \A i \in 1 .. Len(Tail(list)) : Tail(list)[i] = list[i + 1]
    BY HeadTailProperties
  <2>2. Len(Tail(list)) = n /\ 1 \in 1 .. Len(list)
    BY <1>1, <2>1
  <2>3. list[1] \in Chunk
    BY <2>2, ElementOfSeq
  <2> QED BY <1>2, <2>1, <2>2, <2>3, EmptySeq
<1>4. ListInv(rest)
  <2>1. \A i \in 1 .. n : IsPackage(rest[i])
    <3> SUFFICES ASSUME NEW i \in 1 .. n PROVE IsPackage(rest[i])
      OBVIOUS
    <3>1. i + 1 \in 1 .. n + 1 /\ rest[i] = list[i + 1]
      BY <1>3
    <3>2. IsPackage(list[i + 1])
      BY <1>1, <3>1 DEF ListInv, Linked
    <3> QED BY <3>1, <3>2
  <2>2. \A i \in 1 .. n - 1 : Joins(rest[i], rest[i + 1])
    <3> SUFFICES ASSUME NEW i \in 1 .. n - 1 PROVE Joins(rest[i], rest[i + 1])
      OBVIOUS
    <3>1. PICK j \in 1 .. n : j = i + 1 /\ i \in 1 .. n
      OBVIOUS
    <3>2. rest[i] = list[j] /\ rest[j] = list[j + 1]
      BY <1>3, <3>1
    <3>3. \A k \in 1 .. Len(list) - 1 : Joins(list[k], list[k + 1])
      BY DEF ListInv, Linked
    <3>4. j \in 1 .. Len(list) - 1
      BY <1>1, <3>1
    <3> QED BY <3>1, <3>2, <3>3, <3>4
  <2>3. n # 0 => EndsWhole(rest[n])
    <3>1. EndsWhole(list[n + 1])
      BY <1>1 DEF ListInv, Linked
    <3>2. n # 0 => n \in 1 .. n
      OBVIOUS
    <3> QED BY <1>3, <3>1, <3>2
  <2> QED BY <1>3, <2>1, <2>2, <2>3 DEF ListInv, Linked
<1>5. n = 0 => EndsWhole(head)
  BY <1>1, <1>2 DEF ListInv, Linked
<1>6. n # 0 => Joins(head, rest[1])
  BY <1>1, <1>2, <1>3 DEF ListInv, Linked
<1>7. PICK bytes \in Seq(Unit) : bytes = Bytes(head)
  BY <1>2, <1>3, BytesTyped
<1>8. PICK whole : whole = stream \o bytes
  OBVIOUS
<1>9. stream = << >> \/ (Len(stream) \in 1 .. Len(stream) /\ stream[Len(stream)] \in Unit)
  BY EmptySeq, ElementOfSeq
<1>10. Whole(0)
  BY WholeSums
<1> DEFINE Goal == /\ Chained(whole)
                   /\ \E next \in Nat : EndsAt(whole, next) /\ GoesOn(next, rest)
<1>11. ASSUME head.kind = "ram" PROVE Goal
  <2>1. bytes = <<head.data>> /\ head.data[2] = 1 /\ head.data[3] = 1 /\ head.data \in Unit
    BY <1>1, <1>2, <1>3, <1>7, <1>11 DEF Bytes, ListInv, Linked, IsPackage, Chunk
  <2>2. Whole(pos)
    BY <1>2, <1>11 DEF GoesOn
  <2>3. Chained(whole)
    <3>1. stream # << >> => NextUnit(stream[Len(stream)], bytes[1])
      BY <2>1, <2>2 DEF EndsAt, NextUnit
    <3>2. Len(bytes) = 1 /\ bytes[1][2] = 1
      BY <2>1
    <3>3. \A k \in 1 .. Len(bytes) - 1 : NextUnit(bytes[k], bytes[k + 1])
      BY <3>2
    <3> QED BY <1>8, <3>1, <3>2, <3>3, ChainedConcat
  <2>4. EndsAt(whole, 0)
    <3>1. Len(whole) = Len(stream) + 1 /\ whole[Len(stream) + 1] = head.data
      <4>1. /\ Len(bytes) = 1 /\ bytes[1] = head.data /\ Len(stream) \in Nat
            /\ Len(whole) = Len(stream) + Len(bytes)
            /\ \A i \in 1 .. Len(stream) + Len(bytes) :
                 whole[i] = IF i <= Len(stream) THEN stream[i] ELSE bytes[i - Len(stream)]
        BY <1>8, <2>1, ConcatProperties, LenProperties
      <4> QED BY <4>1
    <3> QED BY <1>10, <2>1, <3>1 DEF EndsAt
  <2>5. GoesOn(0, rest)
    <3>1. n # 0 => StartsWhole(rest[1])
      BY <1>6, <1>11 DEF Joins
    <3> QED BY <1>3, <1>10, <3>1 DEF GoesOn
  <2> QED BY <2>3, <2>4, <2>5
<1>12. ASSUME head.kind = "file" PROVE Goal
  <2>1. PICK a \in Nat, l \in Nat \ {0} : a = head.start /\ l = head.length
    BY <1>3, <1>12 DEF Chunk
  <2>2. bytes = SubSeq(archive, a + 1, a + l) /\ a + l <= N
    BY <1>1, <1>2, <1>7, <1>12, <2>1 DEF Readable, Bytes
  <2>3. Len(bytes) = l /\ \A i \in 1 .. l : bytes[i] = archive[a + i] /\ a + i \in 1 .. N
    <3>1. \A i \in a + 1 .. a + l : archive[i] \in Unit
      BY <1>1, <2>1, <2>2, ElementOfSeq DEF FileTyped
    <3>2. PICK b \in Int, e \in Int : b = a + 1 /\ e = a + l
      OBVIOUS
    <3>3. /\ Len(SubSeq(archive, b, e)) = IF b <= e THEN e - b + 1 ELSE 0
          /\ \A i \in 1 .. e - b + 1 : SubSeq(archive, b, e)[i] = archive[b + i - 1]
      BY <3>1, <3>2, SubSeqProperties
    <3>4. e - b + 1 = l /\ b <= e /\ a + l <= N
      BY <2>2, <3>2
    <3>5. ASSUME NEW i \in 1 .. l PROVE b + i - 1 = a + i /\ a + i \in 1 .. N
      BY <3>2, <3>4
    <3>6. bytes = SubSeq(archive, b, e)
      BY <2>2, <3>2
    <3> QED BY <3>3, <3>4, <3>5, <3>6
  <2>4. /\ \A p \in 1 .. N : /\ archive[p][3] = FrameLength
                             /\ Whole(p) <=> archive[p][2] = FrameLength
                             /\ Whole(p - 1) => archive[p][2] = 1
        /\ \A p \in 1 .. N - 1 : NextUnit(archive[p], archive[p + 1])
    BY <1>1 DEF ArchiveInv
  <2>5. \A i \in 1 .. l - 1 : NextUnit(bytes[i], bytes[i + 1])
    <3> SUFFICES ASSUME NEW i \in 1 .. l - 1 PROVE NextUnit(bytes[i], bytes[i + 1])
      OBVIOUS
    <3>0. a + l <= N
      BY <2>2
    <3>1. i \in 1 .. l /\ i + 1 \in 1 .. l /\ a + i \in 1 .. N - 1 /\ a + (i + 1) = (a + i) + 1
      BY <3>0
    <3>2. bytes[i] = archive[a + i] /\ bytes[i + 1] = archive[(a + i) + 1]
      <4>1. bytes[i] = archive[a + i] /\ bytes[i + 1] = archive[a + (i + 1)]
        BY <2>3, <3>1
      <4> QED BY <3>1, <4>1
    <3> QED BY <2>4, <3>1, <3>2
  <2>6. bytes[1] = archive[a + 1] /\ a + 1 \in 1 .. N /\ (a + 1) - 1 = a
    <3>1. 1 \in 1 .. l /\ (a + 1) - 1 = a
      BY <2>1
    <3> QED BY <2>3, <3>1
  <2>7. Whole(a) => bytes[1][2] = 1
    BY <2>4, <2>6
  <2>8. IF stream = << >> THEN bytes[1][2] = 1 ELSE NextUnit(stream[Len(stream)], bytes[1])
    <3>1. CASE Whole(pos)
      <4>1. Whole(a)
        BY <1>2, <1>12, <2>1, <3>1 DEF GoesOn, StartsWhole
      <4> QED BY <2>7, <3>1, <4>1 DEF EndsAt, NextUnit
    <3>2. CASE ~Whole(pos)
      <4>1. pos = a /\ stream # << >> /\ stream[Len(stream)] = archive[a] /\ a \in 1 .. N
        BY <1>1, <1>2, <2>1, <3>2 DEF GoesOn, EndsAt
      <4>2. a \in 1 .. N - 1
        BY <2>6, <4>1
      <4> QED BY <2>4, <2>6, <4>1, <4>2
    <3> QED BY <3>1, <3>2
  <2>9. Chained(whole)
    BY <1>8, <2>3, <2>5, <2>8, ChainedConcat
  <2>10. EndsAt(whole, a + l)
    <3>1. whole # << >> /\ whole[Len(whole)] = archive[a + l] /\ a + l \in 1 .. N
      <4>1. /\ Len(stream) \in Nat /\ Len(whole) = Len(stream) + l
            /\ \A i \in 1 .. Len(stream) + l :
                 whole[i] = IF i <= Len(stream) THEN stream[i] ELSE bytes[i - Len(stream)]
        <5>1. /\ Len(whole) = Len(stream) + Len(bytes)
              /\ \A i \in 1 .. Len(stream) + Len(bytes) :
                   whole[i] = IF i <= Len(stream) THEN stream[i] ELSE bytes[i - Len(stream)]
          BY <1>8, ConcatProperties
        <5>2. Len(bytes) = l
          BY <2>3
        <5>3. Len(stream) \in Nat
          BY LenProperties
        <5> QED BY <5>1, <5>2, <5>3
      <4>2. whole[Len(stream) + l] = bytes[l]
        <5>1. /\ Len(stream) + l \in 1 .. Len(stream) + l /\ ~(Len(stream) + l <= Len(stream))
              /\ (Len(stream) + l) - Len(stream) = l
          BY <2>1, <4>1
        <5> QED BY <4>1, <5>1
      <4>3. l \in 1 .. l
        BY <2>1
      <4>4. bytes[l] = archive[a + l] /\ a + l \in 1 .. N
        BY <2>3, <4>3
      <4>5. Len(whole) # 0
        BY <2>1, <4>1
      <4> QED BY <4>1, <4>2, <4>4, <4>5, EmptySeq
    <3> QED BY <1>1, <2>4, <3>1 DEF EndsAt
  <2>11. GoesOn(a + l, rest)
    <3>1. CASE n = 0
      BY <1>3, <1>5, <1>12, <2>1, <3>1 DEF GoesOn, EndsWhole
    <3>2. CASE n # 0
      <4>1. Joins(head, rest[1])
        BY <1>6, <3>2
      <4> QED BY <1>3, <1>12, <2>1, <3>2, <4>1 DEF GoesOn, Joins, EndsWhole
    <3> QED BY <3>1, <3>2
  <2>12. a + l \in Nat
    BY <2>1
  <2> QED BY <2>9, <2>10, <2>11, <2>12
<1>13. Goal
  BY <1>3, <1>11, <1>12 DEF Chunk
<1> QED BY <1>2, <1>4, <1>7, <1>8, <1>13

LEMMA ListConcat ==
  ASSUME NEW s \in Seq(Chunk), NEW t \in Seq(Chunk), Linked(s), Linked(t), t # << >>,
         EndsWhole(t[Len(t)]), s # << >> => Joins(s[Len(s)], t[1])
  PROVE  /\ ListInv(s \o t) /\ s \o t # << >>
         /\ (s \o t)[1] = IF s = << >> THEN t[1] ELSE s[1]
<1>1. PICK m \in Nat, n \in Nat : m = Len(s) /\ n = Len(t)
  BY LenProperties
<1>2. PICK u : u = s \o t
  OBVIOUS
<1>3. /\ u \in Seq(Chunk) /\ Len(u) = m + n
      /\ \A k \in 1 .. m + n : u[k] = IF k <= m THEN s[k] ELSE t[k - m]
  BY <1>1, <1>2, ConcatProperties
<1>4. (s = << >> <=> m = 0) /\ n # 0
  BY <1>1, EmptySeq
<1>5. \A j \in 1 .. n : m + j \in 1 .. m + n /\ u[m + j] = t[j]
  <2> SUFFICES ASSUME NEW j \in 1 .. n PROVE m + j \in 1 .. m + n /\ u[m + j] = t[j]
    OBVIOUS
  <2>1. m + j \in 1 .. m + n /\ ~(m + j <= m) /\ (m + j) - m = j
    OBVIOUS
  <2> QED BY <1>3, <2>1
<1>6. \A k \in 1 .. m : u[k] = s[k]
  BY <1>3
<1>7. ASSUME NEW k \in 1 .. m + n PROVE IsPackage(u[k])
  <2>1. CASE k <= m
    BY <1>1, <1>6, <2>1 DEF Linked
  <2>2. CASE ~(k <= m)
    <3>1. PICK j \in 1 .. n : k = m + j
      <4>1. k - m \in 1 .. n /\ k = m + (k - m)
        BY <2>2
      <4> QED BY <4>1
    <3> QED BY <1>1, <1>5, <3>1 DEF Linked
  <2> QED BY <2>1, <2>2
<1>8. ASSUME NEW k \in 1 .. m + n - 1 PROVE Joins(u[k], u[k + 1])
  <2>1. CASE k < m
    <3>1. k \in 1 .. m - 1 /\ k \in 1 .. m /\ k + 1 \in 1 .. m
      BY <2>1
    <3> QED BY <1>1, <1>6, <3>1 DEF Linked
  <2>2. CASE k = m
    <3>1. k \in 1 .. m /\ 1 \in 1 .. n /\ m # 0
      BY <1>4, <2>2
    <3> QED BY <1>1, <1>4, <1>5, <1>6, <2>2, <3>1
  <2>3. CASE k > m
    <3>1. PICK j \in 1 .. n - 1 : k = m + j
      <4>1. k - m \in 1 .. n - 1 /\ k = m + (k - m)
        BY <2>3
      <4> QED BY <4>1
    <3>2. j \in 1 .. n /\ j + 1 \in 1 .. n /\ k + 1 = m + (j + 1)
      BY <3>1
    <3>3. u[k] = t[j] /\ u[k + 1] = t[j + 1]
      BY <1>5, <3>1, <3>2
    <3> QED BY <1>1, <3>3 DEF Linked
  <2> QED BY <2>1, <2>2, <2>3
<1>9. Linked(u)
  BY <1>3, <1>7, <1>8 DEF Linked
<1>10. u # << >> /\ EndsWhole(u[Len(u)])
  <2>1. n \in 1 .. n /\ Len(u) # 0
    BY <1>3, <1>4
  <2> QED BY <1>1, <1>3, <1>5, <2>1, EmptySeq
<1>11. u[1] = IF s = << >> THEN t[1] ELSE s[1]
  <2>1. CASE m = 0
    <3>1. 1 \in 1 .. n /\ m + 1 = 1
      BY <1>4, <2>1
    <3>2. u[m + 1] = t[1]
      BY <1>5, <3>1
    <3> QED BY <1>4, <2>1, <3>1, <3>2
  <2>2. CASE m # 0
    <3>1. 1 \in 1 .. m
      BY <2>2
    <3> QED BY <1>4, <1>6, <2>2, <3>1
  <2> QED BY <2>1, <2>2
<1> QED BY <1>2, <1>9, <1>10, <1>11 DEF ListInv

\* Pieces of the file that follow each other make a list.
LEMMA FollowsLinked ==
  ASSUME NEW list, NEW from \in Nat, NEW to \in Nat, Follows(list, from, to)
  PROVE  /\ list \in Seq(Chunk) /\ Linked(list)
         /\ list # << >> => /\ list[1].kind = "file" /\ list[1].start = from
                            /\ list[Len(list)].kind = "file"
                            /\ list[Len(list)].start + list[Len(list)].length = to
<1>1. list \in Seq(FileChunks) /\ Len(list) \in Nat /\ list = [i \in 1 .. Len(list) |-> list[i]]
  BY LenProperties DEF Follows
<1>2. \A i \in 1 .. Len(list) : list[i] \in FileChunks
  BY <1>1, ElementOfSeq
<1>3. \A i \in 1 .. Len(list) : list[i] \in Chunk /\ list[i].kind = "file"
  BY <1>2 DEF Chunk, FileChunks
<1>4. list \in Seq(Chunk)
  BY <1>1, <1>3, IsASeq
<1>5. \A i \in 1 .. Len(list) : IsPackage(list[i])
  BY <1>3 DEF IsPackage
<1>6. ASSUME NEW i \in 1 .. Len(list) - 1 PROVE Joins(list[i], list[i + 1])
  <2>1. i \in 1 .. Len(list) /\ i + 1 \in 1 .. Len(list)
    BY <1>1
  <2>2. list[i + 1].start = list[i].start + list[i].length
    BY DEF Follows
  <2> QED BY <1>3, <2>1, <2>2 DEF Joins
<1>7. list # << >> => 1 \in 1 .. Len(list) /\ Len(list) \in 1 .. Len(list)
  BY <1>1, EmptySeq
<1> QED BY <1>3, <1>4, <1>5, <1>6, <1>7 DEF Linked, Follows

\* What is queued takes the stream up where the list did, if whole packages are.
LEMMA AppendGoesOn ==
  ASSUME NEW list \in Seq(Chunk), ListInv(list), NEW chunk \in Chunk,
         StartsWhole(chunk), EndsWhole(chunk), IsPackage(chunk)
  PROVE  /\ ListInv(appendToPendings(list, chunk))
         /\ \A pos : GoesOn(pos, list) => GoesOn(pos, appendToPendings(list, chunk))
<1> DEFINE longer == appendToPendings(list, chunk)
           Goal == ListInv(longer) /\ \A pos : GoesOn(pos, list) => GoesOn(pos, longer)
<1>1. ASSUME chunk.kind = "ram" PROVE Goal
  <2>1. chunk \in RAMChunks(Unit)
    BY <1>1 DEF Chunk, RAMChunks
  <2>2. PICK unit \in Seq(Chunk) : unit = <<chunk>> /\ Len(unit) = 1 /\ unit[1] = chunk
    <3>1. <<chunk>> \in Seq(Chunk) /\ Len(<<chunk>>) = 1 /\ <<chunk>>[1] = chunk
      OBVIOUS
    <3> QED BY <3>1
  <2>3. longer = list \o unit /\ unit # << >>
    BY <2>1, <2>2, AppendRAM, AppendIsConcat, ChunkIsChunksOf, EmptySeq
  <2>4. Linked(unit) /\ EndsWhole(unit[Len(unit)])
    <3>1. \A i \in 1 .. Len(unit) : i = 1
      BY <2>2
    <3>2. \A i \in 1 .. Len(unit) - 1 : FALSE
      BY <2>2
    <3> QED BY <2>2, <3>1, <3>2 DEF Linked
  <2>5. list # << >> => Joins(list[Len(list)], unit[1])
    BY <2>2 DEF Joins, ListInv
  <2>6. ListInv(longer) /\ longer # << >> /\ longer[1] = IF list = << >> THEN chunk ELSE list[1]
    <3>1. Linked(list)
      BY DEF ListInv
    <3> QED BY <2>2, <2>3, <2>4, <2>5, <3>1, ListConcat
  <2>7. ASSUME NEW pos, GoesOn(pos, list) PROVE GoesOn(pos, longer)
    BY <2>6, <2>7 DEF GoesOn
  <2> QED BY <2>6, <2>7
<1>2. ASSUME chunk.kind = "file" PROVE Goal
  <2>1. chunk \in FileChunks /\ chunk.start \in Nat /\ chunk.length \in Nat \ {0}
    BY <1>2 DEF Chunk, FileChunks
  <2>2. PICK start \in Nat, length \in Nat \ {0} : start = chunk.start /\ length = chunk.length
    BY <2>1
  <2>3. PICK kept, pieces : \E from \in Nat : Cut(Unit, list, chunk, kept, pieces, from)
    BY <2>1, AppendFile, ChunkIsChunksOf
  <2>4. PICK from \in Nat : Cut(Unit, list, chunk, kept, pieces, from)
    BY <2>3
  <2>5. /\ kept \in Seq(Chunk) /\ longer = kept \o pieces
        /\ Follows(pieces, from, start + length)
        /\ \/ kept = list /\ from = start
           \/ from < start /\ list = Append(kept, FileChunk(from, start - from))
    BY <2>2, <2>4, ChunkIsChunksOf DEF Cut
  <2>6. from <= start /\ start + length \in Nat /\ from # start + length
    <3>1. from <= start
      BY <2>5
    <3> QED BY <3>1
  <2>7. pieces # << >>
    BY <2>5, <2>6 DEF Follows
  <2>8. /\ pieces \in Seq(Chunk) /\ Linked(pieces)
        /\ pieces[1].kind = "file" /\ pieces[1].start = from
        /\ pieces[Len(pieces)].kind = "file"
        /\ pieces[Len(pieces)].start + pieces[Len(pieces)].length = start + length
    BY <2>5, <2>6, <2>7, FollowsLinked
  <2>9. EndsWhole(pieces[Len(pieces)]) /\ Whole(start)
    BY <1>2, <2>2, <2>8 DEF EndsWhole, StartsWhole
  <2>10. CASE kept = list /\ from = start
    <3>1. list # << >> => Joins(list[Len(list)], pieces[1])
      BY <2>8, <2>9, <2>10 DEF Joins, ListInv, StartsWhole
    <3>2. ListInv(longer) /\ longer # << >> /\ longer[1] = IF list = << >> THEN pieces[1] ELSE list[1]
      BY <2>5, <2>7, <2>8, <2>9, <2>10, <3>1, ListConcat DEF ListInv
    <3>3. ASSUME NEW pos, GoesOn(pos, list) PROVE GoesOn(pos, longer)
      BY <2>8, <2>9, <2>10, <3>2, <3>3 DEF GoesOn, StartsWhole
    <3> QED BY <3>2, <3>3
  <2>11. CASE from < start /\ list = Append(kept, FileChunk(from, start - from))
    <3>1. PICK bottom \in Chunk : /\ bottom = FileChunk(from, start - from)
                                  /\ bottom.kind = "file" /\ bottom.start = from
      <4>1. start - from \in Nat \ {0}
        BY <2>11
      <4>2. /\ FileChunk(from, start - from) \in Chunk
            /\ FileChunk(from, start - from).kind = "file"
            /\ FileChunk(from, start - from).start = from
        BY <4>1 DEF FileChunk, Chunk
      <4> QED BY <4>2
    <3>2. PICK n \in Nat : n = Len(kept)
      BY <2>5, LenProperties
    <3>3. /\ Len(list) = n + 1 /\ list # << >> /\ list[n + 1] = bottom
          /\ \A i \in 1 .. n : list[i] = kept[i]
      BY <2>5, <2>11, <3>1, <3>2, AppendProperties
    <3>4. kept = << >> <=> n = 0
      BY <2>5, <3>2, EmptySeq
    <3>5. Linked(kept)
      <4>1. \A i \in 1 .. n : IsPackage(kept[i])
        <5> SUFFICES ASSUME NEW i \in 1 .. n PROVE IsPackage(kept[i])
          OBVIOUS
        <5>1. i \in 1 .. n + 1
          OBVIOUS
        <5> QED BY <3>3, <5>1 DEF ListInv, Linked
      <4>2. \A i \in 1 .. n - 1 : Joins(kept[i], kept[i + 1])
        <5> SUFFICES ASSUME NEW i \in 1 .. n - 1 PROVE Joins(kept[i], kept[i + 1])
          OBVIOUS
        <5>1. i \in 1 .. n /\ i + 1 \in 1 .. n /\ i \in 1 .. (n + 1) - 1
          OBVIOUS
        <5>2. Joins(list[i], list[i + 1])
          BY <3>3, <5>1 DEF ListInv, Linked
        <5>3. list[i] = kept[i] /\ list[i + 1] = kept[i + 1]
          BY <3>3, <5>1
        <5> QED BY <5>2, <5>3
      <4> QED BY <3>2, <4>1, <4>2 DEF Linked
    <3>6. kept # << >> => Joins(kept[n], pieces[1])
      <4> SUFFICES ASSUME n # 0 PROVE Joins(kept[n], pieces[1])
        BY <3>4
      <4>1. n \in 1 .. n /\ n \in 1 .. (n + 1) - 1
        OBVIOUS
      <4>2. Joins(kept[n], bottom)
        BY <3>3, <4>1 DEF ListInv, Linked
      <4> QED BY <2>8, <3>1, <4>2 DEF Joins, StartsWhole
    <3>7. ListInv(longer) /\ longer # << >> /\ longer[1] = IF kept = << >> THEN pieces[1] ELSE kept[1]
      BY <2>5, <2>7, <2>8, <2>9, <3>2, <3>5, <3>6, ListConcat
    <3>8. ASSUME NEW pos, GoesOn(pos, list) PROVE GoesOn(pos, longer)
      <4>1. CASE n = 0
        <5>1. list[1] = bottom
          BY <3>3, <4>1
        <5> QED BY <2>8, <3>1, <3>3, <3>4, <3>7, <3>8, <4>1, <5>1 DEF GoesOn, StartsWhole
      <4>2. CASE n # 0
        <5>1. 1 \in 1 .. n
          BY <4>2
        <5> QED BY <3>3, <3>4, <3>7, <3>8, <4>2, <5>1 DEF GoesOn
      <4> QED BY <4>1, <4>2
    <3> QED BY <3>7, <3>8
  <2> QED BY <2>5, <2>10, <2>11
<1> QED BY <1>1, <1>2 DEF Chunk

-----------------------------------------------------------------------------
(* Only whole packages are handed to the sessions.                         *)

\* The archive only grows, by whole packages.
LEMMA ArchiveStep ==
  ASSUME Undisturbed, TypeInv, ArchiveInv, [Next]_vars
  PROVE  /\ ArchiveInv' /\ ~Prune
         /\ Len(archive) <= Len(archive')
         /\ \A p \in 1 .. Len(archive) : archive'[p] = archive[p]
<1>1. FileTyped /\ Len(archive) \in Nat
  BY LenProperties DEF TypeInv, FileTyped
<1>2. ~Prune
  BY RadioAssumption DEF Undisturbed, TypeInv, CountersTyped, Prune
<1>3. ASSUME ~Record PROVE archive' = archive
  <2>1. ASSUME NEW c \in Client,
               \/ ArchiveRequest(c) \/ AddClient(c) \/ RemoveClient(c) \/ DirectSend(c) \/ Disconnect(c)
               \/ TakeSingle(c)
        PROVE  archive' = archive
    BY <2>1 DEF ArchiveRequest, AddClient, RemoveClient, DirectSend, Disconnect, TakeSingle
  <2>2. ASSUME NEW s, Session(s) PROVE archive' = archive
    BY <2>2 DEF Session, Fetch, Written, Leaves, Ends
  <2>3. ASSUME NEW h, HelperDelivers(h) \/ HelperTimesOut(h) PROVE archive' = archive
    BY <2>3 DEF HelperDelivers, HelperTimesOut
  <2>4. ASSUME \/ TakeWrite \/ Spread \/ TakeSend \/ SingleSent \/ SingleTimesOut \/ Returns
               \/ Close \/ RemoveFile \/ LateSync \/ RemoveAllClients \/ UNCHANGED vars
        PROVE  archive' = archive
    BY <2>4 DEF TakeWrite, Spread, TakeSend, SingleSent, SingleTimesOut, Returns,
                Close, RemoveFile, LateSync, RemoveAllClients, vars
  <2> QED BY <1>2, <1>3, <2>1, <2>2, <2>3, <2>4 DEF Next, Run
<1>4. CASE Record
  <2>1. run.frame \in 1 .. MaxFrames
    BY <1>4, RunFields DEF Record
  <2> QED BY <1>1, <1>2, <1>4, <2>1, RecordMakesWhole DEF Record
<1>5. CASE ~Record
  <2>1. archive' = archive
    BY <1>3, <1>5
  <2>2. ArchiveInv'
    BY <2>1 DEF ArchiveInv, Whole, NextUnit
  <2> QED BY <1>1, <1>2, <2>1, <2>2
<1> QED BY <1>4, <1>5

WholeChunk(chunk) == StartsWhole(chunk) /\ EndsWhole(chunk) /\ IsPackage(chunk)

HelpersWhole == \A h \in helpers : WholeChunk(h.chunk)

RunWhole == run.at \in {"record", "spread"} => Whole(run.oldPos)

\* A request reaches to the end of the archive, or beyond by whole packages.
RequestsWhole ==
  \A c \in Client : request[c] # NoRequest =>
    /\ Whole(request[c].start)
    /\ Whole(request[c].length) \/ request[c].start + request[c].length <= Len(archive)

LEMMA FrameWhole ==
  ASSUME NEW f, NEW pos, Whole(pos)
  PROVE  WholeChunk(RAMFrame(f)) /\ WholeChunk(FileChunk(pos, FrameLength))
BY WholeSums DEF WholeChunk, StartsWhole, EndsWhole, IsPackage, RAMFrame, RAMChunk, FileChunk

LEMMA HelpersStep == TypeInv /\ HelpersWhole /\ RunWhole /\ [Next]_vars => HelpersWhole'
<1> SUFFICES ASSUME TypeInv, HelpersWhole, RunWhole, [Next]_vars PROVE HelpersWhole'
  OBVIOUS
<1>1. CASE TakeSend
  <2>1. \A h \in helpers' : h \in helpers \/ h.chunk = RAMFrame(frames')
    BY <1>1 DEF TakeSend
  <2>2. WholeChunk(RAMFrame(frames'))
    BY WholeSums, FrameWhole
  <2> QED BY <2>1, <2>2 DEF HelpersWhole, WholeChunk, StartsWhole, EndsWhole, IsPackage, Whole
<1>2. CASE Spread
  <2>1. \A h \in helpers' : h \in helpers \/ h.chunk = FileChunk(run.oldPos, FrameLength)
    BY <1>2 DEF Spread
  <2>2. WholeChunk(FileChunk(run.oldPos, FrameLength))
    BY <1>2, FrameWhole DEF Spread, RunWhole
  <2> QED BY <2>1, <2>2 DEF HelpersWhole, WholeChunk, StartsWhole, EndsWhole, IsPackage, Whole
<1>3. CASE helpers' \subseteq helpers
  BY <1>3 DEF HelpersWhole, WholeChunk, StartsWhole, EndsWhole, IsPackage, Whole
<1>4. ASSUME ~TakeSend, ~Spread PROVE helpers' \subseteq helpers
  <2>1. ASSUME NEW c \in Client,
               \/ ArchiveRequest(c) \/ AddClient(c) \/ RemoveClient(c) \/ DirectSend(c) \/ Disconnect(c)
               \/ TakeSingle(c)
        PROVE  helpers' \subseteq helpers
    BY <2>1 DEF ArchiveRequest, AddClient, RemoveClient, DirectSend, Disconnect, TakeSingle
  <2>2. ASSUME NEW s, Session(s) PROVE helpers' \subseteq helpers
    BY <2>2 DEF Session, Fetch, Written, Leaves, Ends
  <2>3. ASSUME NEW h, HelperDelivers(h) \/ HelperTimesOut(h) PROVE helpers' \subseteq helpers
    BY <2>3 DEF HelperDelivers, HelperTimesOut
  <2>4. ASSUME \/ TakeWrite \/ Record \/ SingleSent \/ SingleTimesOut \/ Returns \/ Prune
               \/ Close \/ RemoveFile \/ LateSync \/ RemoveAllClients \/ UNCHANGED vars
        PROVE  helpers' \subseteq helpers
    BY <2>4 DEF TakeWrite, Record, SingleSent, SingleTimesOut, Returns, Prune,
                Close, RemoveFile, LateSync, RemoveAllClients, vars
  <2> QED BY <1>4, <2>1, <2>2, <2>3, <2>4 DEF Next, Run
<1> QED BY <1>1, <1>2, <1>3, <1>4

LEMMA RunWholeStep == TypeInv /\ ArchiveInv /\ RunWhole /\ [Next]_vars => RunWhole'
<1> SUFFICES ASSUME TypeInv, ArchiveInv, RunWhole, [Next]_vars PROVE RunWhole'
  OBVIOUS
<1>1. CASE TakeWrite
  BY <1>1 DEF TakeWrite, RunWhole, ArchiveInv, Whole
<1>2. CASE Record
  <2>1. run \in [at : {"record", "spread"}, frame : 1 .. MaxFrames, oldPos : Nat]
    BY <1>2 DEF Record, TypeInv, RunTyped, RunState
  <2>2. run'.oldPos = run.oldPos /\ run.at = "record"
    BY <1>2, <2>1 DEF Record
  <2> QED BY <2>2 DEF RunWhole, Whole
<1>3. CASE Spread \/ SingleSent \/ SingleTimesOut \/ Returns \/ \E c \in Client : TakeSingle(c)
  <2>1. run'.at \notin {"record", "spread"}
    BY <1>3 DEF Spread, SingleSent, SingleTimesOut, Returns, TakeSingle, Idle
  <2> QED BY <2>1 DEF RunWhole
<1>4. CASE run' = run
  BY <1>4 DEF RunWhole, Whole
<1>5. ASSUME ~TakeWrite, ~Record, ~Spread, ~SingleSent, ~SingleTimesOut, ~Returns,
             ~\E c \in Client : TakeSingle(c)
      PROVE  run' = run
  <2>1. ASSUME NEW c \in Client,
               ArchiveRequest(c) \/ AddClient(c) \/ RemoveClient(c) \/ DirectSend(c) \/ Disconnect(c)
        PROVE  run' = run
    BY <2>1 DEF ArchiveRequest, AddClient, RemoveClient, DirectSend, Disconnect
  <2>2. ASSUME NEW s, Session(s) PROVE run' = run
    BY <2>2 DEF Session, Fetch, Written, Leaves, Ends
  <2>3. ASSUME NEW h, HelperDelivers(h) \/ HelperTimesOut(h) PROVE run' = run
    BY <2>3 DEF HelperDelivers, HelperTimesOut
  <2>4. ASSUME TakeSend \/ Prune \/ Close \/ RemoveFile \/ LateSync \/ RemoveAllClients \/ UNCHANGED vars
        PROVE  run' = run
    BY <2>4 DEF TakeSend, Prune, Close, RemoveFile, LateSync, RemoveAllClients, vars
  <2> QED BY <1>5, <2>1, <2>2, <2>3, <2>4 DEF Next, Run
<1> QED BY <1>1, <1>2, <1>3, <1>4, <1>5

LEMMA RequestsStep ==
  ASSUME Undisturbed, TypeInv, ArchiveInv, RequestsWhole, [Next]_vars
  PROVE  RequestsWhole'
<1>1. Len(archive) \in Nat /\ Len(archive') \in Nat /\ Len(archive) <= Len(archive')
  BY StepIsTyped, ArchiveStep, LenProperties DEF TypeInv, FileTyped
<1>2. request \in [Client -> [start : Int, length : Int]]
  BY DEF TypeInv, RequestsTyped
<1>3. ASSUME NEW d \in Client, request'[d] = request[d] \/ request'[d] = NoRequest,
             request'[d] # NoRequest
      PROVE  /\ Whole(request'[d].start)
             /\ Whole(request'[d].length) \/ request'[d].start + request'[d].length <= Len(archive')
  <2>1. PICK start \in Int, length \in Int : start = request[d].start /\ length = request[d].length
    BY <1>2
  <2>2. Whole(start) /\ (Whole(length) \/ start + length <= Len(archive))
    BY <1>3, <2>1 DEF RequestsWhole
  <2>3. start + length <= Len(archive) => start + length <= Len(archive')
    BY <1>1
  <2> QED BY <1>3, <2>1, <2>2, <2>3
<1>4. ASSUME NEW c \in Client, ArchiveRequest(c) PROVE RequestsWhole'
  <2>1. PICK start \in Position, asked \in Asked :
          request' = [request EXCEPT ![c] = [start |-> start, length |-> DataLength(start, asked)]]
    BY <1>4 DEF ArchiveRequest
  <2>2. Whole(start) /\ start \in Nat
    <3>1. PICK k \in 0 .. MaxFrames : start = FrameLength * k
      BY DEF Position
    <3>2. Whole(start)
      BY <3>1 DEF Whole
    <3> QED BY <3>2, WholeSums
  <2>3. Whole(asked) /\ asked \in Nat /\ archive' = archive
    BY <1>4, WholeSums DEF Undisturbed, ArchiveRequest
  <2>4. Whole(DataLength(start, asked)) \/ start + DataLength(start, asked) <= Len(archive)
    <3>1. PICK n \in Nat : n = Len(archive)
      BY <1>1
    <3>2. CASE asked = 0
      <4>1. DataLength(start, asked) = n - start
        BY <2>2, <3>1, <3>2 DEF DataLength
      <4> QED BY <2>2, <3>1, <4>1
    <3>3. CASE asked # 0
      <4>1. DataLength(start, asked) = n - start \/ DataLength(start, asked) = asked
        BY <2>2, <2>3, <3>1, <3>3 DEF DataLength
      <4> QED BY <2>2, <2>3, <3>1, <4>1
    <3> QED BY <3>2, <3>3
  <2>5. ASSUME NEW d \in Client, request'[d] # NoRequest
        PROVE  /\ Whole(request'[d].start)
               /\ Whole(request'[d].length) \/ request'[d].start + request'[d].length <= Len(archive')
    <3>1. CASE d = c
      <4>1. request'[d].start = start /\ request'[d].length = DataLength(start, asked)
        BY <1>2, <2>1, <3>1
      <4> QED BY <2>2, <2>3, <2>4, <4>1
    <3>2. CASE d # c
      <4>1. request'[d] = request[d]
        BY <1>2, <2>1, <3>2
      <4> QED BY <1>3, <2>5, <4>1
    <3> QED BY <3>1, <3>2
  <2> QED BY <2>5 DEF RequestsWhole, NoRequest, Whole
<1>5. CASE \A d \in Client : request'[d] = request[d] \/ request'[d] = NoRequest
  BY <1>3, <1>5 DEF RequestsWhole, NoRequest, Whole
<1>6. ASSUME ~\E c \in Client : ArchiveRequest(c)
      PROVE  \A d \in Client : request'[d] = request[d] \/ request'[d] = NoRequest
  <2>1. ASSUME NEW c \in Client, AddClient(c)
        PROVE  \A d \in Client : request'[d] = request[d] \/ request'[d] = NoRequest
    BY <1>2, <2>1 DEF AddClient
  <2>2. ASSUME NEW c \in Client, RemoveClient(c) \/ DirectSend(c) \/ Disconnect(c) \/ TakeSingle(c)
        PROVE  request' = request
    BY <2>2 DEF RemoveClient, DirectSend, Disconnect, TakeSingle
  <2>3. ASSUME NEW s, Session(s) PROVE request' = request
    BY <2>3 DEF Session, Fetch, Written, Leaves, Ends
  <2>4. ASSUME NEW h, HelperDelivers(h) \/ HelperTimesOut(h) PROVE request' = request
    BY <2>4 DEF HelperDelivers, HelperTimesOut
  <2>5. ASSUME \/ TakeWrite \/ Record \/ Spread \/ TakeSend \/ SingleSent \/ SingleTimesOut \/ Returns
               \/ Prune \/ Close \/ RemoveFile \/ LateSync \/ RemoveAllClients \/ UNCHANGED vars
        PROVE  request' = request
    BY <2>5 DEF TakeWrite, Record, Spread, TakeSend, SingleSent, SingleTimesOut, Returns,
                Prune, Close, RemoveFile, LateSync, RemoveAllClients, vars
  <2> QED BY <1>6, <2>1, <2>2, <2>3, <2>4, <2>5 DEF Next, Run
<1> QED BY <1>4, <1>5, <1>6

\* A client asks once, so it has one session at most, and until then nothing
\* was written to it.
OneSession ==
  /\ \A s \in 1 .. Len(sessions) : \A t \in 1 .. Len(sessions) :
       sessions[s].client = sessions[t].client => s = t
  /\ \A s \in 1 .. Len(sessions) : request[sessions[s].client] = NoRequest
  /\ \A c \in Client : out[c] # << >> => \E s \in 1 .. Len(sessions) : sessions[s].client = c

\* A step that makes no session and writes at most to the client of one.
LEMMA SessionsStay ==
  ASSUME TypeInv, OneSession, SessionsKept, Len(sessions') = Len(sessions), request' = request,
         \A c \in Client : out'[c] = out[c] \/ \E s \in 1 .. Len(sessions) : sessions[s].client = c
  PROVE  OneSession'
<1>1. PICK n \in Nat : n = Len(sessions) /\ n = Len(sessions')
  BY LenProperties DEF TypeInv, SessionsTyped
<1>2. \A s \in 1 .. n : sessions'[s].client = sessions[s].client
  BY <1>1 DEF SessionsKept
<1>3. \A s \in 1 .. n : request'[sessions'[s].client] = NoRequest
  BY <1>1, <1>2 DEF OneSession
<1>4. \A s \in 1 .. n : \A t \in 1 .. n : sessions'[s].client = sessions'[t].client => s = t
  BY <1>1, <1>2 DEF OneSession
<1>5. \A c \in Client : out'[c] # << >> => \E s \in 1 .. n : sessions'[s].client = c
  BY <1>1, <1>2 DEF OneSession
<1> QED BY <1>1, <1>3, <1>4, <1>5 DEF OneSession, NoRequest

LEMMA OneSessionStep ==
  ASSUME Undisturbed, TypeInv, OneSession, [Next]_vars
  PROVE  OneSession'
<1>0. /\ SessionsTyped /\ FileTyped /\ RequestsTyped /\ Len(sessions) \in Nat
      /\ DOMAIN sessions = 1 .. Len(sessions) /\ SessionsKept
      /\ request \in [Client -> [start : Int, length : Int]]
      /\ out \in [Client -> Seq(Unit)]
  BY StepIsTyped, LenProperties DEF TypeInv, SessionsTyped, RequestsTyped, PeersTyped
<1>1. ASSUME NEW s \in 1 .. Len(sessions), NEW chunk \in Chunk, Receive(s, chunk),
             request' = request, out' = out
      PROVE  OneSession'
  <2>1. Len(sessions') = Len(sessions)
    BY <1>0, <1>1, ReceiveKeeps
  <2> QED BY <1>0, <1>1, <2>1, SessionsStay
<1>2. CASE SingleSent
  <2>1. run.frame \in 1 .. MaxFrames /\ run.to \in 1 .. Len(sessions)
    BY <1>2, RunFields DEF SingleSent
  <2> QED BY <1>1, <1>2, <2>1, FrameTyped DEF SingleSent
<1>3. ASSUME NEW h \in helpers, HelperDelivers(h) PROVE OneSession'
  <2>1. h.to \in 1 .. Len(sessions) /\ h.chunk \in Chunk
    BY DEF TypeInv, HelpersTyped, HelperRecord
  <2> QED BY <1>1, <1>3, <2>1 DEF HelperDelivers
<1>4. ASSUME NEW s \in 1 .. Len(sessions), Session(s) PROVE OneSession'
  <2>1. PICK r : \/ Fetch(s) /\ r = FetchedFrom(s)
                 \/ Written(s) /\ r = WrittenBy(s)
                 \/ Leaves(s) /\ r = LeavingOf(s)
                 \/ Ends(s) /\ r = EndedOf(s)
    BY <1>4 DEF Session
  <2>2. Len(sessions') = Len(sessions)
    BY <1>0, <2>1, SessionKeeps
  <2>3. request' = request
    BY <1>4 DEF Session, Fetch, Written, Leaves, Ends
  <2>4. \A c \in Client : out'[c] = out[c] \/ sessions[s].client = c
    BY <1>0, <1>4 DEF Session, Fetch, Written, Leaves, Ends
  <2> QED BY <1>0, <2>2, <2>3, <2>4, SessionsStay
<1>5. ASSUME NEW c \in Client, AddClient(c) PROVE OneSession'
  <2>1. PICK n \in Nat : n = Len(sessions) /\ n + 1 = Len(sessions')
    BY <1>0, <1>5, AddKeeps
  <2>2. /\ \A t \in 1 .. n : sessions'[t] = sessions[t]
        /\ sessions'[n + 1].client = c
    <3>1. /\ \A t \in 1 .. n : sessions'[t] = sessions[t]
          /\ sessions'[n + 1] = NewSession(c)
      BY <1>0, <1>5, <2>1, AddKeeps
    <3> QED BY <3>1 DEF NewSession
  <2>3. \A t \in 1 .. n : sessions[t].client # c /\ sessions[t].client \in Client
    BY <1>0, <1>5, <2>1, SessionFields DEF OneSession, AddClient
  <2>4. request'[c] = NoRequest /\ \A d \in Client : d # c => request'[d] = request[d]
    BY <1>0, <1>5 DEF AddClient
  <2>5. out' = out
    BY <1>5 DEF AddClient
  <2>6. \A s \in 1 .. n + 1 : s = n + 1 \/ s \in 1 .. n
    OBVIOUS
  <2>7. \A s \in 1 .. n + 1 : \A t \in 1 .. n + 1 : sessions'[s].client = sessions'[t].client => s = t
    BY <2>1, <2>2, <2>3, <2>6 DEF OneSession
  <2>8. \A s \in 1 .. n + 1 : request'[sessions'[s].client] = NoRequest
    BY <2>1, <2>2, <2>3, <2>4, <2>6 DEF OneSession
  <2>9. \A d \in Client : out'[d] # << >> => \E s \in 1 .. n + 1 : sessions'[s].client = d
    <3> SUFFICES ASSUME NEW d \in Client, out[d] # << >> PROVE \E s \in 1 .. n + 1 : sessions'[s].client = d
      BY <2>5
    <3>1. PICK s \in 1 .. n : sessions[s].client = d
      BY <2>1 DEF OneSession
    <3>2. s \in 1 .. n + 1 /\ sessions'[s].client = d
      BY <2>2, <3>1
    <3> QED BY <3>2
  <2> QED BY <2>1, <2>7, <2>8, <2>9 DEF OneSession, NoRequest
<1>6. ASSUME NEW c \in Client, ArchiveRequest(c) PROVE OneSession'
  <2>1. \A s \in 1 .. Len(sessions) : sessions[s].client # c /\ sessions[s].client \in Client
    BY <1>0, <1>6, SessionFields DEF Undisturbed, ArchiveRequest
  <2>2. sessions' = sessions /\ out' = out
    BY <1>6 DEF ArchiveRequest
  <2>3. \A d \in Client : d # c => request'[d] = request[d]
    BY <1>0, <1>6 DEF ArchiveRequest
  <2>4. \A s \in 1 .. Len(sessions) : request'[sessions[s].client] = NoRequest
    BY <2>1, <2>3 DEF OneSession
  <2> QED BY <2>2, <2>4 DEF OneSession, NoRequest
<1>7. ASSUME NEW c \in Client, Disconnect(c) PROVE OneSession'
  <2>1. Len(sessions') = Len(sessions) /\ request' = request /\ out' = out
    BY <1>0, <1>7, AllChanged DEF Disconnect
  <2> QED BY <1>0, <2>1, SessionsStay
<1>8. CASE sessions' = sessions /\ request' = request /\ out' = out
  BY <1>0, <1>8, SessionsStay
<1>9. ASSUME ~SingleSent, ~\E c \in Client : ArchiveRequest(c) \/ AddClient(c) \/ Disconnect(c), ~Prune,
             ~\E h \in helpers : HelperDelivers(h), ~\E s \in 1 .. Len(sessions) : Session(s)
      PROVE  sessions' = sessions /\ request' = request /\ out' = out
  <2>1. ASSUME NEW c \in Client, RemoveClient(c) \/ TakeSingle(c)
        PROVE  sessions' = sessions /\ request' = request /\ out' = out
    BY <2>1 DEF RemoveClient, TakeSingle
  <2>2. ASSUME NEW h, HelperTimesOut(h)
        PROVE  sessions' = sessions /\ request' = request /\ out' = out
    BY <2>2 DEF HelperTimesOut
  <2>3. ASSUME \/ TakeWrite \/ Record \/ Spread \/ TakeSend \/ SingleTimesOut \/ Returns
               \/ Close \/ RemoveFile \/ LateSync \/ RemoveAllClients \/ UNCHANGED vars
        PROVE  sessions' = sessions /\ request' = request /\ out' = out
    BY <2>3 DEF TakeWrite, Record, Spread, TakeSend, SingleTimesOut, Returns,
                Close, RemoveFile, LateSync, RemoveAllClients, vars
  <2>4. ASSUME NEW c \in Client PROVE ~DirectSend(c)
    BY DEF Undisturbed, DirectSend, Arrives
  <2> QED BY <1>0, <1>9, <2>1, <2>2, <2>3, <2>4 DEF Next, Run
<1>10. ~Prune
  BY RadioAssumption DEF Undisturbed, TypeInv, CountersTyped, Prune
<1> QED BY <1>0, <1>2, <1>3, <1>4, <1>5, <1>6, <1>7, <1>8, <1>9, <1>10

\* The first list of a session: it starts and ends between packages.
LEMMA NewListGoesOn ==
  ASSUME TypeInv, ArchiveInv, RequestsWhole, NEW c \in Client, request[c] # NoRequest
  PROVE  /\ NewSession(c).list \in Seq(Chunk) /\ ListInv(NewSession(c).list)
         /\ GoesOn(0, NewSession(c).list)
         /\ NewSession(c).at = "select" /\ NewSession(c).buf = << >> /\ NewSession(c).client = c
<1>1. PICK n \in Nat, first \in Nat, length \in Int :
        n = Len(archive) /\ first = request[c].start /\ length = request[c].length
  BY LenProperties DEF TypeInv, FileTyped, RequestsTyped
<1>2. Whole(n) /\ Whole(first) /\ (Whole(length) \/ first + length <= n)
  BY <1>1 DEF ArchiveInv, RequestsWhole
<1>3. PICK start \in Nat : /\ start = StartPos(request[c].start) /\ start <= n /\ Whole(start)
                           /\ start = first \/ (start = n /\ n < first)
  BY <1>1, <1>2 DEF StartPos
<1>4. PICK size \in Nat : /\ size = ChunkSize(request[c].start, request[c].length)
                          /\ (size = length /\ n < start + length) \/ start + size = n
  <2>1. CASE start + length > n
    <3>1. length \in Nat /\ ChunkSize(request[c].start, request[c].length) = length
      BY <1>1, <1>3, <2>1 DEF ChunkSize
    <3> QED BY <2>1, <3>1
  <2>2. CASE ~(start + length > n)
    <3>1. n - start \in Nat /\ start + (n - start) = n
      BY <1>3
    <3>2. ChunkSize(request[c].start, request[c].length) = n - start
      BY <1>1, <1>3, <2>2 DEF ChunkSize
    <3> QED BY <3>1, <3>2
  <2> QED BY <2>1, <2>2
<1>5. Whole(start + size)
  <2>1. CASE start + size = n
    BY <1>2, <2>1
  <2>2. CASE size = length /\ n < start + length
    <3>1. Whole(length)
      BY <1>2, <1>3, <2>2
    <3> QED BY <1>3, <2>2, <3>1, WholeSums
  <2> QED BY <1>4, <2>1, <2>2
<1>6. PICK list : list = IF size = 0 THEN << >> ELSE splitChunk(FileChunk(start, size))
  OBVIOUS
<1>7. /\ list = NewSession(c).list
      /\ NewSession(c).at = "select" /\ NewSession(c).buf = << >> /\ NewSession(c).client = c
  BY <1>3, <1>4, <1>6 DEF NewSession
<1>8. list \in Seq(Chunk) /\ ListInv(list) /\ GoesOn(0, list)
  <2>0. Whole(0)
    BY WholeSums
  <2>1. CASE size = 0
    <3>1. list = << >> /\ Len(list) = 0
      BY <1>6, <2>1
    <3>2. \A i \in 1 .. Len(list) : FALSE
      BY <3>1
    <3>3. \A i \in 1 .. Len(list) - 1 : FALSE
      BY <3>1
    <3>4. Linked(list)
      BY <3>2, <3>3 DEF Linked
    <3>5. list \in Seq(Chunk)
      BY <3>1, EmptySeq
    <3>6. ListInv(list)
      BY <3>1, <3>4 DEF ListInv
    <3>7. GoesOn(0, list)
      BY <2>0, <3>1 DEF GoesOn
    <3> QED BY <3>5, <3>6, <3>7
  <2>2. CASE size # 0
    <3>0. list = splitChunk(FileChunk(start, size)) /\ start + size \in Nat
      BY <1>6, <2>2
    <3>1. Follows(list, start, start + size) /\ start + size \in Nat
      BY <3>0, SplitFollows
    <3>2. /\ list \in Seq(Chunk) /\ Linked(list)
          /\ list # << >> => /\ list[1].kind = "file" /\ list[1].start = start
                             /\ list[Len(list)].kind = "file"
                             /\ list[Len(list)].start + list[Len(list)].length = start + size
      BY <3>1, FollowsLinked
    <3> QED BY <1>3, <1>5, <2>0, <3>2 DEF ListInv, GoesOn, StartsWhole, EndsWhole
  <2> QED BY <2>1, <2>2
<1> QED BY <1>7, <1>8

-----------------------------------------------------------------------------
(* What a session has written, is writing and will write fit together.     *)

\* The list goes on where the stream ends.
Flow(stream, list) ==
  /\ ListInv(list) /\ Chained(stream)
  /\ \E pos \in Nat : EndsAt(stream, pos) /\ GoesOn(pos, list)

FlowFor(s) ==
  Active(s) => Flow(out[sessions[s].client] \o sessions[s].buf, sessions[s].list)

FlowsInv == \A s \in 1 .. Len(sessions) : FlowFor(s)

StreamsInv == \A c \in Client : Chained(out[c])

\* It still does when the archive has grown.
LEMMA FlowCarried ==
  ASSUME NEW stream, NEW list, Flow(stream, list),
         Len(archive) \in Nat, Len(archive') \in Nat, Len(archive) <= Len(archive'),
         \A p \in 1 .. Len(archive) : archive'[p] = archive[p]
  PROVE  Flow(stream, list)'
<1>1. ListInv(list)'
  BY DEF Flow, ListInv, Linked, Joins, StartsWhole, EndsWhole, IsPackage, Whole
<1>2. Chained(stream)'
  BY DEF Flow, Chained, NextUnit
<1>3. PICK pos \in Nat : EndsAt(stream, pos) /\ GoesOn(pos, list)
  BY DEF Flow
<1>4. EndsAt(stream, pos)'
  <2>1. CASE Whole(pos)
    BY <1>3, <2>1 DEF EndsAt, Whole
  <2>2. CASE ~Whole(pos)
    <3>1. stream # << >> /\ pos \in 1 .. Len(archive) /\ stream[Len(stream)] = archive[pos]
      BY <1>3, <2>2 DEF EndsAt
    <3>2. pos \in 1 .. Len(archive') /\ stream[Len(stream)] = archive'[pos]
      BY <3>1
    <3> QED BY <2>2, <3>1, <3>2 DEF EndsAt, Whole
  <2> QED BY <2>1, <2>2
<1>5. GoesOn(pos, list)'
  BY <1>3 DEF GoesOn, StartsWhole, Whole
<1> QED BY <1>1, <1>2, <1>4, <1>5 DEF Flow

\* A session whose list is the same, and what it has written and is writing
\* together too.
LEMMA FlowStays ==
  ASSUME Undisturbed, TypeInv, ArchiveInv, [Next]_vars,
         NEW s \in 1 .. Len(sessions), FlowFor(s),
         Active(s)' => Active(s), sessions'[s].list = sessions[s].list,
         out'[sessions'[s].client] \o sessions'[s].buf = out[sessions[s].client] \o sessions[s].buf
  PROVE  FlowFor(s)'
<1> SUFFICES ASSUME Active(s)'
             PROVE  Flow(out[sessions[s].client] \o sessions[s].buf, sessions[s].list)'
  BY DEF FlowFor
<1>1. PICK stream, list : stream = out[sessions[s].client] \o sessions[s].buf /\ list = sessions[s].list
  OBVIOUS
<1>2. Flow(stream, list)
  BY <1>1 DEF FlowFor
<1>3. Len(archive) \in Nat /\ Len(archive') \in Nat
  BY StepIsTyped, LenProperties DEF TypeInv, FileTyped
<1>4. Flow(stream, list)'
  BY <1>2, <1>3, ArchiveStep, FlowCarried
<1>5. stream = out'[sessions'[s].client] \o sessions'[s].buf /\ list = sessions'[s].list
  BY <1>1
<1> QED BY <1>4, <1>5 DEF Flow, EndsAt, GoesOn, ListInv, Linked, Joins, StartsWhole, EndsWhole,
                          IsPackage, Chained, NextUnit

\* A session receives a chunk.
LEMMA ReceiveFlows ==
  ASSUME Undisturbed, TypeInv, ArchiveInv, FlowsInv, [Next]_vars,
         NEW s \in 1 .. Len(sessions), NEW chunk \in Chunk, WholeChunk(chunk),
         Receive(s, chunk), out' = out, archive' = archive
  PROVE  FlowsInv'
<1>0. SessionsTyped
  BY DEF TypeInv
<1>1. /\ Len(sessions') = Len(sessions)
      /\ \A t \in 1 .. Len(sessions) : sessions'[t] =
           IF t = s THEN [sessions[s] EXCEPT !.list = appendToPendings(sessions[s].list, chunk)]
           ELSE sessions[t]
  BY <1>0, ReceiveKeeps
<1>2. /\ sessions'[s].at = sessions[s].at /\ sessions'[s].buf = sessions[s].buf
      /\ sessions'[s].client = sessions[s].client
      /\ sessions'[s].list = appendToPendings(sessions[s].list, chunk)
      /\ sessions[s].list \in Seq(Chunk)
  BY <1>0, <1>1, SessionFields DEF SessionRecord
<1>3. ASSUME NEW t \in 1 .. Len(sessions), t # s PROVE FlowFor(t)'
  <2>1. sessions'[t] = sessions[t] /\ FlowFor(t)
    BY <1>1, <1>3 DEF FlowsInv
  <2>2. Active(t)' => Active(t)
    BY <2>1 DEF Active
  <2>3. out'[sessions'[t].client] \o sessions'[t].buf = out[sessions[t].client] \o sessions[t].buf
    BY <2>1
  <2> QED BY <2>1, <2>2, <2>3, FlowStays
<1>4. FlowFor(s)'
  <2> SUFFICES ASSUME Active(s)'
               PROVE  Flow(out[sessions[s].client] \o sessions[s].buf, sessions[s].list)'
    BY DEF FlowFor
  <2>1. PICK stream, list, longer :
          /\ stream = out[sessions[s].client] \o sessions[s].buf
          /\ list = sessions[s].list /\ longer = appendToPendings(list, chunk)
    OBVIOUS
  <2>2. Flow(stream, list) /\ list \in Seq(Chunk)
    BY <1>2, <2>1 DEF FlowsInv, FlowFor, Active
  <2>3. ListInv(longer) /\ \A pos : GoesOn(pos, list) => GoesOn(pos, longer)
    BY <2>1, <2>2, AppendGoesOn DEF Flow, WholeChunk
  <2>4. Flow(stream, longer)
    BY <2>2, <2>3 DEF Flow
  <2>5. Len(archive) \in Nat /\ Len(archive') \in Nat
    BY StepIsTyped, LenProperties DEF TypeInv, FileTyped
  <2>6. Flow(stream, longer)'
    BY <2>4, <2>5, ArchiveStep, FlowCarried
  <2>7. stream = out'[sessions'[s].client] \o sessions'[s].buf /\ longer = sessions'[s].list
    BY <1>2, <2>1
  <2> QED BY <2>6, <2>7 DEF Flow, EndsAt, GoesOn, ListInv, Linked, Joins, StartsWhole, EndsWhole,
                            IsPackage, Chained, NextUnit
<1> QED BY <1>1, <1>3, <1>4 DEF FlowsInv

\* A session takes a chunk from its list, or writes, or leaves.
LEMMA SessionFlows ==
  ASSUME Undisturbed, TypeInv, BuffersInv, ArchiveInv, OneSession, FlowsInv, StreamsInv, [Next]_vars,
         NEW s \in 1 .. Len(sessions), Session(s)
  PROVE  FlowsInv' /\ StreamsInv'
<1>0. FileTyped /\ SessionsTyped /\ PeersTyped /\ archive' = archive
  BY DEF TypeInv, Session, Fetch, Written, Leaves, Ends
<1>1. PICK r : \/ Fetch(s) /\ r = FetchedFrom(s)
               \/ Written(s) /\ r = WrittenBy(s)
               \/ Leaves(s) /\ r = LeavingOf(s)
               \/ Ends(s) /\ r = EndedOf(s)
  BY DEF Session
<1>2. /\ Len(sessions') = Len(sessions) /\ r.client = sessions[s].client
      /\ \A t \in 1 .. Len(sessions) : sessions'[t] = IF t = s THEN r ELSE sessions[t]
  BY <1>0, <1>1, SessionKeeps
<1>3. PICK c \in Client, stream \in Seq(Unit), buf \in Seq(Unit), list \in Seq(Chunk) :
        /\ c = sessions[s].client /\ stream = out[c] /\ buf = sessions[s].buf /\ list = sessions[s].list
  BY <1>0, SessionFields DEF PeersTyped
<1>4. \A d \in Client : out'[d] = out[d] \/ (Written(s) /\ d = c /\ out'[d] = stream \o buf)
  BY <1>0, <1>3 DEF Session, Fetch, Written, Leaves, Ends, PeersTyped
<1>5. Written(s) => out'[c] = stream \o buf
  BY <1>0, <1>3 DEF Written, PeersTyped
<1>6. Active(s) => Flow(stream \o buf, list)
  BY <1>3 DEF FlowsInv, FlowFor
<1>7. StreamsInv'
  <2> SUFFICES ASSUME NEW d \in Client PROVE Chained(out'[d])
    BY DEF StreamsInv, Chained, NextUnit
  <2>1. CASE out'[d] = out[d]
    BY <2>1 DEF StreamsInv
  <2>2. CASE Written(s) /\ d = c /\ out'[d] = stream \o buf
    <3>1. Active(s)
      BY <2>2 DEF Written, Active
    <3> QED BY <1>6, <2>2, <3>1 DEF Flow
  <2> QED BY <1>4, <2>1, <2>2
<1>8. ASSUME NEW t \in 1 .. Len(sessions), t # s PROVE FlowFor(t)'
  <2>1. sessions'[t] = sessions[t] /\ FlowFor(t)
    BY <1>2, <1>8 DEF FlowsInv
  <2>2. Active(t)' => Active(t)
    BY <2>1 DEF Active
  <2>3. sessions[t].client \in Client /\ sessions[t].client # c
    BY <1>0, <1>3, <1>8, SessionFields DEF OneSession
  <2>4. out'[sessions[t].client] = out[sessions[t].client]
    BY <1>4, <2>3
  <2> QED BY <2>1, <2>2, <2>4, FlowStays
<1>9. CASE Fetch(s)
  <2>1. Active(s) /\ buf = << >> /\ list # << >> /\ Readable(Head(list))
    BY <1>3, <1>9 DEF Fetch, Active, BuffersInv
  <2>2. PICK head, rest, bytes : head = list[1] /\ rest = Tail(list) /\ bytes = Bytes(list[1])
    OBVIOUS
  <2>3. Head(list) = head
    BY <2>1, <2>2, HeadTailProperties
  <2>4. Flow(stream, list)
    <3>1. stream \o << >> = stream
      BY ConcatEmptySeq
    <3> QED BY <1>6, <2>1, <3>1
  <2>5. PICK pos \in Nat : EndsAt(stream, pos) /\ GoesOn(pos, list)
    BY <2>4 DEF Flow
  <2>6. Flow(stream \o bytes, rest)
    <3>1. Chained(stream) /\ ListInv(list) /\ Readable(list[1])
      BY <2>1, <2>2, <2>3, <2>4 DEF Flow
    <3>2. /\ Chained(stream \o Bytes(list[1])) /\ ListInv(Tail(list))
          /\ \E next \in Nat : EndsAt(stream \o Bytes(list[1]), next) /\ GoesOn(next, Tail(list))
      BY <1>0, <2>1, <2>5, <3>1, FetchGoesOn
    <3> QED BY <2>2, <3>2 DEF Flow
  <2>7. sessions'[s] = FetchedFrom(s) /\ out' = out
    <3>1. sessions'[s] = FetchedFrom(s)
      BY <1>0, <1>9, SessionKeeps
    <3> QED BY <1>9, <3>1 DEF Fetch
  <2>8. sessions'[s].buf = bytes /\ sessions'[s].list = rest /\ sessions'[s].client = c
    BY <1>0, <1>3, <2>2, <2>3, <2>7, SessionFields DEF SessionRecord, FetchedFrom
  <2>9. PICK whole : whole = stream \o bytes
    OBVIOUS
  <2>10. Len(archive) \in Nat /\ Len(archive') \in Nat
    BY <1>0, LenProperties DEF FileTyped
  <2>11. Flow(whole, rest)'
    BY <2>6, <2>9, <2>10, ArchiveStep, FlowCarried
  <2>12. whole = out'[sessions'[s].client] \o sessions'[s].buf /\ rest = sessions'[s].list
    BY <1>3, <2>7, <2>8, <2>9
  <2>13. FlowFor(s)'
    BY <2>11, <2>12 DEF FlowFor, Flow, EndsAt, GoesOn, ListInv, Linked, Joins, StartsWhole, EndsWhole,
                        IsPackage, Chained, NextUnit
  <2> QED BY <1>2, <1>7, <1>8, <2>13 DEF FlowsInv
<1>10. CASE Written(s)
  <2>1. sessions'[s] = WrittenBy(s)
    BY <1>0, <1>10, SessionKeeps
  <2>2. sessions'[s].buf = << >> /\ sessions'[s].list = list /\ sessions'[s].client = c
    BY <1>0, <1>3, <2>1, SessionFields DEF SessionRecord, WrittenBy
  <2>3. Active(s) /\ FlowFor(s)
    BY <1>10 DEF Written, Active, FlowsInv
  <2>4. out'[sessions'[s].client] \o sessions'[s].buf = out[sessions[s].client] \o sessions[s].buf
    <3>1. stream \o buf \in Seq(Unit)
      BY ConcatProperties
    <3>2. (stream \o buf) \o << >> = stream \o buf
      BY <3>1, ConcatEmptySeq
    <3> QED BY <1>3, <1>5, <1>10, <2>2, <3>2
  <2>5. FlowFor(s)'
    BY <1>3, <2>2, <2>3, <2>4, FlowStays
  <2> QED BY <1>2, <1>7, <1>8, <2>5 DEF FlowsInv
<1>11. CASE Leaves(s) \/ Ends(s)
  <2>1. sessions'[s] = LeavingOf(s) \/ sessions'[s] = EndedOf(s)
    BY <1>0, <1>11, SessionKeeps
  <2>2. sessions'[s].at \in {"leaving", "ended"}
    BY <1>0, <2>1, SessionFields DEF SessionRecord, LeavingOf, EndedOf
  <2>3. FlowFor(s)'
    BY <2>2 DEF FlowFor, Active
  <2> QED BY <1>2, <1>7, <1>8, <2>3 DEF FlowsInv
<1> QED BY <1>1, <1>9, <1>10, <1>11

\* A session is made.
LEMMA AddFlows ==
  ASSUME Undisturbed, TypeInv, ArchiveInv, RequestsWhole, OneSession, FlowsInv, [Next]_vars,
         NEW c \in Client, AddClient(c)
  PROVE  FlowsInv'
<1>0. FileTyped /\ SessionsTyped /\ RequestsTyped /\ PeersTyped /\ request[c] # NoRequest
  BY DEF TypeInv, AddClient
<1>1. PICK n \in Nat : n = Len(sessions) /\ n + 1 = Len(sessions')
  BY <1>0, AddKeeps, LenProperties DEF SessionsTyped
<1>2. (\A t \in 1 .. n : sessions'[t] = sessions[t]) /\ sessions'[n + 1] = NewSession(c)
  BY <1>0, <1>1, AddKeeps
<1>3. out' = out /\ archive' = archive
  BY DEF AddClient
<1>4. ASSUME NEW t \in 1 .. n PROVE FlowFor(t)'
  <2>1. sessions'[t] = sessions[t] /\ FlowFor(t)
    BY <1>1, <1>2 DEF FlowsInv
  <2>2. Active(t)' => Active(t)
    BY <2>1 DEF Active
  <2> QED BY <1>1, <1>3, <2>1, <2>2, FlowStays
<1>5. FlowFor(n + 1)'
  <2>1. PICK list : list = NewSession(c).list
    OBVIOUS
  <2>2. /\ ListInv(list) /\ GoesOn(0, list)
        /\ NewSession(c).buf = << >> /\ NewSession(c).client = c
    BY <1>0, <2>1, NewListGoesOn
  <2>3. out[c] = << >>
    BY <1>0 DEF OneSession
  <2>4. PICK stream : stream = << >> /\ stream = out[c] \o NewSession(c).buf
    <3>1. << >> \o << >> = << >>
      BY EmptySeq, ConcatEmptySeq
    <3> QED BY <2>2, <2>3, <3>1
  <2>5. Flow(stream, list)
    <3>1. Chained(stream)
      <4>1. \A k \in 1 .. Len(stream) - 1 : FALSE
        BY <2>4
      <4> QED BY <2>4, <4>1 DEF Chained
    <3>2. EndsAt(stream, 0)
      BY <2>4, WholeSums DEF EndsAt
    <3> QED BY <2>2, <3>1, <3>2 DEF Flow
  <2>6. Len(archive) \in Nat /\ Len(archive') \in Nat
    BY <1>0, <1>3, LenProperties DEF FileTyped
  <2>7. Flow(stream, list)'
    BY <2>5, <2>6, ArchiveStep, FlowCarried
  <2>8. stream = out'[sessions'[n + 1].client] \o sessions'[n + 1].buf /\ list = sessions'[n + 1].list
    BY <1>2, <1>3, <2>1, <2>2, <2>4
  <2> QED BY <2>7, <2>8 DEF FlowFor, Flow, EndsAt, GoesOn, ListInv, Linked, Joins, StartsWhole,
                            EndsWhole, IsPackage, Chained, NextUnit
<1>6. \A t \in 1 .. n + 1 : t \in 1 .. n \/ t = n + 1
  OBVIOUS
<1> QED BY <1>1, <1>4, <1>5, <1>6 DEF FlowsInv

LEMMA FlowsStep ==
  ASSUME Undisturbed, TypeInv, BuffersInv, ArchiveInv, HelpersWhole, RequestsWhole, OneSession,
         FlowsInv, StreamsInv, [Next]_vars
  PROVE  FlowsInv' /\ StreamsInv'
<1>0. SessionsTyped /\ DOMAIN sessions = 1 .. Len(sessions)
  BY LenProperties DEF TypeInv, SessionsTyped
<1>1. ASSUME out' = out PROVE StreamsInv'
  BY <1>1 DEF StreamsInv, Chained, NextUnit
<1>2. CASE SingleSent
  <2>1. run.frame \in 1 .. MaxFrames /\ run.to \in 1 .. Len(sessions)
    BY <1>2, RunFields DEF SingleSent
  <2>2. RAMFrame(run.frame) \in Chunk /\ WholeChunk(RAMFrame(run.frame))
    BY <2>1, FrameTyped, FrameWhole, WholeSums
  <2> QED BY <1>1, <1>2, <2>1, <2>2, ReceiveFlows DEF SingleSent
<1>3. ASSUME NEW h \in helpers, HelperDelivers(h) PROVE FlowsInv' /\ StreamsInv'
  <2>1. h.to \in 1 .. Len(sessions) /\ h.chunk \in Chunk /\ WholeChunk(h.chunk)
    BY DEF TypeInv, HelpersTyped, HelperRecord, HelpersWhole
  <2> QED BY <1>1, <1>3, <2>1, ReceiveFlows DEF HelperDelivers
<1>4. ASSUME NEW s \in 1 .. Len(sessions), Session(s) PROVE FlowsInv' /\ StreamsInv'
  BY <1>4, SessionFlows
<1>5. ASSUME NEW c \in Client, AddClient(c) PROVE FlowsInv' /\ StreamsInv'
  BY <1>1, <1>5, AddFlows DEF AddClient
<1>6. ASSUME NEW c \in Client, Disconnect(c) PROVE FlowsInv' /\ StreamsInv'
  <2>1. out' = out /\ Len(sessions') = Len(sessions)
    BY <1>0, <1>6, AllChanged DEF Disconnect
  <2>2. ASSUME NEW s \in 1 .. Len(sessions) PROVE FlowFor(s)'
    <3>1. /\ SessionsKept /\ sessions'[s].at = sessions[s].at /\ sessions'[s].buf = sessions[s].buf
          /\ sessions'[s].list = sessions[s].list /\ FlowFor(s)
      BY <1>0, <1>6, AllChanged DEF FlowsInv
    <3>2. sessions'[s].client = sessions[s].client
      BY <3>1 DEF SessionsKept
    <3>3. Active(s)' => Active(s)
      BY <3>1 DEF Active
    <3> QED BY <2>1, <3>1, <3>2, <3>3, FlowStays
  <2> QED BY <1>1, <2>1, <2>2 DEF FlowsInv
<1>7. ASSUME sessions' = sessions, out' = out PROVE FlowsInv' /\ StreamsInv'
  <2>1. ASSUME NEW s \in 1 .. Len(sessions) PROVE FlowFor(s)'
    BY <1>7, FlowStays DEF FlowsInv, Active
  <2> QED BY <1>1, <1>7, <2>1 DEF FlowsInv
<1>8. ASSUME ~SingleSent, ~\E c \in Client : AddClient(c) \/ Disconnect(c),
             ~\E h \in helpers : HelperDelivers(h), ~\E s \in 1 .. Len(sessions) : Session(s)
      PROVE  sessions' = sessions /\ out' = out
  <2>1. ASSUME NEW c \in Client, ArchiveRequest(c) \/ RemoveClient(c) \/ TakeSingle(c)
        PROVE  sessions' = sessions /\ out' = out
    BY <2>1 DEF ArchiveRequest, RemoveClient, TakeSingle
  <2>2. ASSUME NEW h, HelperTimesOut(h) PROVE sessions' = sessions /\ out' = out
    BY <2>2 DEF HelperTimesOut
  <2>3. ASSUME \/ TakeWrite \/ Record \/ Spread \/ TakeSend \/ SingleTimesOut \/ Returns
               \/ Close \/ RemoveFile \/ LateSync \/ RemoveAllClients \/ UNCHANGED vars
        PROVE  sessions' = sessions /\ out' = out
    BY <2>3 DEF TakeWrite, Record, Spread, TakeSend, SingleTimesOut, Returns,
                Close, RemoveFile, LateSync, RemoveAllClients, vars
  <2>4. ASSUME NEW c \in Client PROVE ~DirectSend(c)
    BY DEF Undisturbed, DirectSend, Arrives
  <2> QED BY <1>0, <1>8, <2>1, <2>2, <2>3, <2>4, ArchiveStep DEF Next, Run
<1> QED BY <1>2, <1>3, <1>4, <1>5, <1>6, <1>7, <1>8

\* No package is ever torn: between two bytes of one, nothing else is written
\* to the socket, whatever is queued, split and merged meanwhile, however many
\* clients there are and wherever they resume.
THEOREM FramesStayIntact == ASSUME Undisturbed PROVE Spec => []FramesIntact
<1> DEFINE Inv == /\ TypeInv /\ BuffersInv /\ ArchiveInv /\ HelpersWhole /\ RunWhole
                  /\ RequestsWhole /\ OneSession /\ FlowsInv /\ StreamsInv
<1>1. Init => Inv
  <2> SUFFICES ASSUME Init PROVE Inv
    OBVIOUS
  <2>1. Len(archive) = 0 /\ Len(sessions) = 0 /\ \A c \in Client : out[c] = << >> /\ Len(out[c]) = 0
    BY DEF Init
  <2>2. ArchiveInv
    <3>1. \A p \in 1 .. Len(archive) : FALSE
      BY <2>1
    <3>2. \A p \in 1 .. Len(archive) - 1 : FALSE
      BY <2>1
    <3> QED BY <2>1, <3>1, <3>2, WholeSums DEF ArchiveInv
  <2>3. \A s \in 1 .. Len(sessions) : FALSE
    BY <2>1
  <2>4. BuffersInv /\ OneSession /\ FlowsInv
    BY <2>1, <2>3 DEF BuffersInv, OneSession, FlowsInv
  <2>5. HelpersWhole /\ RunWhole /\ RequestsWhole
    BY DEF Init, Idle, HelpersWhole, RunWhole, RequestsWhole
  <2>6. StreamsInv
    <3>1. \A c \in Client : \A k \in 1 .. Len(out[c]) - 1 : FALSE
      BY <2>1
    <3> QED BY <2>1, <3>1 DEF StreamsInv, Chained
  <2> QED BY <2>2, <2>4, <2>5, <2>6, InitIsTyped
<1>2. Inv /\ [Next]_vars => Inv'
  BY StepIsTyped, BuffersStep, ArchiveStep, HelpersStep, RunWholeStep, RequestsStep, OneSessionStep,
     FlowsStep
<1>3. Inv => FramesIntact
  BY DEF StreamsInv, Chained, NextUnit, FramesIntact
<1> QED BY <1>1, <1>2, <1>3, PTL DEF Spec
=============================================================================

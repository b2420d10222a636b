------------------------------- MODULE WatchDog -------------------------------
(***************************************************************************)
(* watchDog.go: the process that starts the server, asks it for the list   *)
(* of its rooms every ten seconds, and starts another one when it has      *)
(* ended, or has been killed because nothing came back for thirty.         *)
(*                                                                         *)
(* Time passes in steps of ten seconds, and everything the watch dog's     *)
(* goroutines, the kernel and a server on a free port have to do is done   *)
(* between two steps.  A server may answer when it likes, hang, die, or    *)
(* lose the connection.  Each server has a connection of its own, with its *)
(* goroutines; those of an earlier server are still there when the next    *)
(* one runs.  The answer to a list request is well formed                  *)
(* (RoomManager's handleRoomList), so the router does not fail.            *)
(***************************************************************************)
EXTENDS Integers, FiniteSetsExt

CONSTANTS
  MaxStarts,    \* bound: servers started
  StartWait,    \* steps from startProc to dial
  PingEvery,    \* steps between two requests
  SilentFor,    \* steps without a package after which the server seems dead
  AnswerWithin  \* steps within which a server that is well answers

ASSUME WatchDogAssumption ==
  /\ {MaxStarts, StartWait, PingEvery, SilentFor} \subseteq Nat \ {0}
  /\ AnswerWithin \in Nat /\ PingEvery + AnswerWithin < SilentFor

VARIABLES
  dog,        \* main: "noProc" and "noPort" are its panics
  waited,     \* steps since startProc
  gen,        \* the number of the server that main is busy with
  server,     \* the processes
  killed,     \* those that main has killed
  client,     \* the watch dog's connection to each
  registered, \* is the pinger's callback in its closeCallbackList?
  pinger,     \* the goroutine that sends requests
  pingClock,  \* steps since it started to wait
  asked,      \* requests to which no answer has come, by age
  reader,     \* the goroutine that receives packages, or says dead
  silent,     \* steps since it started to wait
  waiter,     \* the goroutine in proc.Wait
  late        \* history: who has left a request without an answer for too long?

perServer == <<server, killed, client, registered, pinger, pingClock, asked, reader, silent, waiter>>
vars == <<dog, waited, gen, perServer, late>>

Gen == 1 .. MaxStarts

TypeOK ==
  /\ dog \in {"starting", "waiting", "watching", "noProc", "noPort"}
  /\ waited \in 0 .. StartWait
  /\ gen \in 0 .. MaxStarts
  /\ server \in [Gen -> {"none", "starting", "recovering", "up", "hung", "dead"}]
  /\ client \in [Gen -> {"none", "open", "broken", "calling", "closed"}]
  /\ pinger \in [Gen -> {"none", "starting", "waiting", "done"}]
  /\ reader \in [Gen -> {"none", "waiting", "saying", "done"}]
  /\ waiter \in [Gen -> {"none", "waiting", "saying", "done"}]
  /\ {killed, registered, late} \subseteq [Gen -> BOOLEAN]
  /\ pingClock \in [Gen -> 0 .. PingEvery]
  /\ silent \in [Gen -> 0 .. SilentFor]
  /\ asked \in [Gen -> SUBSET (0 .. SilentFor)]

Init ==
  /\ dog = "starting"
  /\ waited = 0
  /\ gen = 0
  /\ server = [g \in Gen |-> "none"]
  /\ client = [g \in Gen |-> "none"]
  /\ pinger = [g \in Gen |-> "none"]
  /\ reader = [g \in Gen |-> "none"]
  /\ waiter = [g \in Gen |-> "none"]
  /\ killed = [g \in Gen |-> FALSE]
  /\ registered = [g \in Gen |-> FALSE]
  /\ late = [g \in Gen |-> FALSE]
  /\ pingClock = [g \in Gen |-> 0]
  /\ silent = [g \in Gen |-> 0]
  /\ asked = [g \in Gen |-> {}]

Alive(g) == server[g] \notin {"none", "dead"}
Listens(g) == server[g] \in {"recovering", "up", "hung"}
Closed(g) == client[g] \in {"calling", "closed"}     \* packageChan is

-----------------------------------------------------------------------------
(* main.                                                                   *)

startProc ==
  /\ dog = "starting"
  /\ gen < MaxStarts
  /\ gen' = gen + 1
  /\ server' = [server EXCEPT ![gen + 1] = "starting"]
  /\ dog' = "waiting"
  /\ waited' = 0
  /\ UNCHANGED <<killed, client, registered, pinger, pingClock, asked, reader, silent, waiter, late>>

startProcPanics ==
  /\ dog = "starting"
  /\ gen < MaxStarts
  /\ dog' = "noProc"
  /\ UNCHANGED <<waited, gen, perServer, late>>

\* Mutant: main does not wait.
HasWaitedNot == TRUE

HasWaited == waited = StartWait

\* dial, loop and watch: the goroutines for this server.
dial ==
  /\ dog = "waiting"
  /\ HasWaited
  /\ Listens(gen)
  /\ dog' = "watching"
  /\ client' = [client EXCEPT ![gen] = "open"]
  /\ pinger' = [pinger EXCEPT ![gen] = "starting"]
  /\ reader' = [reader EXCEPT ![gen] = "waiting"]
  /\ waiter' = [waiter EXCEPT ![gen] = "waiting"]
  /\ UNCHANGED <<waited, gen, server, killed, registered, pingClock, asked, silent, late>>

dialPanics ==
  /\ dog = "waiting"
  /\ HasWaited
  /\ ~Listens(gen)
  /\ dog' = "noPort"
  /\ UNCHANGED <<waited, gen, perServer, late>>

\* The reader's send is received, and it goes back to its select.
Heard(g) ==
  /\ dog = "watching"
  /\ reader[g] = "saying"
  /\ reader' = [reader EXCEPT ![g] = "waiting"]
  /\ silent' = [silent EXCEPT ![g] = 0]
  /\ dog' = "starting"
  /\ UNCHANGED <<waited, gen, server, client, registered, pinger, pingClock, asked, waiter, late>>

\* Mutant: all servers share the channel.
WatchKillsOnAny == \E g \in Gen : Heard(g) /\ killed' = [killed EXCEPT ![gen] = TRUE]

\* Mutant: the server is released only.
WatchReleases == Heard(gen) /\ UNCHANGED killed

WatchKills == gen # 0 /\ Heard(gen) /\ killed' = [killed EXCEPT ![gen] = TRUE]

WatchSeesEnd ==
  /\ dog = "watching"
  /\ waiter[gen] = "saying"
  /\ waiter' = [waiter EXCEPT ![gen] = "done"]
  /\ dog' = "starting"
  /\ UNCHANGED <<waited, gen, server, killed, client, registered, pinger, pingClock, asked, reader, silent, late>>

-----------------------------------------------------------------------------
(* The goroutines for a server.                                            *)

\* Mutant: the goroutine ends without a word.
SaidEndedNot == "done"

SaidEnded == "saying"

WaitReturns(g) ==
  /\ waiter[g] = "waiting"
  /\ server[g] = "dead"
  /\ waiter' = [waiter EXCEPT ![g] = SaidEnded]
  /\ UNCHANGED <<dog, waited, gen, server, killed, client, registered, pinger, pingClock, asked, reader, silent, late>>

\* RegisterCloseCallback, for which Close must not hold the list's lock; what
\* is registered after Close has called everyone is never called.
Registers(g) ==
  /\ pinger[g] = "starting"
  /\ client[g] # "calling"
  /\ registered' = [registered EXCEPT ![g] = client[g] # "closed"]
  /\ pinger' = [pinger EXCEPT ![g] = "waiting"]
  /\ UNCHANGED <<dog, waited, gen, server, killed, client, pingClock, asked, reader, silent, waiter, late>>

\* Mutant: there is no timer any more once the connection has been lost.
PingDueWhileOpen(g) == client[g] = "open" /\ pingClock[g] = PingEvery

PingDue(g) == pingClock[g] = PingEvery

\* Mutant: one loop has both timers, and a request starts both again.
sendMessageTimersShared(g) ==
  /\ pinger[g] = "waiting"
  /\ PingDue(g)
  /\ pingClock' = [pingClock EXCEPT ![g] = 0]
  /\ silent' = [silent EXCEPT ![g] = 0]
  /\ asked' = IF client[g] = "open" THEN [asked EXCEPT ![g] = @ \cup {0}] ELSE asked
  /\ UNCHANGED <<dog, waited, gen, server, killed, client, registered, pinger, reader, waiter, late>>

\* On a connection that is gone the request fails, which nobody looks at.
sendMessage(g) ==
  /\ pinger[g] = "waiting"
  /\ PingDue(g)
  /\ pingClock' = [pingClock EXCEPT ![g] = 0]
  /\ asked' = IF client[g] = "open" THEN [asked EXCEPT ![g] = @ \cup {0}] ELSE asked
  /\ UNCHANGED <<dog, waited, gen, server, killed, client, registered, pinger, reader, silent, waiter, late>>

\* Mutant: the timer is not started again.
TimerRestartNot(g) == UNCHANGED silent

\* Each turn of the reader's loop starts a timer.
TimerRestart(g) == silent' = [silent EXCEPT ![g] = 0]

\* An answer has come all the way to the reader's select.
AnswerArrives(g) ==
  /\ reader[g] = "waiting"
  /\ client[g] = "open"
  /\ server[g] = "up"
  /\ asked[g] # {}
  /\ asked' = [asked EXCEPT ![g] = @ \ {Max(@)}]
  /\ TimerRestart(g)
  /\ UNCHANGED <<dog, waited, gen, server, killed, client, registered, pinger, pingClock, reader, waiter, late>>

ReaderEnds(g) ==
  /\ reader[g] = "waiting"
  /\ Closed(g)
  /\ reader' = [reader EXCEPT ![g] = "done"]
  /\ UNCHANGED <<dog, waited, gen, server, killed, client, registered, pinger, pingClock, asked, silent, waiter, late>>

ReaderSaysDead(g) ==
  /\ reader[g] = "waiting"
  /\ silent[g] = SilentFor
  /\ reader' = [reader EXCEPT ![g] = "saying"]
  /\ UNCHANGED <<dog, waited, gen, server, killed, client, registered, pinger, pingClock, asked, silent, waiter, late>>

\* SocketClient.Close, called by the read loop.
Closes(g) ==
  /\ client[g] = "broken"
  /\ client' = [client EXCEPT ![g] = "calling"]
  /\ asked' = [asked EXCEPT ![g] = {}]
  /\ UNCHANGED <<dog, waited, gen, server, killed, registered, pinger, pingClock, reader, silent, waiter, late>>

\* Mutant: the pinger goes back to its select.
HeardClosedNot == "waiting"

HeardClosed == "done"

\* The callback waits until the pinger receives, and the pinger ends.
CallsBack(g) ==
  /\ client[g] = "calling"
  /\ registered[g] => pinger[g] = "waiting"
  /\ client' = [client EXCEPT ![g] = "closed"]
  /\ pinger' = IF registered[g] THEN [pinger EXCEPT ![g] = HeardClosed] ELSE pinger
  /\ UNCHANGED <<dog, waited, gen, server, killed, registered, pingClock, asked, reader, silent, waiter, late>>

-----------------------------------------------------------------------------
(* The servers.                                                            *)

Becomes(g, s) ==
  /\ server' = [server EXCEPT ![g] = s]
  /\ UNCHANGED <<dog, waited, gen, killed, registered, pinger, pingClock, asked, reader, silent, waiter, late>>

\* RoomManager's init: ListenTCP is tried again until the port is free, and
\* the rooms are recovered before the first connection is accepted.
Listening(g) ==
  /\ server[g] = "starting"
  /\ \A h \in Gen : ~Listens(h)
  /\ Becomes(g, "recovering")
  /\ UNCHANGED client

Accepting(g) == server[g] = "recovering" /\ Becomes(g, "up") /\ UNCHANGED client

Hangs(g) == server[g] \in {"recovering", "up"} /\ Becomes(g, "hung") /\ UNCHANGED client

Broken(g) == IF client[g] = "open" THEN [client EXCEPT ![g] = "broken"] ELSE client

Dies(g) == Alive(g) /\ Becomes(g, "dead") /\ client' = Broken(g)

ConnectionBreaks(g) ==
  /\ client[g] = "open"
  /\ client' = Broken(g)
  /\ UNCHANGED <<dog, waited, gen, server, killed, registered, pinger, pingClock, asked, reader, silent, waiter, late>>

-----------------------------------------------------------------------------
(* Time.                                                                   *)

Goroutine(g) ==
  \/ WaitReturns(g) \/ Registers(g) \/ sendMessage(g) \/ ReaderEnds(g) \/ ReaderSaysDead(g)
  \/ Closes(g) \/ CallsBack(g)

Main == startProc \/ dial \/ dialPanics \/ WatchKills \/ WatchSeesEnd

\* A server on a free port listens, and one that has been killed dies.
Kernel(g) == Listening(g) \/ (killed[g] /\ Dies(g))

Older(ages) == {Min({a + 1, SilentFor}) : a \in ages}

\* Has main something to do at once?
MainBusy ==
  \/ dog = "starting" /\ gen < MaxStarts
  \/ dog = "waiting" /\ HasWaited
  \/ dog = "watching" /\ "saying" \in {reader[gen], waiter[gen]}

\* Have a server's goroutines, or the kernel?
Busy(g) ==
  \/ waiter[g] = "waiting" /\ server[g] = "dead"
  \/ pinger[g] = "starting" /\ client[g] # "calling"
  \/ pinger[g] = "waiting" /\ PingDue(g)
  \/ reader[g] = "waiting" /\ (Closed(g) \/ silent[g] = SilentFor)
  \/ client[g] = "broken"
  \/ client[g] = "calling" /\ (registered[g] => pinger[g] = "waiting")
  \/ server[g] = "starting" /\ \A h \in Gen : ~Listens(h)
  \/ killed[g] /\ Alive(g)

\* That is, no step of Main, Goroutine(g) or Kernel(g) is enabled.
Quiet == ~MainBusy /\ \A g \in Gen : ~Busy(g)

Tick ==
  /\ Quiet
  /\ waited' = IF dog = "waiting" THEN waited + 1 ELSE waited
  /\ pingClock' = [g \in Gen |-> IF pinger[g] = "waiting" THEN pingClock[g] + 1 ELSE pingClock[g]]
  /\ silent' = [g \in Gen |-> IF reader[g] = "waiting" THEN silent[g] + 1 ELSE silent[g]]
  /\ asked' = [g \in Gen |-> Older(asked[g])]
  /\ late' = [g \in Gen |-> late[g] \/ \E a \in asked[g] : a >= AnswerWithin]
  /\ UNCHANGED <<dog, gen, server, killed, client, registered, pinger, reader, waiter>>

Next ==
  \/ Main \/ startProcPanics \/ Tick
  \/ \E g \in Gen : \/ Goroutine(g) \/ AnswerArrives(g)
                    \/ Listening(g) \/ Accepting(g) \/ Hangs(g) \/ Dies(g) \/ ConnectionBreaks(g)

Spec == Init /\ [][Next]_vars

\* Time goes on, and everything prompt is done.  When a server answers or
\* accepts, whether it hangs or dies, and whether a process can be started at
\* all, is nobody's duty.
FairSpec ==
  /\ Spec
  /\ WF_vars(Tick) /\ WF_vars(Main)
  /\ \A g \in Gen : WF_vars(Goroutine(g)) /\ WF_vars(Kernel(g))

-----------------------------------------------------------------------------
(* Properties.                                                             *)

\* A server that has answered each request in time is never killed, whenever
\* the requests are sent and whatever the goroutines of earlier servers,
\* which may still wait to say that theirs is dead, are up to.
WellIsNotKilled == \A g \in Gen : killed[g] => late[g]

\* No server is started while an earlier one goes on, unless main has sent that
\* one the signal to die; it may not have died of it yet.
OneServer == \A g, h \in Gen : g < h /\ Alive(g) /\ server[h] # "none" => killed[g]

\* The watch dog is not the victim of a kill of its own: dial finds the new
\* server's port, although that server had to wait for the old one's, unless
\* the new server has ended by itself.
DialFindsServer == dog = "noPort" => server[gen] = "dead" /\ ~killed[gen]

\* A server that hangs while the watch dog is connected to it does not go on,
\* and one that has ended after dial is replaced, with the connection or
\* without it.  (A broken connection leaves a server that hangs unwatched.)
UnwellIsReplaced ==
  \A g \in Gen :
    /\ (server[g] = "hung" /\ client[g] = "open") ~> (server[g] = "dead" \/ client[g] # "open")
    /\ (dog = "watching" /\ gen = g /\ server[g] = "dead") ~> (dog # "watching" \/ gen # g)

\* A lost connection leaves no goroutine behind, but for a reader that says
\* dead to nobody and a pinger that had not registered in time.
ConnectionEnds ==
  \A g \in Gen :
    client[g] = "closed" ~> /\ reader[g] \in {"done", "saying"}
                            /\ pinger[g] = "done" \/ ~registered[g]

-----------------------------------------------------------------------------
(* The inductive invariant behind the invariants above.                    *)

StartedUpToGen == \A g \in Gen : server[g] # "none" <=> g <= gen

\* Before it starts another one, main has killed the server or seen its end.
EarlierAreOver ==
  \A g \in Gen : g < gen \/ (g = gen /\ dog \in {"starting", "noProc"}) => (Alive(g) => killed[g])

SaidEndedHasEnded == \A g \in Gen : waiter[g] = "saying" => server[g] = "dead"

WatchingSome == dog \in {"waiting", "watching", "noPort"} => gen # 0

\* The types of what is not a clock.
ProcessesTypeOK ==
  /\ dog \in {"starting", "waiting", "watching", "noProc", "noPort"}
  /\ gen \in 0 .. MaxStarts
  /\ server \in [Gen -> {"none", "starting", "recovering", "up", "hung", "dead"}]
  /\ killed \in [Gen -> BOOLEAN]
  /\ waiter \in [Gen -> {"none", "waiting", "saying", "done"}]

OneServerInv ==
  /\ ProcessesTypeOK
  /\ StartedUpToGen /\ EarlierAreOver /\ SaidEndedHasEnded /\ WatchingSome

\* Only servers that main has done with are killed.
KilledIsOver ==
  \A g \in Gen : killed[g] => g < gen \/ (g = gen /\ dog \in {"starting", "noProc"})

\* One step is enough for a server to find its port free: who held it has
\* been killed, and is dead before time goes on.
ListeningInTime == dog = "waiting" /\ waited > 0 => server[gen] # "starting"

DialInv == KilledIsOver /\ ListeningInTime /\ DialFindsServer

\* What belongs to a connection is not there before dial.
NotDialedYet ==
  /\ \A g \in Gen : g > gen \/ (g = gen /\ dog = "waiting") => client[g] = "none"
  /\ \A g \in Gen : client[g] = "none" => /\ reader[g] = "none" /\ pinger[g] = "none"
                                        /\ silent[g] = 0 /\ asked[g] = {}

PingerIsThere == \A g \in Gen : client[g] = "open" => pinger[g] \in {"starting", "waiting"}

AnsweredInTime == \A g \in Gen : ~late[g] => \A a \in asked[g] : a <= AnswerWithin

\* While every request is answered in time, the silence is not older than the
\* wait for a request and that for its answer.
SilenceIsShort ==
  \A g \in Gen :
    reader[g] = "waiting" /\ ~late[g] =>
      /\ silent[g] <= PingEvery + AnswerWithin
      /\ client[g] = "open" => \/ silent[g] <= pingClock[g] /\ asked[g] = {}
                              \/ \E a \in asked[g] : silent[g] <= PingEvery + a

SaidDeadWasLate == \A g \in Gen : reader[g] = "saying" => late[g]

WellInv ==
  /\ NotDialedYet /\ PingerIsThere
  /\ AnsweredInTime /\ SilenceIsShort /\ SaidDeadWasLate /\ WellIsNotKilled

WatchDogInv == TypeOK /\ OneServerInv /\ DialInv /\ WellInv
=============================================================================

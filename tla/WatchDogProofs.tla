---------------------------- MODULE WatchDogProofs ----------------------------
(***************************************************************************)
(* Proofs about the watch dog, for any number of starts and any timeouts:  *)
(* what main does with its processes, that the clocks stay within their    *)
(* bounds, and what follows for who is killed.                             *)
(***************************************************************************)
EXTENDS WatchDog, TLAPS

LEMMA InitInv == Init => OneServerInv
BY WatchDogAssumption DEF Init, OneServerInv, ProcessesTypeOK, StartedUpToGen, EarlierAreOver,
     SaidEndedHasEnded, WatchingSome, Alive, Gen

\* Steps that leave main, the processes and their waiters alone.
LEMMA OtherSteps ==
  ASSUME OneServerInv, UNCHANGED <<dog, gen, server, killed, waiter>>
  PROVE  OneServerInv'
BY DEF OneServerInv, ProcessesTypeOK, StartedUpToGen, EarlierAreOver, SaidEndedHasEnded,
       WatchingSome, Alive

\* A server only goes from one state of its life to another.
LEMMA ServerSteps ==
  ASSUME OneServerInv, NEW g \in Gen, NEW s \in {"recovering", "up", "hung", "dead"},
         Alive(g), Becomes(g, s)
  PROVE  OneServerInv'
<1>1. /\ UNCHANGED <<dog, gen, killed, waiter>> /\ server' = [server EXCEPT ![g] = s]
      /\ server[g] \notin {"none", "dead"}
  BY DEF Becomes, Alive
<1>2. ProcessesTypeOK'
  BY <1>1 DEF OneServerInv, ProcessesTypeOK
<1>3. \A h \in Gen : Alive(h)' => Alive(h)
  BY <1>1 DEF OneServerInv, ProcessesTypeOK, Alive
<1>4. StartedUpToGen' /\ SaidEndedHasEnded'
  BY <1>1 DEF OneServerInv, ProcessesTypeOK, StartedUpToGen, SaidEndedHasEnded
<1>5. EarlierAreOver'
  BY <1>1, <1>3 DEF OneServerInv, EarlierAreOver
<1> QED BY <1>1, <1>2, <1>4, <1>5 DEF OneServerInv, WatchingSome

\* Every step of the watch dog and its servers keeps the invariant.
LEMMA NextInv == OneServerInv /\ [Next]_vars => OneServerInv'
<1> SUFFICES ASSUME OneServerInv, [Next]_vars PROVE OneServerInv'
  OBVIOUS
<1> USE WatchDogAssumption DEF OneServerInv
<1>1. CASE startProc
  <2>1. /\ dog = "starting" /\ dog' = "waiting" /\ gen < MaxStarts /\ gen' = gen + 1
        /\ server' = [server EXCEPT ![gen + 1] = "starting"]
        /\ UNCHANGED <<killed, waiter>>
    BY <1>1 DEF startProc
  <2>2. gen \in Nat /\ gen + 1 \in Gen /\ \A g \in Gen : g \in Nat
    BY <2>1 DEF ProcessesTypeOK, Gen
  <2>3. /\ server'[gen + 1] = "starting"
        /\ \A g \in Gen : g # gen + 1 => server'[g] = server[g]
    BY <2>1, <2>2 DEF ProcessesTypeOK
  <2>4. ProcessesTypeOK'
    BY <2>1, <2>2 DEF ProcessesTypeOK, Gen
  <2>5. StartedUpToGen'
    BY <2>1, <2>2, <2>3 DEF StartedUpToGen
  <2>6. EarlierAreOver'
    BY <2>1, <2>2, <2>3 DEF EarlierAreOver, Alive
  <2>7. SaidEndedHasEnded'
    BY <2>1, <2>2, <2>3 DEF SaidEndedHasEnded, StartedUpToGen
  <2>8. WatchingSome'
    BY <2>1, <2>2 DEF WatchingSome
  <2> QED BY <2>4, <2>5, <2>6, <2>7, <2>8
<1>2. CASE startProcPanics
  BY <1>2 DEF startProcPanics, perServer, ProcessesTypeOK, StartedUpToGen, EarlierAreOver,
              SaidEndedHasEnded, WatchingSome, Alive
<1>3. CASE dial
  <2>1. /\ dog = "waiting" /\ dog' = "watching" /\ UNCHANGED <<gen, server, killed>>
        /\ waiter' = [waiter EXCEPT ![gen] = "waiting"]
    BY <1>3 DEF dial
  <2> QED BY <2>1 DEF ProcessesTypeOK, StartedUpToGen, EarlierAreOver, SaidEndedHasEnded,
                      WatchingSome, Alive
<1>4. CASE dialPanics
  BY <1>4 DEF dialPanics, perServer, ProcessesTypeOK, StartedUpToGen, EarlierAreOver,
              SaidEndedHasEnded, WatchingSome, Alive
<1>5. CASE WatchKills
  <2>1. /\ dog = "watching" /\ dog' = "starting" /\ UNCHANGED <<gen, server, waiter>>
        /\ killed' = [killed EXCEPT ![gen] = TRUE]
    BY <1>5 DEF WatchKills, Heard
  <2>2. \A g \in Gen : killed[g] => killed'[g]
    BY <2>1 DEF ProcessesTypeOK
  <2>3. gen \in Gen => killed'[gen]
    BY <2>1 DEF ProcessesTypeOK
  <2> QED BY <2>1, <2>2, <2>3 DEF ProcessesTypeOK, StartedUpToGen, EarlierAreOver,
                                  SaidEndedHasEnded, WatchingSome, Alive
<1>6. CASE WatchSeesEnd
  <2>1. /\ dog = "watching" /\ dog' = "starting" /\ UNCHANGED <<gen, server, killed>>
        /\ waiter[gen] = "saying" /\ waiter' = [waiter EXCEPT ![gen] = "done"]
    BY <1>6 DEF WatchSeesEnd
  <2>2. gen \in Gen
    BY <2>1 DEF ProcessesTypeOK, WatchingSome, Gen
  <2>3. server[gen] = "dead"
    BY <2>1, <2>2 DEF SaidEndedHasEnded
  <2> QED BY <2>1, <2>2, <2>3 DEF ProcessesTypeOK, StartedUpToGen, EarlierAreOver,
                                  SaidEndedHasEnded, WatchingSome, Alive
<1>7. CASE Tick
  BY <1>7, OtherSteps DEF Tick
<1>8. ASSUME NEW g \in Gen, Goroutine(g) PROVE OneServerInv'
  <2>1. CASE WaitReturns(g)
    <3>1. /\ server[g] = "dead" /\ waiter' = [waiter EXCEPT ![g] = "saying"]
          /\ UNCHANGED <<dog, gen, server, killed>>
      BY <2>1 DEF WaitReturns, SaidEnded
    <3> QED BY <3>1 DEF ProcessesTypeOK, StartedUpToGen, EarlierAreOver, SaidEndedHasEnded,
                        WatchingSome, Alive
  <2>2. CASE \/ Registers(g) \/ sendMessage(g) \/ ReaderEnds(g) \/ ReaderSaysDead(g)
             \/ Closes(g) \/ CallsBack(g)
    BY <2>2, OtherSteps DEF Registers, sendMessage, ReaderEnds, ReaderSaysDead, Closes, CallsBack
  <2> QED BY <1>8, <2>1, <2>2 DEF Goroutine
<1>9. ASSUME NEW g \in Gen, AnswerArrives(g) \/ ConnectionBreaks(g) PROVE OneServerInv'
  BY <1>9, OtherSteps DEF AnswerArrives, ConnectionBreaks
<1>10. ASSUME NEW g \in Gen, Listening(g) \/ Accepting(g) \/ Hangs(g) \/ Dies(g)
       PROVE  OneServerInv'
  <2>1. PICK s \in {"recovering", "up", "hung", "dead"} : Alive(g) /\ Becomes(g, s)
    BY <1>10 DEF Listening, Accepting, Hangs, Dies, Alive
  <2> QED BY <2>1, ServerSteps
<1>11. CASE UNCHANGED vars
  BY <1>11, OtherSteps DEF vars, perServer
<1> QED BY <1>1, <1>2, <1>3, <1>4, <1>5, <1>6, <1>7, <1>8, <1>9, <1>10, <1>11
        DEF Next, Main

\* No server is started while an earlier one goes on that has not been killed.
THEOREM OneServerAtATime == Spec => []OneServer
<1>1. OneServerInv => OneServer
  <2> SUFFICES ASSUME OneServerInv, NEW g \in Gen, NEW h \in Gen, g < h, Alive(g), server[h] # "none"
               PROVE  killed[g]
    BY DEF OneServer
  <2>1. h <= gen /\ gen \in Nat /\ g \in Nat /\ h \in Nat
    BY DEF OneServerInv, ProcessesTypeOK, StartedUpToGen, Gen
  <2>2. g < gen
    BY <2>1
  <2> QED BY <2>2 DEF OneServerInv, EarlierAreOver
<1> QED BY <1>1, InitInv, NextInv, PTL DEF Spec

-----------------------------------------------------------------------------
(* The clocks.                                                             *)

\* Quiet negates the guards of what is prompt.
LEMMA QuietIsIdle == ASSUME Quiet, NEW g \in Gen PROVE ~Main /\ ~Goroutine(g) /\ ~Kernel(g)
<1>1. ~Main
  BY DEF Quiet, MainBusy, Main, startProc, dial, dialPanics, WatchKills, Heard, WatchSeesEnd
<1>2. ~Busy(g)
  BY DEF Quiet
<1>3. ~Goroutine(g)
  BY <1>2 DEF Busy, Goroutine, WaitReturns, Registers, sendMessage, ReaderEnds, ReaderSaysDead,
              Closes, CallsBack
<1>4. ~Kernel(g)
  BY <1>2 DEF Busy, Kernel, Listening, Dies
<1> QED BY <1>1, <1>3, <1>4

\* The smaller of two numbers.
LEMMA MinOfTwo ==
  ASSUME NEW a \in Nat, NEW b \in Nat
  PROVE  Min({a, b}) = IF a <= b THEN a ELSE b
BY DEF Min

\* What becomes of the ages of the requests in a step of time.
LEMMA OlderAges ==
  ASSUME NEW ages \in SUBSET (0 .. SilentFor)
  PROVE  /\ Older(ages) \in SUBSET (0 .. SilentFor)
         /\ \A b \in Older(ages) : \E a \in ages : b <= a + 1
         /\ \A a \in ages : a < SilentFor => a + 1 \in Older(ages)
<1>1. SilentFor \in Nat \ {0} /\ \A a \in ages : a \in Nat /\ a <= SilentFor
  BY WatchDogAssumption
<1>2. \A a \in ages : Min({a + 1, SilentFor}) = IF a + 1 <= SilentFor THEN a + 1 ELSE SilentFor
  BY <1>1, MinOfTwo
<1>3. ASSUME NEW a \in ages
      PROVE  /\ Min({a + 1, SilentFor}) \in 0 .. SilentFor /\ Min({a + 1, SilentFor}) <= a + 1
             /\ a < SilentFor => Min({a + 1, SilentFor}) = a + 1
  BY <1>1, <1>2
<1>4. ASSUME NEW b \in Older(ages) PROVE b \in 0 .. SilentFor /\ \E a \in ages : b <= a + 1
  BY <1>3, <1>4 DEF Older
<1>5. ASSUME NEW a \in ages, a < SilentFor PROVE a + 1 \in Older(ages)
  <2>1. Min({a + 1, SilentFor}) \in Older(ages)
    BY DEF Older
  <2> QED BY <1>3, <1>5, <2>1
<1> QED BY <1>4, <1>5

LEMMA InitTypes == Init => TypeOK
BY WatchDogAssumption DEF Init, TypeOK, Gen

\* Before a step of time, no clock has run out: what it starts is done first.
LEMMA TypeStep ==
  ASSUME TypeOK, OneServerInv, [Next]_vars
  PROVE  TypeOK'
<1> USE WatchDogAssumption DEF TypeOK
<1>1. CASE Main \/ startProcPanics
  <2>1. dog \in {"waiting", "watching"} => gen \in Gen
    BY DEF OneServerInv, WatchingSome, Gen
  <2>2. CASE startProc
    <3>1. gen + 1 \in Gen /\ gen + 1 \in 0 .. MaxStarts
      BY <2>2 DEF startProc, Gen
    <3> QED BY <2>2, <3>1 DEF startProc
  <2>3. CASE startProcPanics \/ dialPanics
    BY <2>3 DEF startProcPanics, dialPanics, perServer
  <2>4. CASE dial
    BY <2>4 DEF dial
  <2>5. CASE WatchKills
    <3>1. /\ dog' = "starting" /\ reader' = [reader EXCEPT ![gen] = "waiting"]
          /\ silent' = [silent EXCEPT ![gen] = 0] /\ killed' = [killed EXCEPT ![gen] = TRUE]
          /\ UNCHANGED <<waited, gen, server, client, registered, pinger, pingClock, asked, waiter, late>>
      BY <2>5 DEF WatchKills, Heard
    <3>2. killed' \in [Gen -> BOOLEAN]
      BY <3>1
    <3> QED BY <3>1, <3>2
  <2>6. CASE WatchSeesEnd
    BY <2>6 DEF WatchSeesEnd
  <2> QED BY <1>1, <2>2, <2>3, <2>4, <2>5, <2>6 DEF Main
<1>2. CASE Tick
  <2>1. waited' \in 0 .. StartWait
    <3>1. dog = "waiting" => waited # StartWait
      BY <1>2 DEF Tick, Quiet, MainBusy, HasWaited
    <3> QED BY <1>2, <3>1 DEF Tick
  <2>2. pingClock' \in [Gen -> 0 .. PingEvery]
    <3>1. \A g \in Gen : pinger[g] = "waiting" => pingClock[g] # PingEvery
      BY <1>2 DEF Tick, Quiet, Busy, PingDue
    <3>2. \A g \in Gen : pingClock[g] \in 0 .. PingEvery /\ PingEvery \in Nat
      OBVIOUS
    <3>3. pingClock' = [g \in Gen |-> IF pinger[g] = "waiting" THEN pingClock[g] + 1 ELSE pingClock[g]]
      BY <1>2 DEF Tick
    <3> HIDE DEF TypeOK
    <3>4. \A g \in Gen : (IF pinger[g] = "waiting" THEN pingClock[g] + 1 ELSE pingClock[g]) \in 0 .. PingEvery
      BY <3>1, <3>2
    <3> QED BY <3>3, <3>4
  <2>3. silent' \in [Gen -> 0 .. SilentFor]
    <3>1. \A g \in Gen : reader[g] = "waiting" => silent[g] # SilentFor
      BY <1>2 DEF Tick, Quiet, Busy, PingDue
    <3>2. \A g \in Gen : silent[g] \in 0 .. SilentFor /\ SilentFor \in Nat
      OBVIOUS
    <3>3. silent' = [g \in Gen |-> IF reader[g] = "waiting" THEN silent[g] + 1 ELSE silent[g]]
      BY <1>2 DEF Tick
    <3> HIDE DEF TypeOK
    <3>4. \A g \in Gen : (IF reader[g] = "waiting" THEN silent[g] + 1 ELSE silent[g]) \in 0 .. SilentFor
      BY <3>1, <3>2
    <3> QED BY <3>3, <3>4
  <2>4. asked' \in [Gen -> SUBSET (0 .. SilentFor)]
    BY <1>2, OlderAges DEF Tick
  <2>5. late' \in [Gen -> BOOLEAN]
    BY <1>2, Zenon DEF Tick
  <2> QED BY <1>2, <2>1, <2>2, <2>3, <2>4, <2>5 DEF Tick
<1>3. ASSUME NEW g \in Gen, Goroutine(g) PROVE TypeOK'
  <2>1. CASE WaitReturns(g)
    BY <2>1 DEF WaitReturns, SaidEnded
  <2>2. CASE Registers(g)
    BY <2>2 DEF Registers
  <2>3. CASE sendMessage(g)
    BY <2>3 DEF sendMessage
  <2>4. CASE ReaderEnds(g) \/ ReaderSaysDead(g)
    BY <2>4 DEF ReaderEnds, ReaderSaysDead
  <2>5. CASE Closes(g)
    BY <2>5 DEF Closes
  <2>6. CASE CallsBack(g)
    BY <2>6 DEF CallsBack, HeardClosed
  <2> QED BY <1>3, <2>1, <2>2, <2>3, <2>4, <2>5, <2>6 DEF Goroutine
<1>4. ASSUME NEW g \in Gen, AnswerArrives(g) PROVE TypeOK'
  BY <1>4 DEF AnswerArrives, TimerRestart
<1>5. ASSUME NEW g \in Gen, Listening(g) \/ Accepting(g) \/ Hangs(g) \/ Dies(g) \/ ConnectionBreaks(g)
      PROVE  TypeOK'
  BY <1>5 DEF Listening, Accepting, Hangs, Dies, ConnectionBreaks, Becomes, Broken
<1>6. CASE UNCHANGED vars
  BY <1>6 DEF vars, perServer
<1> QED BY <1>1, <1>2, <1>3, <1>4, <1>5, <1>6 DEF Next

-----------------------------------------------------------------------------
(* Who is killed.                                                          *)

LEMMA InitWell == Init => DialInv /\ WellInv
BY WatchDogAssumption DEF Init, DialInv, KilledIsOver, ListeningInTime, DialFindsServer, WellInv,
     NotDialedYet, PingerIsThere, AnsweredInTime, SilenceIsShort, SaidDeadWasLate, WellIsNotKilled

\* Main kills only the server it is busy with, and has done with it then; a
\* new server finds its port in the step of time in which it is started.
LEMMA DialStep ==
  ASSUME TypeOK, OneServerInv, DialInv, [Next]_vars
  PROVE  DialInv'
<1> USE WatchDogAssumption DEF DialInv, KilledIsOver, ListeningInTime, DialFindsServer
<1>0. /\ gen \in 0 .. MaxStarts /\ MaxStarts \in Nat /\ \A g \in Gen : g \in 1 .. MaxStarts
      /\ dog \in {"waiting", "watching", "noPort"} => gen \in Gen
      /\ waited \in 0 .. StartWait /\ StartWait \in Nat \ {0}
      /\ killed \in [Gen -> BOOLEAN]
      /\ server \in [Gen -> {"none", "starting", "recovering", "up", "hung", "dead"}]
  BY DEF OneServerInv, WatchingSome, TypeOK, Gen
<1>1. CASE startProc
  <2>1. /\ dog' = "waiting" /\ gen' = gen + 1 /\ waited' = 0 /\ UNCHANGED killed
    BY <1>1 DEF startProc
  <2> QED BY <1>0, <2>1
<1>2. CASE startProcPanics
  BY <1>0, <1>2 DEF startProcPanics, perServer
<1>3. CASE dial
  BY <1>0, <1>3 DEF dial
<1>4. CASE dialPanics
  <2>1. /\ dog = "waiting" /\ waited = StartWait /\ ~Listens(gen) /\ dog' = "noPort"
        /\ UNCHANGED <<waited, gen, server, killed>>
    BY <1>4 DEF dialPanics, HasWaited, perServer
  <2>2. server[gen] # "none"
    BY <1>0, <2>1 DEF OneServerInv, StartedUpToGen
  <2>3. server[gen] = "dead"
    BY <1>0, <2>1, <2>2 DEF Listens
  <2> QED BY <1>0, <2>1, <2>3
<1>5. CASE WatchKills
  <2>1. /\ dog = "watching" /\ dog' = "starting" /\ UNCHANGED <<gen, server, waited>>
        /\ killed' = [killed EXCEPT ![gen] = TRUE]
    BY <1>5 DEF WatchKills, Heard
  <2>2. \A g \in Gen : killed'[g] => killed[g] \/ g = gen
    BY <1>0, <2>1
  <2> QED BY <1>0, <2>1, <2>2
<1>6. CASE WatchSeesEnd
  BY <1>0, <1>6 DEF WatchSeesEnd
<1>7. CASE Tick
  <2>1. UNCHANGED <<dog, gen, server, killed>>
    BY <1>7 DEF Tick
  <2>2. ASSUME dog = "waiting", server[gen] = "starting" PROVE FALSE
    <3>1. PICK h \in Gen : Listens(h)
      BY <1>0, <1>7, <2>2 DEF Tick, Quiet, Busy
    <3>2. h < gen
      BY <1>0, <2>2, <3>1 DEF Listens, OneServerInv, StartedUpToGen
    <3>3. Alive(h)
      BY <3>1 DEF Listens, Alive
    <3>4. killed[h]
      BY <3>2, <3>3 DEF OneServerInv, EarlierAreOver
    <3> QED BY <1>7, <3>3, <3>4 DEF Tick, Quiet, Busy
  <2> QED BY <1>0, <2>1, <2>2
<1>8. ASSUME NEW g \in Gen, Goroutine(g) \/ AnswerArrives(g) \/ ConnectionBreaks(g) PROVE DialInv'
  <2>1. UNCHANGED <<dog, waited, gen, server, killed>>
    BY <1>8 DEF Goroutine, WaitReturns, Registers, sendMessage, ReaderEnds, ReaderSaysDead,
                Closes, CallsBack, AnswerArrives, ConnectionBreaks
  <2> QED BY <2>1
<1>9. ASSUME NEW g \in Gen, Listening(g) \/ Accepting(g) \/ Hangs(g) \/ Dies(g) PROVE DialInv'
  <2>1. PICK s \in {"recovering", "up", "hung", "dead"} : Alive(g) /\ Becomes(g, s)
    BY <1>9 DEF Listening, Accepting, Hangs, Dies, Alive
  <2>2. /\ UNCHANGED <<dog, waited, gen, killed>> /\ server' = [server EXCEPT ![g] = s]
        /\ server[g] # "dead"
    BY <2>1 DEF Becomes, Alive
  <2> QED BY <1>0, <2>2
<1>10. CASE UNCHANGED vars
  BY <1>10 DEF vars, perServer
<1> QED BY <1>1, <1>2, <1>3, <1>4, <1>5, <1>6, <1>7, <1>8, <1>9, <1>10 DEF Next, Main

\* The types of a server's connection.
ConnectionTypeOK ==
  /\ gen \in 0 .. MaxStarts /\ \A g \in Gen : g \in 1 .. MaxStarts
  /\ client \in [Gen -> {"none", "open", "broken", "calling", "closed"}]
  /\ pinger \in [Gen -> {"none", "starting", "waiting", "done"}]
  /\ reader \in [Gen -> {"none", "waiting", "saying", "done"}]
  /\ pingClock \in [Gen -> 0 .. PingEvery] /\ silent \in [Gen -> 0 .. SilentFor]
  /\ asked \in [Gen -> SUBSET (0 .. SilentFor)]

\* What a step keeps that touches one connection at most, and no history.
Elsewhere(g) ==
  /\ UNCHANGED <<dog, gen, killed, late>>
  /\ \A h \in Gen \ {g} :
       /\ client'[h] = client[h] /\ reader'[h] = reader[h] /\ pinger'[h] = pinger[h]
       /\ silent'[h] = silent[h] /\ asked'[h] = asked[h] /\ pingClock'[h] = pingClock[h]

\* WellInv for one server; that of the others is as it was.
WellAt(g) ==
  /\ g > gen \/ (g = gen /\ dog = "waiting") => client[g] = "none"
  /\ client[g] = "none" => reader[g] = "none" /\ pinger[g] = "none" /\ silent[g] = 0 /\ asked[g] = {}
  /\ client[g] = "open" => pinger[g] \in {"starting", "waiting"}
  /\ ~late[g] => \A a \in asked[g] : a <= AnswerWithin
  /\ reader[g] = "waiting" /\ ~late[g] =>
       /\ silent[g] <= PingEvery + AnswerWithin
       /\ client[g] = "open" => \/ silent[g] <= pingClock[g] /\ asked[g] = {}
                                \/ \E a \in asked[g] : silent[g] <= PingEvery + a
  /\ reader[g] = "saying" => late[g]
  /\ killed[g] => late[g]

LEMMA WellEverywhere == WellInv <=> \A g \in Gen : WellAt(g)
BY DEF WellInv, WellAt, NotDialedYet, PingerIsThere, AnsweredInTime, SilenceIsShort,
       SaidDeadWasLate, WellIsNotKilled

LEMMA WellElsewhere ==
  ASSUME WellInv, NEW g \in Gen, Elsewhere(g), WellAt(g)'
  PROVE  WellInv'
<1>1. \A h \in Gen \ {g} : WellAt(h)'
  BY WellEverywhere DEF WellAt, Elsewhere
<1>2. \A h \in Gen : WellAt(h)'
  BY <1>1
<1> QED BY <1>2 DEF WellInv, WellAt, NotDialedYet, PingerIsThere, AnsweredInTime, SilenceIsShort,
                    SaidDeadWasLate, WellIsNotKilled

\* A step of one server's goroutines.
LEMMA WellGoroutine ==
  ASSUME TypeOK, WellInv, NEW g \in Gen, Goroutine(g)
  PROVE  WellInv'
<1>0. ConnectionTypeOK /\ WellAt(g)
  BY WellEverywhere DEF TypeOK, ConnectionTypeOK, Gen
<1> USE WatchDogAssumption DEF ConnectionTypeOK
<1>1. CASE WaitReturns(g)
  <2>1. UNCHANGED <<dog, gen, killed, late, client, reader, pinger, silent, asked, pingClock>>
    BY <1>1 DEF WaitReturns
  <2> QED BY <1>0, <2>1, WellElsewhere DEF Elsewhere, WellAt
<1>2. CASE Registers(g)
  <2>1. /\ pinger[g] = "starting" /\ pinger' = [pinger EXCEPT ![g] = "waiting"]
        /\ UNCHANGED <<dog, gen, killed, late, client, reader, silent, asked, pingClock>>
    BY <1>2 DEF Registers
  <2> QED BY <1>0, <2>1, WellElsewhere DEF Elsewhere, WellAt
<1>3. CASE sendMessage(g)
  <2>1. /\ pinger[g] = "waiting" /\ pingClock[g] = PingEvery
        /\ pingClock' = [pingClock EXCEPT ![g] = 0]
        /\ asked' = IF client[g] = "open" THEN [asked EXCEPT ![g] = @ \cup {0}] ELSE asked
        /\ UNCHANGED <<dog, gen, killed, late, client, reader, pinger, silent>>
    BY <1>3 DEF sendMessage, PingDue
  <2>2. Elsewhere(g)
    BY <1>0, <2>1 DEF Elsewhere
  <2>3. asked'[g] = asked[g] \/ (client[g] = "open" /\ asked'[g] = asked[g] \cup {0})
    BY <1>0, <2>1
  <2>4. reader[g] = "waiting" /\ ~late[g] /\ client[g] = "open" =>
          \E a \in asked'[g] : silent[g] <= PingEvery + a
    BY <1>0, <2>1, <2>3 DEF WellAt
  <2>5. WellAt(g)'
    BY <1>0, <2>1, <2>3, <2>4 DEF WellAt
  <2> QED BY <2>2, <2>5, WellElsewhere
<1>4. CASE ReaderEnds(g)
  <2>1. /\ client[g] # "none" /\ reader' = [reader EXCEPT ![g] = "done"]
        /\ UNCHANGED <<dog, gen, killed, late, client, pinger, silent, asked, pingClock>>
    BY <1>4 DEF ReaderEnds, Closed
  <2> QED BY <1>0, <2>1, WellElsewhere DEF Elsewhere, WellAt
<1>5. CASE ReaderSaysDead(g)
  <2>1. /\ reader[g] = "waiting" /\ silent[g] = SilentFor /\ reader' = [reader EXCEPT ![g] = "saying"]
        /\ UNCHANGED <<dog, gen, killed, late, client, pinger, silent, asked, pingClock>>
    BY <1>5 DEF ReaderSaysDead
  <2>2. late[g]
    BY <1>0, <2>1 DEF WellAt
  <2> QED BY <1>0, <2>1, <2>2, WellElsewhere DEF Elsewhere, WellAt
<1>6. CASE Closes(g)
  <2>1. /\ client[g] = "broken" /\ client' = [client EXCEPT ![g] = "calling"]
        /\ asked' = [asked EXCEPT ![g] = {}]
        /\ UNCHANGED <<dog, gen, killed, late, reader, pinger, silent, pingClock>>
    BY <1>6 DEF Closes
  <2> QED BY <1>0, <2>1, WellElsewhere DEF Elsewhere, WellAt
<1>7. CASE CallsBack(g)
  <2>1. /\ client[g] = "calling" /\ client' = [client EXCEPT ![g] = "closed"]
        /\ pinger' = pinger \/ pinger' = [pinger EXCEPT ![g] = "done"]
        /\ UNCHANGED <<dog, gen, killed, late, reader, asked, silent, pingClock>>
    BY <1>7 DEF CallsBack, HeardClosed
  <2> QED BY <1>0, <2>1, WellElsewhere DEF Elsewhere, WellAt
<1> QED BY <1>1, <1>2, <1>3, <1>4, <1>5, <1>6, <1>7 DEF Goroutine

\* A step of time: while every request is answered in time, the next one, or
\* the next answer, comes before the silence has lasted too long.
LEMMA WellTick ==
  ASSUME TypeOK, WellInv, Tick, NEW g \in Gen
  PROVE  WellAt(g)'
<1>0. ConnectionTypeOK /\ WellAt(g)
  BY WellEverywhere DEF TypeOK, ConnectionTypeOK, Gen
<1> USE WatchDogAssumption
<1>1. /\ UNCHANGED <<dog, gen, client, reader, pinger, killed>>
      /\ pingClock'[g] = IF pinger[g] = "waiting" THEN pingClock[g] + 1 ELSE pingClock[g]
      /\ silent'[g] = IF reader[g] = "waiting" THEN silent[g] + 1 ELSE silent[g]
      /\ asked'[g] = Older(asked[g])
      /\ late'[g] <=> late[g] \/ \E a \in asked[g] : a >= AnswerWithin
  BY DEF Tick
<1>2. ~Busy(g)
  BY DEF Tick, Quiet
<1>3. /\ pinger[g] = "waiting" => pingClock[g] < PingEvery
      /\ pinger[g] = "starting" => client[g] = "calling"
      /\ reader[g] = "waiting" => client[g] \in {"none", "open"}
  BY <1>0, <1>2 DEF Busy, PingDue, Closed, ConnectionTypeOK
<1>4. /\ asked[g] \in SUBSET (0 .. SilentFor)
      /\ silent[g] \in Nat /\ pingClock[g] \in Nat
  BY <1>0 DEF ConnectionTypeOK
<1>5. asked[g] = {} => asked'[g] = {}
  BY <1>1, <1>4, OlderAges
<1>6. ASSUME ~late'[g] PROVE /\ ~late[g]
                             /\ \A b \in asked'[g] : b <= AnswerWithin
                             /\ \A a \in asked[g] : a + 1 \in asked'[g] /\ a + 1 <= AnswerWithin
  <2>1. ~late[g] /\ \A a \in asked[g] : a \in Nat /\ a < AnswerWithin /\ a < SilentFor
    BY <1>1, <1>4, <1>6
  <2>2. \A b \in asked'[g] : b \in Nat /\ \E a \in asked[g] : b <= a + 1
    BY <1>1, <1>4, OlderAges
  <2>3. \A a \in asked[g] : a + 1 \in asked'[g]
    BY <1>1, <1>4, <2>1, OlderAges
  <2> QED BY <2>1, <2>2, <2>3
<1>7. ASSUME reader[g] = "waiting", ~late'[g]
      PROVE  /\ silent'[g] <= PingEvery + AnswerWithin
             /\ \/ silent'[g] <= pingClock'[g] /\ asked'[g] = {}
                \/ \E b \in asked'[g] : silent'[g] <= PingEvery + b
  <2>1. client[g] = "open" /\ pinger[g] = "waiting"
    BY <1>0, <1>3, <1>7 DEF WellAt, ConnectionTypeOK
  <2>2. silent'[g] = silent[g] + 1 /\ pingClock'[g] = pingClock[g] + 1
    BY <1>1, <1>7, <2>1
  <2>3. CASE silent[g] <= pingClock[g] /\ asked[g] = {}
    BY <1>3, <1>4, <1>5, <2>1, <2>2, <2>3
  <2>4. ASSUME NEW a \in asked[g], silent[g] <= PingEvery + a
        PROVE  silent'[g] <= PingEvery + (a + 1)
    BY <1>4, <2>2, <2>4
  <2>5. ASSUME NEW a \in asked[g], silent[g] <= PingEvery + a
        PROVE  /\ silent'[g] <= PingEvery + AnswerWithin
               /\ \E b \in asked'[g] : silent'[g] <= PingEvery + b
    <3>1. a + 1 \in asked'[g] /\ a + 1 <= AnswerWithin /\ a \in Nat /\ silent'[g] <= PingEvery + (a + 1)
      BY <1>4, <1>6, <1>7, <2>4, <2>5
    <3>2. silent'[g] <= PingEvery + AnswerWithin
      BY <1>4, <2>2, <3>1
    <3> QED BY <3>1, <3>2
  <2> QED BY <1>0, <1>6, <1>7, <2>1, <2>3, <2>5 DEF WellAt
<1>8. killed[g] \/ reader[g] = "saying" => late'[g]
  BY <1>0, <1>1 DEF WellAt
<1>9. client[g] = "none" => reader[g] = "none" /\ pinger[g] = "none" /\ silent'[g] = 0 /\ asked'[g] = {}
  BY <1>0, <1>1, <1>5 DEF WellAt
<1> QED BY <1>0, <1>1, <1>6, <1>7, <1>8, <1>9 DEF WellAt

\* Every other step.
LEMMA WellStep ==
  ASSUME TypeOK, OneServerInv, WellInv, [Next]_vars
  PROVE  WellInv'
<1> USE WatchDogAssumption
<1>0. ConnectionTypeOK /\ \A g \in Gen : WellAt(g)
  BY WellEverywhere DEF TypeOK, ConnectionTypeOK, Gen
<1>1. ASSUME \A g \in Gen : WellAt(g)' PROVE WellInv'
  BY <1>1 DEF WellInv, WellAt, NotDialedYet, PingerIsThere, AnsweredInTime, SilenceIsShort,
              SaidDeadWasLate, WellIsNotKilled
<1>2. gen \in Nat /\ (dog \in {"waiting", "watching"} => gen \in Gen)
  BY DEF OneServerInv, ProcessesTypeOK, WatchingSome, Gen
<1>3. CASE startProc
  <2>1. /\ dog = "starting" /\ gen' = gen + 1
        /\ UNCHANGED <<killed, late, client, reader, pinger, silent, asked, pingClock>>
    BY <1>3 DEF startProc
  <2>2. \A g \in Gen : g > gen' \/ g = gen' => g > gen
    BY <1>0, <1>2, <2>1 DEF ConnectionTypeOK
  <2> QED BY <1>0, <1>1, <2>1, <2>2 DEF WellAt
<1>4. CASE startProcPanics \/ dialPanics \/ WatchSeesEnd
  <2>1. /\ dog' # "waiting" /\ gen' = gen
        /\ UNCHANGED <<killed, late, client, reader, pinger, silent, asked, pingClock>>
    BY <1>4 DEF startProcPanics, dialPanics, WatchSeesEnd, perServer
  <2> QED BY <1>0, <1>1, <2>1 DEF WellAt
<1>5. CASE dial
  <2>1. /\ dog = "waiting" /\ dog' = "watching" /\ gen \in Gen
        /\ client' = [client EXCEPT ![gen] = "open"] /\ pinger' = [pinger EXCEPT ![gen] = "starting"]
        /\ reader' = [reader EXCEPT ![gen] = "waiting"]
        /\ UNCHANGED <<gen, killed, late, silent, asked, pingClock>>
    BY <1>2, <1>5 DEF dial
  <2>2. client[gen] = "none" /\ silent[gen] = 0 /\ asked[gen] = {}
    BY <1>0, <2>1 DEF WellAt
  <2>3. WellAt(gen)'
    BY <1>0, <2>1, <2>2 DEF WellAt, ConnectionTypeOK
  <2>4. \A g \in Gen \ {gen} : WellAt(g)'
    BY <1>0, <2>1 DEF WellAt, ConnectionTypeOK
  <2> QED BY <1>1, <2>1, <2>3, <2>4
<1>6. CASE WatchKills
  <2>1. /\ dog = "watching" /\ dog' = "starting" /\ gen \in Gen /\ reader[gen] = "saying"
        /\ reader' = [reader EXCEPT ![gen] = "waiting"] /\ silent' = [silent EXCEPT ![gen] = 0]
        /\ killed' = [killed EXCEPT ![gen] = TRUE]
        /\ UNCHANGED <<gen, late, client, pinger, asked, pingClock>>
    BY <1>2, <1>6 DEF WatchKills, Heard
  <2>2. late[gen] /\ client[gen] # "none"
    BY <1>0, <2>1 DEF WellAt
  <2>3. WellAt(gen)'
    BY <1>0, <2>1, <2>2 DEF WellAt, ConnectionTypeOK
  <2>4. \A g \in Gen \ {gen} : killed'[g] = killed[g]
    BY <2>1 DEF TypeOK
  <2>5. \A g \in Gen \ {gen} : WellAt(g)'
    BY <1>0, <2>1, <2>4 DEF WellAt, ConnectionTypeOK
  <2> QED BY <1>1, <2>1, <2>3, <2>5
<1>7. CASE Tick
  BY <1>1, <1>7, WellTick
<1>8. ASSUME NEW g \in Gen, Goroutine(g) PROVE WellInv'
  BY <1>8, WellGoroutine
<1>9. ASSUME NEW g \in Gen, AnswerArrives(g) PROVE WellInv'
  <2>1. /\ client[g] = "open" /\ silent' = [silent EXCEPT ![g] = 0]
        /\ asked' = [asked EXCEPT ![g] = @ \ {Max(@)}]
        /\ UNCHANGED <<dog, gen, killed, late, client, reader, pinger, pingClock>>
    BY <1>9 DEF AnswerArrives, TimerRestart
  <2>2. asked'[g] \subseteq asked[g] /\ silent'[g] = 0
    BY <1>0, <2>1 DEF ConnectionTypeOK
  <2>3. Elsewhere(g)
    BY <1>0, <2>1 DEF ConnectionTypeOK, Elsewhere
  <2>4. \/ silent'[g] <= pingClock[g] /\ asked'[g] = {}
        \/ \E a \in asked'[g] : silent'[g] <= PingEvery + a
    BY <1>0, <2>2 DEF ConnectionTypeOK
  <2>5. silent'[g] <= PingEvery + AnswerWithin
    BY <2>2
  <2>6. WellAt(g)'
    BY <1>0, <2>1, <2>2, <2>4, <2>5 DEF WellAt
  <2> QED BY <2>3, <2>6, WellElsewhere
<1>10. ASSUME NEW g \in Gen, Listening(g) \/ Accepting(g) \/ Hangs(g) PROVE WellInv'
  <2>1. UNCHANGED <<dog, gen, killed, late, client, reader, pinger, silent, asked, pingClock>>
    BY <1>10 DEF Listening, Accepting, Hangs, Becomes
  <2> QED BY <1>0, <1>1, <2>1 DEF WellAt
<1>11. ASSUME NEW g \in Gen, Dies(g) \/ ConnectionBreaks(g) PROVE WellInv'
  <2>1. /\ client' = client \/ (client[g] = "open" /\ client' = [client EXCEPT ![g] = "broken"])
        /\ UNCHANGED <<dog, gen, killed, late, reader, pinger, silent, asked, pingClock>>
    BY <1>11 DEF Dies, ConnectionBreaks, Broken, Becomes
  <2>2. Elsewhere(g)
    BY <1>0, <2>1 DEF ConnectionTypeOK, Elsewhere
  <2>3. WellAt(g)'
    BY <1>0, <2>1 DEF WellAt, ConnectionTypeOK
  <2> QED BY <2>2, <2>3, WellElsewhere
<1>12. CASE UNCHANGED vars
  BY <1>0, <1>1, <1>12 DEF WellAt, vars, perServer
<1> QED BY <1>3, <1>4, <1>5, <1>6, <1>7, <1>8, <1>9, <1>10, <1>11, <1>12 DEF Next, Main

\* The inductive invariant holds.
THEOREM WatchDogInvariant == Spec => []WatchDogInv
<1>1. Init => WatchDogInv
  BY InitTypes, InitInv, InitWell DEF WatchDogInv
<1>2. WatchDogInv /\ [Next]_vars => WatchDogInv'
  BY TypeStep, NextInv, DialStep, WellStep DEF WatchDogInv
<1> QED BY <1>1, <1>2, PTL DEF Spec

\* Types, and with them that no clock runs past its timer: what a timer starts
\* is done before time goes on.
THEOREM TypeCorrect == Spec => []TypeOK
<1>1. WatchDogInv => TypeOK
  BY DEF WatchDogInv
<1> QED BY <1>1, WatchDogInvariant, PTL

\* No server is killed that has answered every request in time.
THEOREM OnlyTheLateAreKilled == Spec => []WellIsNotKilled
<1>1. WatchDogInv => WellIsNotKilled
  BY DEF WatchDogInv, WellInv
<1> QED BY <1>1, WatchDogInvariant, PTL

\* The dial of a server that goes on finds its port.
THEOREM DialsFindTheServer == Spec => []DialFindsServer
<1>1. WatchDogInv => DialFindsServer
  BY DEF WatchDogInv, DialInv
<1> QED BY <1>1, WatchDogInvariant, PTL
===============================================================================

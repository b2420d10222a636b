----------------------------- MODULE RoomProofs -----------------------------
(***************************************************************************)
(* Proofs about Room, for any finite set of connections and any MaxLoad.   *)
(* All of them go through RoomInv, an equation between four numbers: the   *)
(* load and those that are yet to be counted are those in the map and      *)
(* those that are yet to be counted down.  What makes it inductive until a *)
(* kick is InWhileServed: a goroutine removes its client at most once,     *)
(* because it stops serving in the same step, so that the count, which is  *)
(* decremented blindly, is decremented only for clients that were in the   *)
(* room.                                                                   *)
(***************************************************************************)
EXTENDS Room, FiniteSetTheorems, TLAPS

USE RoomAssumption

-----------------------------------------------------------------------------
(* How many there are.                                                     *)

\* The places in the middle of a removal, and those after it.
LEMMA ThenPlaces ==
  /\ DOMAIN Then = {"leaving", "dropping", "silent", "kicking"}
  /\ \A place \in DOMAIN Then : Then[place] \in {"left", "gone", "select"}
  /\ \A place \in DOMAIN Then : Then[place] = "select" => place = "kicking"
BY DEF Then

\* The sets that are counted are finite, and connections are clients.
LEMMA Countable ==
  /\ IsFiniteSet(In) /\ Cardinality(In) \in Nat
  /\ IsFiniteSet(Arriving) /\ Cardinality(Arriving) \in Nat
  /\ IsFiniteSet(Removing) /\ Cardinality(Removing) \in Nat
  /\ IsFiniteSet(Seated) /\ Cardinality(Seated) \in Nat
  /\ IsFiniteSet(Connected) /\ Cardinality(Connected) \in Nat
  /\ Cardinality(Connected) <= Cardinality(Client)
  /\ Cardinality(Client) \in Nat
<1>1. /\ In \in SUBSET Client /\ Seated \in SUBSET Client /\ Connected \in SUBSET Client
      /\ Arriving \in SUBSET Client /\ Removing \in SUBSET Client
  BY DEF In, Seated, Connected, Arriving, Removing
<1> QED BY <1>1, FS_Subset, FS_CardinalityType

\* Accept stores a client that was not in the room, and is yet to be counted.
LEMMA AcceptAddsOne ==
  ASSUME TypeOK, NothingBeforeAccept, NEW c \in Client, Accept(c)
  PROVE  /\ Cardinality(In') = Cardinality(In) + 1
         /\ Cardinality(Arriving') = Cardinality(Arriving) + 1
         /\ Cardinality(Connected') = Cardinality(Connected) + 1
         /\ Removing' = Removing
<1>1. c \notin In /\ c \notin Connected /\ c \notin Arriving
  BY DEF Accept, NothingBeforeAccept, In, Connected, Arriving
<1>2. In' = In \cup {c} /\ Connected' = Connected \cup {c}
  BY DEF Accept, TypeOK, In, Connected
<1>3. Arriving' = Arriving \cup {c}
  BY DEF Accept, Goes, TypeOK, Arriving
<1>4. Removing' = Removing
  <2>1. "arriving" \notin DOMAIN Then /\ "none" \notin DOMAIN Then
    BY ThenPlaces
  <2>2. goroutine[c] = "none"
    BY DEF Accept, NothingBeforeAccept
  <2> QED BY <2>1, <2>2 DEF Accept, Goes, TypeOK, Removing
<1> QED BY <1>1, <1>2, <1>3, <1>4, Countable, FS_AddElement

\* CountsIn counts one of those who are yet to be counted.
LEMMA CountsInCounts ==
  ASSUME TypeOK, NEW c \in Client, CountsIn(c)
  PROVE  /\ count' = count + 1 /\ Cardinality(Arriving') = Cardinality(Arriving) - 1
         /\ In' = In /\ Connected' = Connected /\ Removing' = Removing
<1>1. c \in Arriving /\ Arriving' = Arriving \ {c}
  BY DEF CountsIn, At, Goes, TypeOK, Arriving
<1>2. Removing' = Removing
  <2>1. "arriving" \notin DOMAIN Then /\ "select" \notin DOMAIN Then
    BY ThenPlaces
  <2> QED BY <2>1 DEF CountsIn, At, Goes, TypeOK, Removing
<1>3. Cardinality(Arriving') = Cardinality(Arriving) - 1
  BY <1>1, Countable, FS_RemoveElement
<1> QED BY <1>2, <1>3 DEF CountsIn, In, Connected

\* A deletion takes its victim out of the map, if it was there, and is yet to
\* be counted.
LEMMA DeletionTakesOut ==
  ASSUME TypeOK, NEW c \in Client, NEW victim \in Client, NEW place \in DOMAIN Then,
         goroutine[c] \in {"select", "found"}, Deletes(c, place, victim)
  PROVE  /\ Cardinality(In') = IF victim \in In THEN Cardinality(In) - 1 ELSE Cardinality(In)
         /\ Cardinality(Removing') = Cardinality(Removing) + 1
         /\ Arriving' = Arriving /\ Connected' = Connected /\ count' = count
<1>1. In' = In \ {victim}
  BY DEF Deletes, TypeOK, In
<1>2. c \notin Removing /\ Removing' = Removing \cup {c}
  BY ThenPlaces DEF Deletes, Goes, TypeOK, Removing
<1>3. Arriving' = Arriving
  BY ThenPlaces DEF Deletes, Goes, TypeOK, Arriving
<1>4. /\ Cardinality(In') = IF victim \in In THEN Cardinality(In) - 1 ELSE Cardinality(In)
      /\ Cardinality(Removing') = Cardinality(Removing) + 1
  BY <1>1, <1>2, Countable, FS_RemoveElement, FS_AddElement
<1> QED BY <1>3, <1>4 DEF Deletes, Connected

\* CountsDown counts one of the deletions.
LEMMA CountsDownCounts ==
  ASSUME TypeOK, NEW c \in Client, CountsDown(c)
  PROVE  /\ count' = count - 1 /\ Cardinality(Removing') = Cardinality(Removing) - 1
         /\ In' = In /\ Arriving' = Arriving /\ Connected' = Connected
<1>1. c \in Removing /\ Removing' = Removing \ {c}
  BY ThenPlaces DEF CountsDown, Goes, TypeOK, Removing
<1>2. Arriving' = Arriving
  BY ThenPlaces DEF CountsDown, Goes, TypeOK, Removing, Arriving
<1>3. Cardinality(Removing') = Cardinality(Removing) - 1
  BY <1>1, Countable, FS_RemoveElement
<1> QED BY <1>2, <1>3 DEF CountsDown, CountDown, In, Connected

-----------------------------------------------------------------------------
(* The conjuncts of RoomInv, step by step.                                 *)

\* A closed room stays closed, and a kick is remembered.
LEMMA NothingUndone ==
  ASSUME TypeOK, [Next]_vars
  PROVE  (~closed' => ~closed) /\ (~kicked' => ~kicked)
BY DEF TypeOK, Next, Goroutine, vars, ending, timers, Accept, CountsIn, StopsAccepting,
       Disconnect, KickTimerFires, Leave, Silent, SeeClosing, JoinChecks, Joins, Unwelcome,
       SendsToClosedRadio, BadCommand, Kick, KickRemoves, Deletes, CountsDown, CloseRequest,
       Checkout, ProcessEmptyClose, ClientCloses, Overdue, ExpireCloses, ExpireClose,
       ExpireEnds, Close

\* Who deletes whom: until a kick, a goroutine its own client.
Deletion ==
  \E c, victim \in Client : \E place \in DOMAIN Then :
    /\ Deletes(c, place, victim)
    /\ goroutine[c] \in {"select", "found"}
    /\ kicked' \/ (victim = c /\ goroutine[c] = "select")

\* What a step does to the load: it is one of the four halves, or the load and
\* the connections stay and so does, in an open room, who is there.
LEMMA LoadSteps ==
  ASSUME TypeOK, NothingBeforeAccept, [Next]_vars
  PROVE  \/ \E c \in Client : Accept(c) \/ CountsIn(c) \/ CountsDown(c)
         \/ Deletion
         \/ /\ count' = count /\ Connected' = Connected /\ Arriving' = Arriving
            /\ Removing' = Removing /\ (closed' \/ In' = In)
<1> DEFINE Same == /\ count' = count /\ Connected' = Connected /\ Arriving' = Arriving
                   /\ Removing' = Removing /\ (closed' \/ In' = In)
<1> DEFINE Goal == (\E c \in Client : Accept(c) \/ CountsIn(c) \/ CountsDown(c)) \/ Deletion \/ Same
<1> USE ThenPlaces
<1>1. CASE UNCHANGED vars
  BY <1>1 DEF vars, ending, Connected, In, Arriving, Removing
<1>2. ASSUME NEW c \in Client, Disconnect(c) \/ KickTimerFires(c) PROVE Goal
  <2>1. UNCHANGED <<users, count, goroutine, closed>>
    BY <1>2 DEF Disconnect, KickTimerFires, ending
  <2>2. Connected' = Connected
    BY <1>2 DEF Disconnect, KickTimerFires, TypeOK, NothingBeforeAccept, Connected
  <2> QED BY <2>1, <2>2 DEF In, Arriving, Removing
<1>3. ASSUME NEW c \in Client, Leave(c) \/ Silent(c) \/ Unwelcome(c) \/ BadCommand(c)
      PROVE Goal
  <2>1. \E place \in DOMAIN Then : Deletes(c, place, c)
    BY <1>3 DEF Leave, Silent, Unwelcome, BadCommand
  <2>2. goroutine[c] = "select" \/ (goroutine[c] = "found" /\ kicked')
    BY <1>3 DEF Leave, Silent, Unwelcome, BadCommand, At
  <2> QED BY <2>1, <2>2 DEF Deletion
<1>4. ASSUME NEW c \in Client, KickRemoves(c) PROVE Goal
  <2>1. target[c] \in Client
    BY DEF TypeOK
  <2> QED BY <1>4, <2>1 DEF KickRemoves, At, Deletion
<1>5. ASSUME NEW c \in Client, SeeClosing(c) PROVE Goal
  BY <1>5 DEF SeeClosing, At, Goes, ending, TypeOK, Connected, Arriving, Removing
<1>6. ASSUME NEW c \in Client, Joins(c) PROVE Goal
  <2>1. In' = In
    BY <1>6 DEF Joins, TypeOK, In
  <2> QED BY <1>6, <2>1 DEF Joins, At, Goes, TypeOK, Connected, Arriving, Removing
<1>7. ASSUME NEW c \in Client, NEW victim \in Client, JoinChecks(c) \/ Kick(c, victim)
      PROVE Goal
  BY <1>7 DEF JoinChecks, Kick, At, Goes, TypeOK, In, Connected, Arriving, Removing
<1>8. ASSUME NEW c \in Client, SendsToClosedRadio(c) \/ CloseRequest(c) \/ Checkout(c)
      PROVE Goal
  BY <1>8 DEF SendsToClosedRadio, CloseRequest, Checkout, In, Connected, Arriving, Removing
<1>9. ASSUME NEW c \in Client, ProcessEmptyClose(c) \/ ClientCloses(c) PROVE Goal
  BY <1>9 DEF ProcessEmptyClose, ClientCloses, At, Goes, TypeOK, In, Connected, Arriving, Removing
<1>10. CASE StopsAccepting \/ Overdue \/ ExpireCloses \/ ExpireClose \/ ExpireEnds
  BY <1>10 DEF StopsAccepting, Overdue, ExpireCloses, ExpireClose, ExpireEnds, In, Connected,
               Arriving, Removing
<1> QED BY <1>1, <1>2, <1>3, <1>4, <1>5, <1>6, <1>7, <1>8, <1>9, <1>10 DEF Next, Goroutine

\* The load stays within the connections, and is never overstated.
LEMMA LoadStep ==
  ASSUME TypeOK, NothingBeforeAccept, CountWithinConnected, LoadNotOverstated, [Next]_vars
  PROVE  count' \in Int /\ CountWithinConnected' /\ LoadNotOverstated'
<1> USE Countable DEF CountWithinConnected, LoadNotOverstated
<1> DEFINE Goal == count' \in Int /\ CountWithinConnected' /\ LoadNotOverstated'
<1>0. count \in Int /\ (~closed' => ~closed)
  BY NothingUndone DEF TypeOK
<1>1. ASSUME NEW c \in Client, Accept(c) PROVE Goal
  <2>1. count' = count
    BY <1>1 DEF Accept
  <2> QED BY <1>0, <1>1, <2>1, AcceptAddsOne
<1>2. ASSUME NEW c \in Client, CountsIn(c) PROVE Goal
  BY <1>0, <1>2, CountsInCounts
<1>3. ASSUME NEW c \in Client, CountsDown(c) PROVE Goal
  BY <1>0, <1>3, CountsDownCounts
<1>4. CASE Deletion
  <2>1. PICK c \in Client, victim \in Client, place \in DOMAIN Then :
               Deletes(c, place, victim) /\ goroutine[c] \in {"select", "found"}
    BY <1>4 DEF Deletion
  <2>2. /\ Cardinality(In') \in {Cardinality(In) - 1, Cardinality(In)}
        /\ Cardinality(Removing') = Cardinality(Removing) + 1
        /\ Arriving' = Arriving /\ Connected' = Connected /\ count' = count
    BY <2>1, DeletionTakesOut
  <2>3. count' + Cardinality(Arriving') <= Cardinality(Connected')
    BY <1>0, <2>2
  <2>4. ~closed' =>
          count' + Cardinality(Arriving') <= Cardinality(In') + Cardinality(Removing')
    BY <1>0, <2>2
  <2> QED BY <1>0, <2>2, <2>3, <2>4
<1>5. CASE /\ count' = count /\ Connected' = Connected /\ Arriving' = Arriving
           /\ Removing' = Removing /\ (closed' \/ In' = In)
  BY <1>0, <1>5
<1> QED BY <1>1, <1>2, <1>3, <1>4, <1>5, LoadSteps

\* A connection is accepted before anything else is known of it.
LEMMA BeforeAcceptStep ==
  ASSUME TypeOK, NothingBeforeAccept, [Next]_vars
  PROVE  NothingBeforeAccept'
<1> USE DEF NothingBeforeAccept, TypeOK
<1>1. CASE UNCHANGED vars
  BY <1>1 DEF vars, timers
<1>2. ASSUME NEW c \in Client, Accept(c) \/ Disconnect(c) \/ KickTimerFires(c)
      PROVE NothingBeforeAccept'
  BY <1>2 DEF Accept, Disconnect, KickTimerFires, Goes, timers
<1>3. ASSUME NEW c \in Client, Leave(c) \/ Silent(c) \/ Unwelcome(c) \/ BadCommand(c)
                                  \/ KickRemoves(c)
      PROVE NothingBeforeAccept'
  <2>1. goroutine[c] # "none"
    BY <1>3 DEF Leave, Silent, Unwelcome, BadCommand, KickRemoves, At
  <2>2. PICK place \in {"leaving", "dropping", "silent", "kicking"}, victim \in {c, target[c]} :
               Deletes(c, place, victim)
    BY <1>3 DEF Leave, Silent, Unwelcome, BadCommand, KickRemoves
  <2>3. /\ victim \in Client /\ socket[victim] # "none"
        /\ socket[c] # "none" /\ UNCHANGED <<socket, kickTimers>>
    BY <2>1, <2>2 DEF Deletes, timers
  <2>4. /\ users' = [users EXCEPT ![victim] = "absent"]
        /\ target' = [target EXCEPT ![c] = victim]
        /\ goroutine' = [goroutine EXCEPT ![c] = place]
    BY <2>2 DEF Deletes, Goes
  <2> QED BY <2>3, <2>4
<1>4. ASSUME NEW c \in Client, CountsIn(c) \/ CountsDown(c) PROVE NothingBeforeAccept'
  <2>1. goroutine[c] # "none" /\ target[c] \in Client
    BY <1>4, ThenPlaces DEF CountsIn, CountsDown, At, Removing
  <2>2. CASE CountsIn(c)
    BY <2>1, <2>2 DEF CountsIn, Goes, timers
  <2>3. CASE CountsDown(c)
    BY <2>1, <2>3 DEF CountsDown, Goes
  <2> QED BY <1>4, <2>2, <2>3
<1>5. ASSUME NEW c \in Client, SeeClosing(c) \/ JoinChecks(c) \/ Joins(c)
      PROVE NothingBeforeAccept'
  BY <1>5 DEF SeeClosing, JoinChecks, Joins, At, Goes, timers
<1>6. ASSUME NEW c \in Client, ProcessEmptyClose(c) \/ ClientCloses(c)
      PROVE NothingBeforeAccept'
  BY <1>6 DEF ProcessEmptyClose, ClientCloses, At, Goes, timers
<1>7. ASSUME NEW c \in Client, SendsToClosedRadio(c) \/ CloseRequest(c) \/ Checkout(c)
      PROVE NothingBeforeAccept'
  BY <1>7 DEF SendsToClosedRadio, CloseRequest, Checkout, timers
<1>8. ASSUME NEW c \in Client, NEW victim \in Client, Kick(c, victim)
      PROVE NothingBeforeAccept'
  BY <1>8 DEF Kick, At, Goes, timers
<1>9. CASE StopsAccepting \/ Overdue \/ ExpireCloses \/ ExpireClose \/ ExpireEnds
  BY <1>9 DEF StopsAccepting, Overdue, ExpireCloses, ExpireClose, ExpireEnds, timers
<1> QED BY <1>1, <1>2, <1>3, <1>4, <1>5, <1>6, <1>7, <1>8, <1>9 DEF Next, Goroutine

\* Until a kick, whoever leaves the room stops being served, and conversely.
LEMMA InWhileServedStep ==
  ASSUME TypeOK, NothingBeforeAccept, InWhileServed, [Next]_vars
  PROVE  InWhileServed'
<1> DEFINE Served == {"arriving", "select", "joining", "found"}
<1> DEFINE Goal == \A c \in Client : /\ c \in In' <=> goroutine'[c] \in Served
                                     /\ goroutine'[c] # "kicking"
<1>a. SUFFICES ASSUME ~closed', ~kicked' PROVE Goal
  BY DEF InWhileServed
<1>0. ~closed /\ ~kicked
  BY <1>a, NothingUndone
<1> USE <1>a, <1>0 DEF InWhileServed, In, TypeOK
<1>1. CASE UNCHANGED vars
  BY <1>1 DEF vars, ending
<1>2. ASSUME NEW c \in Client, Accept(c) \/ CountsIn(c) PROVE Goal
  BY <1>2 DEF Accept, CountsIn, At, Goes, ending
<1>3. ASSUME NEW c \in Client, Disconnect(c) \/ KickTimerFires(c) PROVE Goal
  BY <1>3 DEF Disconnect, KickTimerFires, ending
<1>4. ASSUME NEW c \in Client, Leave(c) \/ Silent(c) \/ Unwelcome(c) PROVE Goal
  BY <1>4 DEF Leave, Silent, Unwelcome, Deletes, At, Goes, ending
<1>5. ASSUME NEW c \in Client,
             BadCommand(c) \/ KickRemoves(c) \/ SeeClosing(c) \/ SendsToClosedRadio(c)
      PROVE Goal
  BY <1>5 DEF BadCommand, KickRemoves, SeeClosing, SendsToClosedRadio, ending
<1>6. ASSUME NEW c \in Client, CountsDown(c) PROVE Goal
  <2>1. goroutine[c] \in DOMAIN Then /\ UNCHANGED users /\ Goes(c, Then[goroutine[c]])
    BY <1>6 DEF CountsDown, Removing
  <2>2. goroutine[c] \notin Served /\ Then[goroutine[c]] \in {"left", "gone"}
    BY <2>1, ThenPlaces
  <2> QED BY <2>1, <2>2 DEF Goes
<1>7. ASSUME NEW c \in Client, NEW victim \in Client,
             JoinChecks(c) \/ Joins(c) \/ Kick(c, victim)
      PROVE Goal
  BY <1>7 DEF JoinChecks, Joins, Kick, At, Goes, ending
<1>8. ASSUME NEW c \in Client, CloseRequest(c) \/ Checkout(c) PROVE Goal
  BY <1>8 DEF CloseRequest, Checkout, ending
<1>9. ASSUME NEW c \in Client, ProcessEmptyClose(c) \/ ClientCloses(c) PROVE Goal
  BY <1>9 DEF ProcessEmptyClose, ClientCloses, Close, At, Goes, ending
<1>10. CASE StopsAccepting \/ Overdue \/ ExpireCloses \/ ExpireClose \/ ExpireEnds
  BY <1>10 DEF StopsAccepting, Overdue, ExpireCloses, ExpireClose, ExpireEnds, Close, ending
<1> QED BY <1>1, <1>2, <1>3, <1>4, <1>5, <1>6, <1>7, <1>8, <1>9, <1>10 DEF Next, Goroutine

\* Until a kick, a removal takes out somebody who was in.
LEMMA CountStep ==
  ASSUME TypeOK, NothingBeforeAccept, CountIsLoad, InWhileServed, [Next]_vars
  PROVE  CountIsLoad'
<1> DEFINE Goal ==
      count' + Cardinality(Arriving') = Cardinality(In') + Cardinality(Removing')
<1> SUFFICES ASSUME ~closed', ~kicked' PROVE Goal
  BY DEF CountIsLoad
<1>0. /\ ~closed /\ ~kicked /\ count \in Int
      /\ count + Cardinality(Arriving) = Cardinality(In) + Cardinality(Removing)
  BY NothingUndone DEF CountIsLoad, TypeOK
<1> USE Countable
<1>1. ASSUME NEW c \in Client, Accept(c) PROVE Goal
  <2>1. count' = count
    BY <1>1 DEF Accept
  <2> QED BY <1>0, <1>1, <2>1, AcceptAddsOne
<1>2. ASSUME NEW c \in Client, CountsIn(c) PROVE Goal
  BY <1>0, <1>2, CountsInCounts
<1>3. ASSUME NEW c \in Client, CountsDown(c) PROVE Goal
  BY <1>0, <1>3, CountsDownCounts
<1>4. CASE Deletion
  <2>1. PICK c \in Client, place \in DOMAIN Then :
               Deletes(c, place, c) /\ goroutine[c] = "select"
    BY <1>4 DEF Deletion
  <2>2. c \in In
    BY <1>0, <2>1 DEF InWhileServed
  <2> QED BY <1>0, <2>1, <2>2, DeletionTakesOut
<1>5. CASE /\ count' = count /\ Connected' = Connected /\ Arriving' = Arriving
           /\ Removing' = Removing /\ (closed' \/ In' = In)
  BY <1>0, <1>5
<1> QED BY <1>1, <1>2, <1>3, <1>4, <1>5, LoadSteps

\* Until a kick, those whom Run has counted and nobody has removed are what the
\* load is made of, and there is nobody else in the room but who arrives.
LEMMA CountedAreWithinLoad ==
  ASSUME TypeOK, CountIsLoad, InWhileServed, ~closed, ~kicked
  PROVE  /\ IsFiniteSet(In \ Arriving)
         /\ Cardinality(In \ Arriving) \in Nat
         /\ Cardinality(In \ Arriving) <= count
<1>1. In \cap Arriving = Arriving
  BY DEF InWhileServed, Arriving
<1>2. /\ IsFiniteSet(In \ Arriving)
      /\ Cardinality(In \ Arriving) = Cardinality(In) - Cardinality(Arriving)
  BY <1>1, Countable, FS_Difference
<1>3. Cardinality(In \ Arriving) \in Nat
  BY <1>2, FS_CardinalityType
<1> QED BY <1>2, <1>3, Countable DEF CountIsLoad, TypeOK

\* Until a kick, only a look at the load seats anybody, and it sees all.
LEMMA SeatedStep ==
  ASSUME TypeOK, CountIsLoad, InWhileServed, SeatedWithinMaxLoad, NothingBeforeAccept,
         [Next]_vars
  PROVE  SeatedWithinMaxLoad'
<1> SUFFICES ASSUME ~closed', ~kicked'
             PROVE  Cardinality(Seated') <= MaxLoad /\ Seated' \cap Arriving' = {}
  BY DEF SeatedWithinMaxLoad
<1> USE DEF TypeOK
<1>a. ~closed /\ ~kicked
  BY NothingUndone
<1>b. Seated \cap Arriving = {} /\ Cardinality(Seated) <= MaxLoad
  BY <1>a DEF SeatedWithinMaxLoad
<1> DEFINE Goal == Seated' \in SUBSET Seated /\ Seated' \cap Arriving' = {}
<1>c. SUFFICES ASSUME ~ \E c \in Client : JoinChecks(c)
               PROVE Goal
  <2>1. ASSUME NEW c \in Client, JoinChecks(c)
        PROVE Cardinality(Seated') <= MaxLoad /\ Seated' \cap Arriving' = {}
    <3>1. Seated' \in SUBSET (Seated \cup {c}) /\ Arriving' \in SUBSET (Arriving \ {c})
      BY <2>1 DEF JoinChecks, At, Goes, Seated, Arriving
    <3>2. Seated \cup {c} \in SUBSET (In \ Arriving)
      BY <1>a, <1>b, <2>1 DEF JoinChecks, At, Seated, Arriving, In, InWhileServed
    <3>3. Cardinality(In \ Arriving) <= MaxLoad
      BY <1>a, <2>1, CountedAreWithinLoad DEF JoinChecks, Full
    <3>4. Cardinality(Seated') <= Cardinality(In \ Arriving) /\ Cardinality(Seated') \in Nat
      BY <1>a, <3>1, <3>2, CountedAreWithinLoad, FS_Subset, FS_CardinalityType
    <3>5. Seated' \cap Arriving' = {}
      BY <1>b, <3>1
    <3> QED BY <1>a, <3>3, <3>4, <3>5, CountedAreWithinLoad
  <2>2. CASE Goal
    <3>1. Cardinality(Seated') <= Cardinality(Seated) /\ Cardinality(Seated') \in Nat
      BY <2>2, Countable, FS_Subset, FS_CardinalityType
    <3> QED BY <1>b, <2>2, <3>1, Countable
  <2> QED BY <2>1, <2>2
<1> USE <1>b DEF Seated, Arriving
<1>1. CASE UNCHANGED vars
  BY <1>1 DEF vars
<1>2. ASSUME NEW c \in Client, Accept(c) PROVE Goal
  BY <1>2 DEF Accept, NothingBeforeAccept, Goes
<1>3. ASSUME NEW c \in Client, CountsIn(c) \/ Joins(c) PROVE Goal
  BY <1>3 DEF CountsIn, Joins, At, Goes
<1>4. ASSUME NEW c \in Client, Disconnect(c) \/ KickTimerFires(c) PROVE Goal
  BY <1>4 DEF Disconnect, KickTimerFires
<1>5. ASSUME NEW c \in Client, Leave(c) \/ Silent(c) \/ Unwelcome(c) PROVE Goal
  BY <1>5 DEF Leave, Silent, Unwelcome, Deletes, At, Goes
<1>6. ASSUME NEW c \in Client,
             BadCommand(c) \/ KickRemoves(c) \/ SeeClosing(c) \/ SendsToClosedRadio(c)
      PROVE Goal
  BY <1>a, <1>6 DEF BadCommand, KickRemoves, SeeClosing, SendsToClosedRadio
<1>7. ASSUME NEW c \in Client, CountsDown(c) PROVE Goal
  <2>1. goroutine' = [goroutine EXCEPT ![c] = Then[goroutine[c]]] /\ users' = users
    BY <1>7 DEF CountsDown, Goes
  <2>2. Then[goroutine[c]] \in {"left", "gone", "select"}
    BY <1>7, ThenPlaces DEF CountsDown, Removing
  <2>3. goroutine[c] \notin {"joining", "arriving"}
    BY <1>7, ThenPlaces DEF CountsDown, Removing
  <2> QED BY <2>1, <2>2, <2>3
<1>8. ASSUME NEW c \in Client, NEW victim \in Client,
             Kick(c, victim) \/ CloseRequest(c) \/ Checkout(c)
      PROVE Goal
  BY <1>8 DEF Kick, CloseRequest, Checkout, At, Goes
<1>9. ASSUME NEW c \in Client, ProcessEmptyClose(c) \/ ClientCloses(c) PROVE Goal
  BY <1>9 DEF ProcessEmptyClose, ClientCloses, At, Goes
<1>10. CASE StopsAccepting \/ Overdue \/ ExpireCloses \/ ExpireClose \/ ExpireEnds
  BY <1>10 DEF StopsAccepting, Overdue, ExpireCloses, ExpireClose, ExpireEnds
<1> QED BY <1>c, <1>1, <1>2, <1>3, <1>4, <1>5, <1>6, <1>7, <1>8, <1>9, <1>10 DEF Next, Goroutine

\* Every variable keeps its type; the load's bound comes from LoadStep.
LEMMA TypeStep ==
  ASSUME TypeOK, [Next]_vars, count' \in Int, CountWithinConnected'
  PROVE  TypeOK'
<1>1. count' <= Cardinality(Client)
  <2>1. /\ Connected' \in SUBSET Client /\ Arriving' \in SUBSET Client
    BY DEF Connected, Arriving
  <2>2. /\ Cardinality(Connected') <= Cardinality(Client) /\ Cardinality(Connected') \in Nat
        /\ Cardinality(Arriving') \in Nat
    BY <2>1, FS_Subset, FS_CardinalityType
  <2> QED BY <2>2, Countable DEF CountWithinConnected
<1> USE <1>1 DEF TypeOK
<1>2. CASE UNCHANGED vars
  BY <1>2 DEF vars, timers, ending
<1>3. ASSUME NEW c \in Client, Accept(c) \/ CountsIn(c) \/ Disconnect(c) \/ KickTimerFires(c)
      PROVE TypeOK'
  BY <1>3 DEF Accept, CountsIn, Disconnect, KickTimerFires, Goes, timers, ending
<1>4. ASSUME NEW c \in Client, Leave(c) \/ Silent(c) \/ Unwelcome(c) \/ BadCommand(c)
                                 \/ KickRemoves(c)
      PROVE TypeOK'
  <2>1. /\ \E place \in DOMAIN Then, victim \in Client : Deletes(c, place, victim)
        /\ kicked' \in BOOLEAN
    BY <1>4, ThenPlaces DEF Leave, Silent, Unwelcome, BadCommand, KickRemoves
  <2> QED BY <2>1 DEF Deletes, Goes, timers, ending
<1>5. ASSUME NEW c \in Client, CountsDown(c) PROVE TypeOK'
  <2>1. Then[goroutine[c]] \in {"left", "gone", "select"}
    BY <1>5, ThenPlaces DEF CountsDown, Removing
  <2> QED BY <1>5, <2>1 DEF CountsDown, Goes, ending
<1>6. ASSUME NEW c \in Client, SeeClosing(c) \/ JoinChecks(c) \/ Joins(c) PROVE TypeOK'
  BY <1>6 DEF SeeClosing, JoinChecks, Joins, Goes, timers, ending
<1>7. ASSUME NEW c \in Client, NEW victim \in Client,
             Kick(c, victim) \/ SendsToClosedRadio(c) \/ CloseRequest(c) \/ Checkout(c)
      PROVE TypeOK'
  <2>1. CASE Kick(c, victim)
    BY <2>1 DEF Kick, Goes, timers, ending
  <2>2. CASE SendsToClosedRadio(c) \/ CloseRequest(c) \/ Checkout(c)
    BY <2>2 DEF SendsToClosedRadio, CloseRequest, Checkout, timers, ending
  <2> QED BY <1>7, <2>1, <2>2
<1>8. ASSUME NEW c \in Client, ProcessEmptyClose(c) \/ ClientCloses(c) PROVE TypeOK'
  BY <1>8 DEF ProcessEmptyClose, ClientCloses, Close, Goes, timers, ending
<1>9. CASE StopsAccepting \/ Overdue \/ ExpireCloses \/ ExpireClose \/ ExpireEnds
  BY <1>9 DEF StopsAccepting, Overdue, ExpireCloses, ExpireClose, ExpireEnds, Close, timers, ending
<1> QED BY <1>2, <1>3, <1>4, <1>5, <1>6, <1>7, <1>8, <1>9 DEF Next, Goroutine

-----------------------------------------------------------------------------
(* The theorems.                                                           *)

\* An empty room satisfies the invariant.
LEMMA InvInit == Init => RoomInv
<1> SUFFICES ASSUME Init PROVE RoomInv
  OBVIOUS
<1>1. In = {} /\ Seated = {} /\ Connected = {} /\ Arriving = {} /\ Removing = {}
  BY ThenPlaces DEF Init, In, Seated, Connected, Arriving, Removing
<1>2. Cardinality({}) = 0
  BY FS_EmptySet
<1>3. count \in Int /\ count <= Cardinality(Client)
  BY Countable DEF Init
<1>4. TypeOK
  BY <1>3, Zenon DEF Init, TypeOK
<1> QED
  BY <1>1, <1>2, <1>4 DEF Init, RoomInv, NothingBeforeAccept, CountWithinConnected,
     LoadNotOverstated, CountIsLoad, InWhileServed, SeatedWithinMaxLoad

\* Every step keeps the invariant.
LEMMA InvStep == RoomInv /\ [Next]_vars => RoomInv'
BY BeforeAcceptStep, LoadStep, InWhileServedStep, CountStep, SeatedStep, TypeStep DEF RoomInv

\* The invariant of the room, whose conjuncts the theorems below name.
THEOREM RoomInvariant == Spec => []RoomInv
BY InvInit, InvStep, PTL DEF Spec

\* Every variable of the room has its type, and the load never counts a
\* connection twice.
THEOREM TypeCorrect == Spec => []TypeOK
BY RoomInvariant, PTL DEF RoomInv

\* Until a kick, the load of an open room is the number of its clients, but for
\* those in the middle of an accept or a removal; and even after a kick it is
\* not overstated: removeClient may count a client down twice, but nothing
\* counts it up twice.
THEOREM LoadFollowsTheMap == Spec => []LoadIsKept
<1>1. RoomInv => LoadIsKept
  BY DEF RoomInv, LoadIsKept
<1> QED BY <1>1, RoomInvariant, PTL

\* Until a kick, handleJoin's look at the load, which it takes long before
\* it gives out the clientId, keeps the members within MaxLoad.
THEOREM MembersFit == Spec => []MembersWithinMaxLoad
<1>1. RoomInv => MembersWithinMaxLoad
  <2> SUFFICES ASSUME RoomInv, ~closed, ~kicked PROVE Cardinality(Members) <= MaxLoad
    BY DEF MembersWithinMaxLoad
  <2>1. Members \in SUBSET Seated
    BY DEF Members, Seated
  <2>2. Cardinality(Members) <= Cardinality(Seated) /\ Cardinality(Members) \in Nat
    BY <2>1, Countable, FS_Subset, FS_CardinalityType
  <2> QED BY <2>2, Countable DEF RoomInv, SeatedWithinMaxLoad
<1> QED BY <1>1, RoomInvariant, PTL

\* Until a kick, the two goroutines that decide to close the room, each on a
\* count that it reads once, do so only when nobody is in it but perhaps one
\* whom Run has not counted yet.
THEOREM ClosedWhenNobodyIsServed == Spec => ClosingDecidedWhenEmpty
<1>1. ASSUME RoomInv, [Next]_vars, ~closed, ~kicked, ClosingDecided PROVE In \subseteq Arriving
  <2>1. count = 0
    <3> USE <1>1 DEF RoomInv, TypeOK, ClosingDecided
    <3>1. CASE UNCHANGED vars
      BY <3>1 DEF vars, timers
    <3>2. ASSUME NEW c \in Client, Accept(c) \/ CountsIn(c) \/ SeeClosing(c) \/ JoinChecks(c)
                   \/ Joins(c) \/ ClientCloses(c)
          PROVE FALSE
      BY <3>2 DEF Accept, CountsIn, SeeClosing, JoinChecks, Joins, ClientCloses, Goes, timers
    <3>3. ASSUME NEW c \in Client, Leave(c) \/ Silent(c) \/ Unwelcome(c) \/ BadCommand(c)
                   \/ KickRemoves(c)
          PROVE FALSE
      <4>1. \E place \in {"leaving", "dropping", "silent", "kicking"}, victim \in Client :
              Deletes(c, place, victim)
        BY <3>3 DEF Leave, Silent, Unwelcome, BadCommand, KickRemoves
      <4> QED BY <4>1 DEF Deletes, Goes, timers
    <3>4. ASSUME NEW c \in Client, CountsDown(c) PROVE FALSE
      <4>1. Then[goroutine[c]] # "closing"
        BY <3>4, ThenPlaces DEF CountsDown, Removing
      <4> QED BY <3>4, <4>1 DEF CountsDown, Goes
    <3>5. ASSUME NEW c \in Client, NEW victim \in Client,
                 Disconnect(c) \/ KickTimerFires(c) \/ SendsToClosedRadio(c)
                   \/ Kick(c, victim) \/ CloseRequest(c) \/ Checkout(c)
          PROVE FALSE
      BY <3>5 DEF Disconnect, KickTimerFires, SendsToClosedRadio, Kick, CloseRequest, Checkout,
                  Goes, timers
    <3>6. ASSUME NEW c \in Client, ProcessEmptyClose(c) PROVE count = 0
      BY <3>6 DEF ProcessEmptyClose, ShouldClose, Goes, timers
    <3>7. CASE StopsAccepting \/ Overdue \/ ExpireCloses \/ ExpireClose \/ ExpireEnds
      BY <3>7 DEF StopsAccepting, Overdue, ExpireCloses, ExpireClose, ExpireEnds, timers
    <3> QED BY <3>1, <3>2, <3>3, <3>4, <3>5, <3>6, <3>7 DEF Next, Goroutine
  <2>2. /\ IsFiniteSet(In \ Arriving) /\ Cardinality(In \ Arriving) = 0
    BY <1>1, <2>1, CountedAreWithinLoad DEF RoomInv
  <2>3. In \ Arriving = {}
    BY <2>2, FS_EmptySet
  <2> QED BY <2>3
<1>2. RoomInv /\ [Next]_vars
        => [~closed /\ ~kicked /\ ClosingDecided => In \subseteq Arriving]_vars
  BY <1>1
<1> QED BY <1>2, RoomInvariant, PTL DEF Spec, ClosingDecidedWhenEmpty
=============================================================================

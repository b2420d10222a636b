-------------------------------- MODULE Room --------------------------------
(***************************************************************************)
(* pkg/Room: who is in a room, how full it is and when it closes.  Every   *)
(* connection has a goroutine (processClient); a kick leaves a timer       *)
(* behind; processExpire is one goroutine more.  They share m.clients,     *)
(* currentClientsCount, Options.EmptyClose and GoingClose, each accessed   *)
(* atomically but never together: who comes in is stored in the map and    *)
(* counted in a second step, and who is removed is deleted from the map    *)
(* and counted down in a second step.                                      *)
(*                                                                         *)
(* Close is one action: close(GoingClose) decides a race of two closers by *)
(* a panic; that the Radio's channels and the listener are closed a little *)
(* later shows in Accept, which may find one more connection, and in       *)
(* SendsToClosedRadio, which need not happen at once.                      *)
(***************************************************************************)
EXTENDS Integers, FiniteSets

CONSTANTS
  Client,      \* connections ever made to the room
  MaxLoad,     \* Options.MaxLoad
  MaxDrift     \* bound: no bad command at a count of -MaxDrift or below

ASSUME RoomAssumption ==
  /\ IsFiniteSet(Client)
  /\ MaxLoad \in Nat \ {0}
  /\ MaxDrift \in Nat

VARIABLES
  users,        \* m.clients: "absent", "guest" (no clientId yet) or "member"
  count,        \* currentClientsCount
  goroutine,    \* processClient's goroutine
  target,       \* whom each goroutine is kicking, itself when nobody
  socket,       \* the connection of each client
  kickTimers,   \* the clients whose Close a kick has scheduled
  emptyClose,   \* Options.EmptyClose
  overdue,      \* is lastCheck older than the room's expiration?
  expire,       \* processExpire's goroutine
  closed,       \* GoingClose is closed
  accepting,    \* Run's goroutine has not returned
  crashed,      \* a panic that nothing recovers has ended the process
  kicked        \* history: was a client kicked whose goroutine went on?

timers == <<kickTimers, emptyClose, overdue, expire>>
ending == <<closed, accepting, crashed>>
vars   == <<users, count, goroutine, target, socket, timers, ending, kicked>>

\* Between the deletion of a client from the map and its counting down, and
\* where processClient goes on after it.
Then ==
  [leaving |-> "left", dropping |-> "gone", silent |-> "gone", kicking |-> "select"]

TypeOK ==
  /\ users \in [Client -> {"absent", "guest", "member"}]
  /\ count \in Int /\ count <= Cardinality(Client)
  /\ goroutine \in [Client -> {"none", "arriving", "select", "joining", "found",
                             "left", "closing", "gone"} \cup DOMAIN Then]
  /\ target \in [Client -> Client]
  /\ socket \in [Client -> {"none", "open", "closed"}]
  /\ kickTimers \subseteq Client
  /\ emptyClose \in BOOLEAN
  /\ overdue \in BOOLEAN
  /\ expire \in {"waiting", "closing", "gone"}
  /\ closed \in BOOLEAN
  /\ accepting \in BOOLEAN
  /\ crashed \in BOOLEAN
  /\ kicked \in BOOLEAN

Init ==
  /\ users = [c \in Client |-> "absent"]
  /\ count = 0
  /\ goroutine = [c \in Client |-> "none"]
  /\ target = [c \in Client |-> c]
  /\ socket = [c \in Client |-> "none"]
  /\ kickTimers = {}
  /\ emptyClose \in BOOLEAN
  /\ overdue = FALSE
  /\ expire = "waiting"
  /\ closed = FALSE
  /\ accepting = TRUE
  /\ crashed = FALSE
  /\ kicked = FALSE

In      == {c \in Client : users[c] # "absent"}
Members == {c \in Client : users[c] = "member"}

Arriving == {c \in Client : goroutine[c] = "arriving"}
Removing == {c \in Client : goroutine[c] \in DOMAIN Then}

At(c, place) == ~crashed /\ goroutine[c] = place

Goes(c, place) == goroutine' = [goroutine EXCEPT ![c] = place]

\* removeClient, first half: gone from the map, whether it was there or not.
Deletes(c, place, victim) ==
  /\ users' = [users EXCEPT ![victim] = "absent"]
  /\ target' = [target EXCEPT ![c] = victim]
  /\ Goes(c, place)
  /\ UNCHANGED <<count, socket, timers, ending>>

\* Mutant: a removal is not counted.
CountNothing == UNCHANGED count

\* Mutant: a removal is counted in the wrong direction.
CountUp == count' = count + 1

\* The second half does not ask whether the client was in the map.
CountDown == count' = count - 1

\* It is followed by the timer, for the two who are kicked.
CountsDown(c) ==
  /\ ~crashed /\ c \in Removing
  /\ CountDown
  /\ kickTimers' = IF goroutine[c] \in {"silent", "kicking"} THEN kickTimers \cup {target[c]}
                   ELSE kickTimers
  /\ target' = [target EXCEPT ![c] = c]
  /\ Goes(c, Then[goroutine[c]])
  /\ UNCHANGED <<users, socket, emptyClose, overdue, expire, ending, kicked>>

-----------------------------------------------------------------------------
(* Connections.                                                            *)

\* Run accepts one connection after the other, and looks at GoingClose before
\* it waits for the next.
Accept(c) ==
  /\ ~crashed /\ accepting
  /\ Arriving = {}
  /\ socket[c] = "none"
  /\ socket' = [socket EXCEPT ![c] = "open"]
  /\ users' = [users EXCEPT ![c] = "guest"]
  /\ Goes(c, "arriving")
  /\ UNCHANGED <<count, target, timers, ending, kicked>>

CountsIn(c) ==
  /\ At(c, "arriving")
  /\ count' = count + 1
  /\ Goes(c, "select")
  /\ accepting' = ~closed
  /\ UNCHANGED <<users, target, socket, timers, closed, crashed, kicked>>

StopsAccepting ==
  /\ ~crashed /\ accepting
  /\ Arriving = {}
  /\ closed
  /\ accepting' = FALSE
  /\ UNCHANGED <<users, count, goroutine, target, socket, timers, closed, crashed, kicked>>

\* The peer goes away, or its kick timer closes the socket.
Disconnect(c) ==
  /\ ~crashed
  /\ socket[c] = "open"
  /\ socket' = [socket EXCEPT ![c] = "closed"]
  /\ UNCHANGED <<users, count, goroutine, target, timers, ending, kicked>>

KickTimerFires(c) ==
  /\ ~crashed
  /\ c \in kickTimers
  /\ kickTimers' = kickTimers \ {c}
  /\ socket' = [socket EXCEPT ![c] = "closed"]
  /\ UNCHANGED <<users, count, goroutine, target, emptyClose, overdue, expire, ending, kicked>>

\* The package channel is closed: removeClient, then processEmptyClose.
Leave(c) ==
  /\ At(c, "select")
  /\ socket[c] = "closed"
  /\ Deletes(c, "leaving", c)
  /\ UNCHANGED kicked

\* No package for 30 seconds: kicked, and nobody looks for an empty room.
Silent(c) ==
  /\ At(c, "select")
  /\ Deletes(c, "silent", c)
  /\ UNCHANGED kicked

\* GoingClose: m.clients is replaced by an empty map, the count is left.
SeeClosing(c) ==
  /\ At(c, "select")
  /\ closed
  /\ users' = [d \in Client |-> "absent"]
  /\ Goes(c, "gone")
  /\ UNCHANGED <<count, target, socket, timers, ending, kicked>>

-----------------------------------------------------------------------------
(* Packages.                                                               *)

\* Mutant: a room at its limit takes one more.
FullAbove(n) == n > MaxLoad + 1

Full(n) == n > MaxLoad

\* handleJoin: the load is looked at first, the clientId given later.
JoinChecks(c) ==
  /\ At(c, "select")
  /\ ~Full(count)
  /\ Goes(c, "joining")
  /\ UNCHANGED <<users, count, target, socket, timers, ending, kicked>>

Joins(c) ==
  /\ At(c, "joining")
  /\ users' = [users EXCEPT ![c] = IF @ = "absent" THEN @ ELSE "member"]
  /\ Goes(c, "select")
  /\ UNCHANGED <<count, target, socket, timers, ending, kicked>>

\* A DATA or MESSAGE package of somebody who is no member.
Unwelcome(c) ==
  /\ At(c, "select")
  /\ users[c] # "member"
  /\ Deletes(c, "dropping", c)
  /\ UNCHANGED kicked

\* One of a member: sent to the Radio, whose channels Close has closed.
SendsToClosedRadio(c) ==
  /\ At(c, "select")
  /\ users[c] = "member"
  /\ closed
  /\ crashed' = TRUE
  /\ UNCHANGED <<users, count, goroutine, target, socket, timers, closed, accepting, kicked>>

\* A command the router cannot handle, or whose handler panics because it
\* answers, or tells the one it kicks, through a closed Radio: its own client
\* is kicked, but the goroutine goes on.
BadCommand(c) ==
  /\ count > -MaxDrift
  /\ At(c, "select") \/ (At(c, "found") /\ closed)
  /\ Deletes(c, "kicking", c)
  /\ kicked' = TRUE

\* handleKick of a member with the key: the target is looked up and told, ...
Kick(c, victim) ==
  /\ At(c, "select") /\ users[c] = "member"
  /\ users[victim] # "absent"
  /\ target' = [target EXCEPT ![c] = victim]
  /\ Goes(c, "found")
  /\ UNCHANGED <<users, count, socket, timers, ending, kicked>>

\* ... and kicked, whatever has become of it.
KickRemoves(c) ==
  /\ At(c, "found")
  /\ Deletes(c, "kicking", target[c])
  /\ kicked' = TRUE

\* handleClose and handleCheckout of a member with the key.
CloseRequest(c) ==
  /\ At(c, "select") /\ users[c] = "member"
  /\ emptyClose' = TRUE
  /\ UNCHANGED <<users, count, goroutine, target, socket, kickTimers, overdue, expire, ending, kicked>>

Checkout(c) ==
  /\ At(c, "select") /\ users[c] = "member"
  /\ ~emptyClose
  /\ overdue' = FALSE
  /\ UNCHANGED <<users, count, goroutine, target, socket, kickTimers, emptyClose, expire, ending, kicked>>

-----------------------------------------------------------------------------
(* Closing: the count is read, Close comes later.                          *)

\* Mutant: a room that was asked to close does so when somebody leaves.
ShouldCloseAnyway(n) == emptyClose

ShouldClose(n) == n = 0 /\ emptyClose

ProcessEmptyClose(c) ==
  /\ At(c, "left")
  /\ Goes(c, IF ShouldClose(count) THEN "closing" ELSE "gone")
  /\ UNCHANGED <<users, count, target, socket, timers, ending, kicked>>

\* close(GoingClose) panics if it is closed already.
Close == IF closed THEN crashed' = TRUE /\ UNCHANGED closed
         ELSE closed' = TRUE /\ UNCHANGED crashed

ClientCloses(c) ==
  /\ At(c, "closing")
  /\ Close
  /\ Goes(c, "gone")
  /\ UNCHANGED <<users, count, target, socket, timers, accepting, kicked>>

Overdue ==
  /\ ~crashed
  /\ ~overdue
  /\ overdue' = TRUE
  /\ UNCHANGED <<users, count, goroutine, target, socket, kickTimers, emptyClose, expire, ending, kicked>>

\* Mutant: a room past its schedule waits for its last leaver, even if that
\* one has left already.
ExpireMarksOnly ==
  /\ ~crashed /\ expire = "waiting"
  /\ overdue
  /\ emptyClose' = TRUE
  /\ UNCHANGED <<users, count, goroutine, target, socket, kickTimers, overdue, expire, ending, kicked>>

\* processExpire: an hour has passed.
ExpireCloses ==
  /\ ~crashed /\ expire = "waiting"
  /\ overdue
  /\ IF count = 0 THEN expire' = "closing" /\ UNCHANGED emptyClose
     ELSE emptyClose' = TRUE /\ UNCHANGED expire
  /\ UNCHANGED <<users, count, goroutine, target, socket, kickTimers, overdue, ending, kicked>>

ExpireClose ==
  /\ ~crashed /\ expire = "closing"
  /\ Close
  /\ expire' = "gone"
  /\ UNCHANGED <<users, count, goroutine, target, socket, kickTimers, emptyClose, overdue, accepting, kicked>>

ExpireEnds ==
  /\ ~crashed /\ expire = "waiting" /\ closed
  /\ expire' = "gone"
  /\ UNCHANGED <<users, count, goroutine, target, socket, kickTimers, emptyClose, overdue, ending, kicked>>

Goroutine(c) ==
  \/ Leave(c) \/ Silent(c) \/ SeeClosing(c)
  \/ JoinChecks(c) \/ Joins(c) \/ Unwelcome(c) \/ SendsToClosedRadio(c)
  \/ BadCommand(c) \/ CloseRequest(c) \/ Checkout(c)
  \/ (\E victim \in Client : Kick(c, victim)) \/ KickRemoves(c) \/ CountsDown(c)
  \/ ProcessEmptyClose(c) \/ ClientCloses(c)

Next ==
  \/ \E c \in Client : Accept(c) \/ CountsIn(c) \/ Disconnect(c) \/ KickTimerFires(c) \/ Goroutine(c)
  \/ StopsAccepting
  \/ Overdue \/ ExpireCloses \/ ExpireClose \/ ExpireEnds

Spec == Init /\ [][Next]_vars

\* Timers fire and goroutines that can go on do; nobody has to connect, join
\* or ask for anything.
FairSpec ==
  /\ Spec
  /\ WF_vars(Overdue) /\ WF_vars(ExpireCloses) /\ WF_vars(ExpireClose)
  /\ \A c \in Client :
       /\ WF_vars(CountsIn(c)) /\ WF_vars(Leave(c)) /\ WF_vars(Joins(c))
       /\ WF_vars(CountsDown(c)) /\ WF_vars(KickTimerFires(c))
       /\ WF_vars(ProcessEmptyClose(c)) /\ WF_vars(ClientCloses(c))

-----------------------------------------------------------------------------
(* Properties.                                                             *)

\* Until a kick, and not above it after one.
CountIsLoad ==
  ~closed /\ ~kicked =>
    count + Cardinality(Arriving) = Cardinality(In) + Cardinality(Removing)

LoadNotOverstated ==
  ~closed => count + Cardinality(Arriving) <= Cardinality(In) + Cardinality(Removing)

\* However the ways in and out interleave, the load that is compared with
\* MaxLoad, shown in the room list and looked at before closing is, in the
\* open room, the number of clients in the map, but for those between the two
\* halves of their accept and of a removal; and kicks or not, it is never
\* higher for longer than that: nobody is told that the room is full because
\* of a client whose removal is over.
LoadIsKept == CountIsLoad /\ LoadNotOverstated

\* "room is full": until a kick, there are never more members than MaxLoad,
\* although handleJoin compares the load long before it lets the client in.
MembersWithinMaxLoad == ~closed /\ ~kicked => Cardinality(Members) <= MaxLoad

ClosingDecided ==
  \/ \E c \in Client : goroutine[c] # "closing" /\ goroutine'[c] = "closing"
  \/ expire # "closing" /\ expire' = "closing"

\* "the close state lasts to no one stays in room": no closing is decided upon
\* while anybody's goroutine serves a client in the open room.  One that Run
\* has just stored, and not counted yet, is overlooked.
StaysOpenWhileUsed == [][~closed /\ ClosingDecided => In \subseteq Arriving]_vars

\* Until a kick, that holds.
ClosingDecidedWhenEmpty ==
  [][~closed /\ ~kicked /\ ClosingDecided => In \subseteq Arriving]_vars

\* "server schedules a close action to room": a room that nobody enters any
\* more is closed in the end, by its last leaver or by its schedule, if nobody
\* was kicked from it.
DesertedRoomCloses == <>[](In = {}) /\ []~kicked => <>(closed \/ crashed)

-----------------------------------------------------------------------------
(* The inductive invariant behind the properties above.                    *)

Connected == {c \in Client : socket[c] # "none"}

NothingBeforeAccept ==
  \A c \in Client :
    /\ socket[c] = "none" =>
         users[c] = "absent" /\ goroutine[c] = "none" /\ target[c] = c /\ c \notin kickTimers
    /\ socket[c] # "none" => socket[target[c]] # "none"

CountWithinConnected == count + Cardinality(Arriving) <= Cardinality(Connected)

\* Until a kick, a client is in the room as long as its goroutine serves it, or
\* is about to, and nobody goes on after a removal.
InWhileServed ==
  ~closed /\ ~kicked =>
    \A c \in Client :
      /\ c \in In <=> goroutine[c] \in {"arriving", "select", "joining", "found"}
      /\ goroutine[c] # "kicking"

\* The members, and those whose join has passed the look at the load.
Seated == {c \in Client : users[c] = "member" \/ goroutine[c] = "joining"}

\* Nobody is seated before being counted.
SeatedWithinMaxLoad ==
  ~closed /\ ~kicked => Cardinality(Seated) <= MaxLoad /\ Seated \cap Arriving = {}

RoomInv ==
  /\ TypeOK
  /\ NothingBeforeAccept
  /\ CountWithinConnected
  /\ LoadNotOverstated
  /\ CountIsLoad
  /\ InWhileServed
  /\ SeatedWithinMaxLoad
=============================================================================

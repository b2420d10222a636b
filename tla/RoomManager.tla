----------------------------- MODULE RoomManager -----------------------------
(***************************************************************************)
(* pkg/RoomManager: the map of the rooms that are served, and the database *)
(* from which a restarted server recovers them.  A newroom request, the    *)
(* end of a room and the hourly shortening write to both, each in a        *)
(* goroutine of its own and in several steps; a crash may come between any *)
(* two, and any write to the database may fail, which nobody looks at.     *)
(* What goes on in a room is Room's business: here it runs, and some time  *)
(* its Run returns.                                                        *)
(*                                                                         *)
(* RoomManager.Close is called by nobody and left out.                     *)
(***************************************************************************)
EXTENDS Integers, FiniteSets

CONSTANTS
  Name,          \* the names that requests ask for
  Room,          \* the rooms ever made, each a pair of its name and a number
  None,          \* no room
  Expiration,    \* Config "expiration": hours until a room is to close
  MaxRoomCount,  \* Config "max_room_count"
  MaxFaults,     \* bound: crashes of the process, and rooms of which a Put or
                 \* a Delete fails
  MaxShortenings \* bound: ticks of shortenRooms' hour

ASSUME RoomManagerAssumption ==
  /\ Room \subseteq Name \X Nat
  /\ None \notin Room
  /\ Expiration \in Nat
  /\ MaxRoomCount \in Nat \ {0}
  /\ MaxFaults \in Nat
  /\ MaxShortenings \in Nat

NameOf(r) == r[1]

VARIABLES
  server,       \* the process: "down", "recovering" or "serving"
  todo,         \* the records that recovery's iterator has still to come to
  rooms,        \* m.rooms
  count,        \* m.currentRoomCount
  db,           \* the database: a record for each name
  request,      \* the newroom request that makes the room
  life,         \* the room's goroutine: Run, and waitRoomClosed after it
  shortening,   \* has shortenRooms read the records, and not written yet?
  seen,         \* the records that it read
  crashes,      \* crashes so far
  shortenings,  \* shortenings so far
  erased,       \* history: rooms that have ended and been deleted from db
  spent,        \* history: rooms whose record shortenRooms has deleted
  lost,         \* history: rooms that a recovery could not open
  unrecorded,   \* history: rooms whose Put has failed
  undeleted,    \* history: rooms of which a Delete has failed
  crossed,      \* history: names that two rooms had at once
  late          \* history: names with a write that undoes what was newer: a Put
                \* after the room's end, a batch over what was written meanwhile

process == <<server, todo, rooms, count>>
hourly  == <<shortening, seen, shortenings>>
refused == <<unrecorded, undeleted>>
raced   == <<crossed, late>>
history == <<erased, spent, lost, refused, raced>>
vars    == <<process, db, request, life, hourly, crashes, history>>

Record   == [room : Room \cup {None}, hours : Nat]
NoRecord == [room |-> None, hours |-> 0]

TypeOK ==
  /\ server \in {"down", "recovering", "serving"}
  /\ todo \subseteq Name
  /\ rooms \in [Name -> Room \cup {None}]
  /\ count \in Int
  /\ db \in [Name -> Record]
  /\ request \in [Room -> {"none", "checked", "made", "answered", "dropped"}]
  /\ life \in [Room -> {"none", "running", "closed", "erased", "gone"}]
  /\ shortening \in BOOLEAN
  /\ seen \in [Name -> Record]
  /\ crashes \in 0 .. MaxFaults
  /\ shortenings \in 0 .. MaxShortenings
  /\ erased \subseteq Room
  /\ spent \subseteq Room
  /\ lost \subseteq Room
  /\ unrecorded \subseteq Room
  /\ undeleted \subseteq Room
  /\ crossed \subseteq Name
  /\ late \subseteq Name

\* The first start of the server, with an empty database.
Init ==
  /\ server = "recovering"
  /\ todo = {}
  /\ rooms = [n \in Name |-> None]
  /\ count = 0
  /\ db = [n \in Name |-> NoRecord]
  /\ request = [r \in Room |-> "none"]
  /\ life = [r \in Room |-> "none"]
  /\ shortening = FALSE
  /\ seen = [n \in Name |-> NoRecord]
  /\ crashes = 0
  /\ shortenings = 0
  /\ erased = {}
  /\ spent = {}
  /\ lost = {}
  /\ unrecorded = {}
  /\ undeleted = {}
  /\ crossed = {}
  /\ late = {}

Up == server # "down"

\* One more thing may go wrong.
MayFail == crashes + Cardinality(unrecorded) + Cardinality(undeleted) < MaxFaults

-----------------------------------------------------------------------------
(* newroom: checked, made, recorded and answered.                          *)

\* limitRoomOption, as far as the answer depends on the other rooms.
NewRoomChecks(r) ==
  /\ server = "serving"
  /\ request[r] = "none" /\ life[r] = "none"
  /\ rooms[NameOf(r)] = None
  /\ count < MaxRoomCount
  /\ request' = [request EXCEPT ![r] = "checked"]
  /\ UNCHANGED <<process, db, life, hourly, crashes, history>>

\* ServeRoom has succeeded; the room is stored and its goroutine started.
NewRoomStores(r) ==
  /\ Up
  /\ request[r] = "checked"
  /\ request' = [request EXCEPT ![r] = "made"]
  /\ rooms' = [rooms EXCEPT ![NameOf(r)] = r]
  /\ count' = count - 1
  /\ life' = [life EXCEPT ![r] = "running"]
  /\ crossed' = IF rooms[NameOf(r)] # None THEN crossed \cup {NameOf(r)} ELSE crossed
  /\ UNCHANGED <<server, todo, db, hourly, crashes, erased, spent, lost, refused, late>>

\* ServeRoom has failed: the handler panics, which the router recovers.
NewRoomFails(r) ==
  /\ Up
  /\ request[r] = "checked"
  /\ request' = [request EXCEPT ![r] = "dropped"]
  /\ UNCHANGED <<process, db, life, hourly, crashes, history>>

\* db.Put, and the answer to the client, ...
NewRoomAnswers(r) ==
  /\ Up
  /\ request[r] = "made"
  /\ request' = [request EXCEPT ![r] = "answered"]
  /\ db' = [db EXCEPT ![NameOf(r)] = [room |-> r, hours |-> Expiration]]
  /\ late' = IF life[r] \in {"erased", "gone"} THEN late \cup {NameOf(r)} ELSE late
  /\ UNCHANGED <<process, life, hourly, crashes, erased, spent, lost, refused, crossed>>

\* ... which is the same when the Put fails: its error is dropped.
NewRoomAnswersAnyway(r) ==
  /\ Up
  /\ request[r] = "made"
  /\ MayFail
  /\ request' = [request EXCEPT ![r] = "answered"]
  /\ unrecorded' = unrecorded \cup {r}
  /\ UNCHANGED <<process, db, life, hourly, crashes, erased, spent, lost, undeleted, raced>>

-----------------------------------------------------------------------------
(* The end of a room: Run returns, then waitRoomClosed.                    *)

Closes(r) ==
  /\ Up
  /\ life[r] = "running"
  /\ life' = [life EXCEPT ![r] = "closed"]
  /\ UNCHANGED <<process, db, request, hourly, crashes, history>>

\* Mutant: the key to delete is not the one that was written.
ErasesNothing(r) ==
  /\ Up
  /\ life[r] = "closed"
  /\ life' = [life EXCEPT ![r] = "erased"]
  /\ erased' = erased \cup {r}
  /\ UNCHANGED <<process, db, request, hourly, crashes, spent, lost, refused, raced>>

\* Mutant: the name is given back before the record is deleted.
UnlistsFirst(r) ==
  /\ Up
  /\ life[r] = "closed"
  /\ life' = [life EXCEPT ![r] = "erased"]
  /\ rooms' = [rooms EXCEPT ![NameOf(r)] = None]
  /\ count' = count - 1
  /\ UNCHANGED <<server, todo, db, request, hourly, crashes, history>>

Erases(r) ==
  /\ Up
  /\ life[r] = "closed"
  /\ life' = [life EXCEPT ![r] = "erased"]
  /\ db' = [db EXCEPT ![NameOf(r)] = NoRecord]
  /\ erased' = erased \cup {r}
  /\ UNCHANGED <<process, request, hourly, crashes, spent, lost, refused, raced>>

\* The error of db.Delete is dropped as well.
ErasesInVain(r) ==
  /\ Up
  /\ life[r] = "closed"
  /\ MayFail
  /\ life' = [life EXCEPT ![r] = "erased"]
  /\ undeleted' = undeleted \cup {r}
  /\ UNCHANGED <<process, db, request, hourly, crashes, erased, spent, lost, unrecorded, raced>>

\* Mutant: the name is not given back.
UnlistsNothing(r) ==
  /\ Up
  /\ life[r] = "erased"
  /\ life' = [life EXCEPT ![r] = "gone"]
  /\ count' = count - 1
  /\ UNCHANGED <<server, todo, rooms, db, request, hourly, crashes, history>>

\* The deletion is by name; the count goes down, as it did before.
Unlists(r) ==
  /\ Up
  /\ life[r] = "erased"
  /\ life' = [life EXCEPT ![r] = "gone"]
  /\ rooms' = [rooms EXCEPT ![NameOf(r)] = None]
  /\ count' = count - 1
  /\ UNCHANGED <<server, todo, db, request, hourly, crashes, history>>

-----------------------------------------------------------------------------
(* shortenRooms: a snapshot is read, a batch computed and written at once. *)

ShortenReads ==
  /\ server = "serving"
  /\ ~shortening
  /\ shortenings < MaxShortenings
  /\ shortening' = TRUE
  /\ seen' = db
  /\ shortenings' = shortenings + 1
  /\ UNCHANGED <<process, db, request, life, crashes, history>>

\* Mutant: a record is deleted an hour too early.
LastsTwoHours(record) == record.hours > 2

Lasts(record) == record.hours > 1

Shortened(n) ==
  IF seen[n].room = None THEN db[n]
  ELSE IF Lasts(seen[n]) THEN [room |-> seen[n].room, hours |-> seen[n].hours - 1]
  ELSE NoRecord

ShortenWrites ==
  /\ server = "serving"
  /\ shortening
  /\ shortening' = FALSE
  /\ seen' = [n \in Name |-> NoRecord]
  /\ db' = [n \in Name |-> Shortened(n)]
  /\ spent' = spent \cup {seen[n].room : n \in {m \in Name : seen[m].room # None /\ seen[m].hours <= 1}}
  /\ late' = late \cup {n \in Name : seen[n].room # None /\ seen[n] # db[n]}
  /\ UNCHANGED <<process, request, life, shortenings, crashes, erased, lost, refused, crossed>>

\* The batch is written as a whole or not at all, and its error dropped.
ShortenWritesNothing ==
  /\ server = "serving"
  /\ shortening
  /\ shortening' = FALSE
  /\ seen' = [n \in Name |-> NoRecord]
  /\ UNCHANGED <<process, db, request, life, shortenings, crashes, history>>

-----------------------------------------------------------------------------
(* Crash and recovery.                                                     *)

\* What is in memory is lost; the database keeps what was written to it.
Crash ==
  /\ Up
  /\ MayFail
  /\ crashes' = crashes + 1
  /\ server' = "down"
  /\ todo' = {}
  /\ rooms' = [n \in Name |-> None]
  /\ count' = 0
  /\ request' = [r \in Room |-> IF request[r] \in {"checked", "made"} THEN "dropped" ELSE request[r]]
  /\ life' = [r \in Room |-> "none"]
  /\ shortening' = FALSE
  /\ seen' = [n \in Name |-> NoRecord]
  /\ UNCHANGED <<db, shortenings, history>>

\* Mutant: the iterator is not limited to records of rooms.
RestartTriesAll ==
  /\ ~Up
  /\ server' = "recovering"
  /\ todo' = Name
  /\ UNCHANGED <<rooms, count, db, request, life, hourly, crashes, history>>

\* The watch dog starts the server again, whose recovery opens the database.
Restart ==
  /\ ~Up
  /\ server' = "recovering"
  /\ todo' = {n \in Name : db[n].room # None}
  /\ UNCHANGED <<rooms, count, db, request, life, hourly, crashes, history>>

\* RecoverRoom has opened the room.
Recovers(n) ==
  /\ server = "recovering"
  /\ n \in todo
  /\ todo' = todo \ {n}
  /\ rooms' = [rooms EXCEPT ![n] = db[n].room]
  /\ count' = count - 1
  /\ life' = [life EXCEPT ![db[n].room] = "running"]
  /\ UNCHANGED <<server, db, request, hourly, crashes, history>>

\* Mutant: recovery ends at the first room that cannot be opened.
RecoverGivesUp(n) ==
  /\ server = "recovering"
  /\ n \in todo
  /\ todo' = {}
  /\ lost' = lost \cup {db[n].room}
  /\ UNCHANGED <<server, rooms, count, db, request, life, hourly, crashes, erased, spent, refused, raced>>

\* It has not, as when its port is taken: the record stays.
RecoverFails(n) ==
  /\ server = "recovering"
  /\ n \in todo
  /\ todo' = todo \ {n}
  /\ lost' = lost \cup {db[n].room}
  /\ UNCHANGED <<server, rooms, count, db, request, life, hourly, crashes, erased, spent, refused, raced>>

Serves ==
  /\ server = "recovering"
  /\ todo = {}
  /\ server' = "serving"
  /\ UNCHANGED <<todo, rooms, count, db, request, life, hourly, crashes, history>>

Next ==
  \/ \E r \in Room :
       \/ NewRoomChecks(r) \/ NewRoomStores(r) \/ NewRoomFails(r) \/ NewRoomAnswers(r)
       \/ NewRoomAnswersAnyway(r) \/ Closes(r) \/ Erases(r) \/ ErasesInVain(r) \/ Unlists(r)
  \/ ShortenReads \/ ShortenWrites \/ ShortenWritesNothing
  \/ Crash \/ Restart \/ Serves
  \/ \E n \in Name : Recovers(n) \/ RecoverFails(n)

Spec == Init /\ [][Next]_vars

\* recovery is a loop without a wait.  Nothing else has to happen: rooms need
\* not close, and nobody promises that a server is started again.
FairSpec == Spec /\ \A n \in Name : WF_vars(Recovers(n) \/ RecoverFails(n))

-----------------------------------------------------------------------------
(* Properties.                                                             *)

Serving(r) == life[r] \in {"running", "closed", "erased"}

Quiet(n) == n \notin crossed /\ n \notin late

\* The room list shows no room that has gone, nor one that could not be opened,
\* whatever the order in which requests, closing rooms, crashes and recoveries
\* come.
ListedIsThere == \A n \in Name : rooms[n] # None => NameOf(rooms[n]) = n /\ Serving(rooms[n])

\* A name is held by its room until the deletion of the room's record has been
\* tried, so that this deletion, which is by name, does not meet a later room:
\* unless two requests for the name crossed.
NameIsHeld == \A r \in Room : Serving(r) /\ NameOf(r) \notin crossed => rooms[NameOf(r)] = r

\* A room whose making was announced, and that runs, would be recovered after
\* a crash: its record is there, unless the database refused it, its hours are
\* used up, or other requests or the shortening got in its way.
AnnouncedIsRecorded ==
  \A r \in Room :
    /\ request[r] = "answered" /\ life[r] = "running"
    /\ r \notin unrecorded /\ r \notin spent /\ Quiet(NameOf(r))
    => db[NameOf(r)].room = r

\* A room that has ended, and was deleted from the database, is not recovered
\* by any later start of the server, even if requests for its name crossed,
\* unless a later write put it back.
ErasedStaysGone ==
  \A r \in erased : NameOf(r) \notin late => db[NameOf(r)].room # r /\ life[r] # "running"

\* Every record is that of a listed room, of one that could not be opened at
\* some start, or of one that the database would not delete: nothing else stays
\* behind.
RecordsAreServed ==
  server = "serving" =>
    \A n \in Name :
      db[n].room # None /\ Quiet(n)
        => rooms[n] = db[n].room \/ db[n].room \in lost \cup undeleted

\* A room that recovery cannot open does not keep the others from being
\* recovered: each is tried, unless the server goes down again.
EachIsTried ==
  \A n \in Name :
    n \in todo ~> (~Up \/ \E r \in Room : db[n].room = r /\ (life[r] = "running" \/ r \in lost))

-----------------------------------------------------------------------------
(* The inductive invariant behind the properties above.                    *)

NamesMatch ==
  /\ \A n \in Name : db[n].room # None => NameOf(db[n].room) = n
  /\ \A n \in Name : seen[n].room # None => NameOf(seen[n].room) = n

DownIsEmpty == ~Up => \A r \in Room : life[r] = "none"

NothingAskedUntilServing ==
  server # "serving" => ~shortening /\ \A r \in Room : request[r] \notin {"checked", "made"}

\* What recovery has still to open is not there yet.
TodoIsAhead ==
  /\ todo # {} => server = "recovering"
  /\ \A n \in todo : db[n].room # None /\ \A r \in Room : NameOf(r) = n => life[r] = "none"

\* A room is in the database, or read from it, only after it was put there.
RecordedWasAnswered ==
  \A n \in Name :
    /\ db[n].room # None => request[db[n].room] = "answered"
    /\ seen[n].room # None => request[seen[n].room] = "answered"

MadeBeforeServing ==
  \A r \in Room : /\ request[r] = "made" => life[r] # "none"
                  /\ request[r] \notin {"made", "answered"} => life[r] = "none"

\* As AnnouncedIsRecorded, and until the room is deleted.
RecordedUntilErased ==
  \A r \in Room :
    /\ request[r] = "answered" /\ life[r] \in {"running", "closed"}
    /\ r \notin unrecorded /\ r \notin spent /\ Quiet(NameOf(r))
    => db[NameOf(r)].room = r

ErasedIsOver ==
  \A r \in erased :
    NameOf(r) \notin late => db[NameOf(r)].room # r /\ life[r] \in {"erased", "gone", "none"}

MarkedErased ==
  \A r \in Room : /\ life[r] = "erased" => r \in erased \cup undeleted
                  /\ r \in erased => request[r] \notin {"none", "checked"}

\* As RecordsAreServed, from the start of recovery.
RecordsAreServedOrAhead ==
  Up => \A n \in Name :
          db[n].room # None /\ Quiet(n)
            => rooms[n] = db[n].room \/ db[n].room \in lost \cup undeleted \/ n \in todo

RefusedAreFinite == IsFiniteSet(unrecorded) /\ IsFiniteSet(undeleted)

RoomManagerInv ==
  /\ TypeOK /\ RefusedAreFinite
  /\ NamesMatch /\ DownIsEmpty /\ NothingAskedUntilServing /\ TodoIsAhead
  /\ RecordedWasAnswered /\ MadeBeforeServing
  /\ ListedIsThere /\ NameIsHeld
  /\ RecordedUntilErased /\ ErasedIsOver /\ MarkedErased /\ RecordsAreServedOrAhead
=============================================================================

-------------------------- MODULE RoomManagerProofs --------------------------
(***************************************************************************)
(* Proofs about RoomManager, for any rooms and names, any number of        *)
(* crashes and of writes that the database refuses, and any expiration.    *)
(* The argument turns on who holds a name: while no two requests for it    *)
(* have crossed, the room that runs under it is the listed one, so that a  *)
(* deletion by name and a Put meet the record of the room they mean; and   *)
(* while no write came late, none of them undoes what was newer.           *)
(***************************************************************************)
EXTENDS RoomManager, FiniteSetTheorems, TLAPS

USE RoomManagerAssumption

\* A room's name is one of the names.
LEMMA NamesOfRooms == \A r \in Room : NameOf(r) \in Name
BY DEF NameOf

\* What a shortening leaves of a record.
LEMMA ShortenedRecord ==
  ASSUME TypeOK, NEW n \in Name
  PROVE  /\ Shortened(n) \in Record
         /\ Shortened(n) = db[n] \/ Shortened(n) = NoRecord \/ Shortened(n).room = seen[n].room
         /\ seen[n].room # None /\ Shortened(n).room # seen[n].room => seen[n].hours <= 1
<1>1. seen[n] \in Record /\ db[n] \in Record /\ NoRecord \in Record
  BY DEF TypeOK, Record, NoRecord
<1>2. CASE seen[n].room = None
  BY <1>1, <1>2 DEF Shortened
<1>3. CASE seen[n].room # None /\ Lasts(seen[n])
  <2>1. Shortened(n) = [room |-> seen[n].room, hours |-> seen[n].hours - 1]
    BY <1>3 DEF Shortened
  <2> QED BY <1>1, <1>3, <2>1 DEF Record, Lasts
<1>4. CASE seen[n].room # None /\ ~Lasts(seen[n])
  BY <1>1, <1>4 DEF Shortened, Lasts, Record
<1> QED BY <1>2, <1>3, <1>4

\* Types.
LEMMA TypeStep ==
  ASSUME TypeOK, RefusedAreFinite, RecordedWasAnswered, TodoIsAhead, [Next]_vars
  PROVE  TypeOK'
<1> USE DEF TypeOK, process, hourly, history, refused, raced
<1>1. CASE UNCHANGED vars
  BY <1>1 DEF vars
<1>2. ASSUME NEW r \in Room,
             NewRoomChecks(r) \/ NewRoomStores(r) \/ NewRoomFails(r) \/ Closes(r) \/ Unlists(r)
      PROVE TypeOK'
  <2>1. CASE NewRoomChecks(r) \/ NewRoomFails(r) \/ Closes(r)
    BY <2>1 DEF NewRoomChecks, NewRoomFails, Closes
  <2>2. CASE NewRoomStores(r)
    BY <2>2, NamesOfRooms DEF NewRoomStores
  <2>3. CASE Unlists(r)
    BY <2>3, NamesOfRooms DEF Unlists
  <2> QED BY <1>2, <2>1, <2>2, <2>3
<1>3. ASSUME NEW r \in Room, NewRoomAnswers(r) \/ Erases(r) PROVE TypeOK'
  <2>1. [room |-> r, hours |-> Expiration] \in Record /\ NoRecord \in Record
    BY DEF Record, NoRecord
  <2>2. CASE NewRoomAnswers(r)
    BY <2>1, <2>2, NamesOfRooms DEF NewRoomAnswers
  <2>3. CASE Erases(r)
    BY <2>1, <2>3, NamesOfRooms DEF Erases
  <2> QED BY <1>3, <2>2, <2>3
<1>4. ASSUME NEW r \in Room, NewRoomAnswersAnyway(r) \/ ErasesInVain(r) PROVE TypeOK'
  BY <1>4 DEF NewRoomAnswersAnyway, ErasesInVain
<1>5. CASE ShortenReads \/ ShortenWritesNothing
  <2>1. NoRecord \in Record
    BY DEF Record, NoRecord
  <2>2. CASE ShortenReads
    BY <2>2 DEF ShortenReads
  <2>3. CASE ShortenWritesNothing
    BY <2>1, <2>3 DEF ShortenWritesNothing
  <2> QED BY <1>5, <2>2, <2>3
<1>6. CASE Serves \/ Restart
  BY <1>6 DEF Serves, Restart
<1>7. CASE ShortenWrites
  <2>1. NoRecord \in Record
    BY DEF Record, NoRecord
  <2>2. db' \in [Name -> Record] /\ seen' \in [Name -> Record]
    BY <1>7, <2>1, ShortenedRecord DEF ShortenWrites
  <2>3. spent' \subseteq Room
    BY <1>7 DEF ShortenWrites, Record
  <2>4. late' \subseteq Name
    BY <1>7 DEF ShortenWrites
  <2> QED BY <1>7, <2>2, <2>3, <2>4 DEF ShortenWrites
<1>8. CASE Crash
  <2>1. NoRecord \in Record
    BY DEF Record, NoRecord
  <2>2. crashes' \in 0 .. MaxFaults /\ count' \in Int
    <3>1. Cardinality(unrecorded) \in Nat /\ Cardinality(undeleted) \in Nat
      BY FS_CardinalityType DEF RefusedAreFinite
    <3> QED BY <1>8, <3>1 DEF Crash, MayFail
  <2>3. request' \in [Room -> {"none", "checked", "made", "answered", "dropped"}]
    BY <1>8 DEF Crash
  <2>4. life' \in [Room -> {"none", "running", "closed", "erased", "gone"}]
    BY <1>8 DEF Crash
  <2>5. seen' \in [Name -> Record] /\ rooms' \in [Name -> Room \cup {None}]
    BY <1>8, <2>1 DEF Crash
  <2> QED BY <1>8, <2>2, <2>3, <2>4, <2>5 DEF Crash
<1>9. ASSUME NEW n \in Name, Recovers(n) \/ RecoverFails(n) PROVE TypeOK'
  <2>1. db[n].room \in Room
    BY <1>9 DEF Recovers, RecoverFails, TodoIsAhead, Record
  <2>2. CASE Recovers(n)
    BY <2>1, <2>2 DEF Recovers
  <2>3. CASE RecoverFails(n)
    BY <2>1, <2>3 DEF RecoverFails
  <2> QED BY <1>9, <2>2, <2>3
<1> QED BY <1>1, <1>2, <1>3, <1>4, <1>5, <1>6, <1>7, <1>8, <1>9 DEF Next

\* The database refuses finitely many writes.
LEMMA RefusedStep ==
  ASSUME RefusedAreFinite, [Next]_vars
  PROVE  RefusedAreFinite'
<1> USE DEF RefusedAreFinite, history, refused
<1>1. ASSUME NEW r \in Room, NewRoomAnswersAnyway(r) \/ ErasesInVain(r)
      PROVE RefusedAreFinite'
  BY <1>1, FS_AddElement DEF NewRoomAnswersAnyway, ErasesInVain
<1>2. CASE UNCHANGED refused
  BY <1>2
<1>3. ASSUME NEW r \in Room,
             NewRoomChecks(r) \/ NewRoomStores(r) \/ NewRoomFails(r) \/ NewRoomAnswers(r)
               \/ Closes(r) \/ Erases(r) \/ Unlists(r)
      PROVE UNCHANGED refused
  BY <1>3 DEF NewRoomChecks, NewRoomStores, NewRoomFails, NewRoomAnswers, Closes, Erases, Unlists
<1>4. ASSUME NEW n \in Name, Recovers(n) \/ RecoverFails(n) PROVE UNCHANGED refused
  BY <1>4 DEF Recovers, RecoverFails
<1>5. CASE ShortenReads \/ ShortenWrites \/ ShortenWritesNothing \/ Crash \/ Restart \/ Serves
  BY <1>5 DEF ShortenReads, ShortenWrites, ShortenWritesNothing, Crash, Restart, Serves
<1>6. CASE UNCHANGED vars
  BY <1>6 DEF vars
<1> QED BY <1>1, <1>2, <1>3, <1>4, <1>5, <1>6 DEF Next

\* A recorded room is of the name it is recorded under.
LEMMA NamesStep ==
  ASSUME RoomManagerInv, [Next]_vars
  PROVE  NamesMatch'
<1> USE DEF RoomManagerInv, TypeOK, NamesMatch, process, hourly, history, refused, raced
<1>0. NoRecord.room = None
  BY DEF NoRecord
<1>1. CASE UNCHANGED vars
  BY <1>1 DEF vars
<1>2. ASSUME NEW r \in Room,
             NewRoomChecks(r) \/ NewRoomStores(r) \/ NewRoomFails(r) \/ Closes(r) \/ Unlists(r)
      PROVE NamesMatch'
  BY <1>2 DEF NewRoomChecks, NewRoomStores, NewRoomFails, Closes, Unlists
<1>3. ASSUME NEW r \in Room, NewRoomAnswersAnyway(r) \/ ErasesInVain(r) PROVE NamesMatch'
  BY <1>3 DEF NewRoomAnswersAnyway, ErasesInVain
<1>4. ASSUME NEW r \in Room, NewRoomAnswers(r) \/ Erases(r) PROVE NamesMatch'
  <2>1. NameOf(r) \in Name
    BY NamesOfRooms
  <2>2. CASE NewRoomAnswers(r)
    BY <2>1, <2>2 DEF NewRoomAnswers
  <2>3. CASE Erases(r)
    BY <1>0, <2>1, <2>3 DEF Erases
  <2> QED BY <1>4, <2>2, <2>3
<1>5. CASE ShortenReads \/ Serves \/ Restart
  BY <1>5 DEF ShortenReads, Serves, Restart
<1>6. CASE ShortenWritesNothing
  BY <1>0, <1>6 DEF ShortenWritesNothing
<1>7. CASE ShortenWrites
  BY <1>0, <1>7, ShortenedRecord DEF ShortenWrites
<1>8. CASE Crash
  BY <1>0, <1>8 DEF Crash
<1>9. ASSUME NEW n \in Name, Recovers(n) \/ RecoverFails(n) PROVE NamesMatch'
  BY <1>9 DEF Recovers, RecoverFails
<1> QED BY <1>1, <1>2, <1>3, <1>4, <1>5, <1>6, <1>7, <1>8, <1>9 DEF Next

\* Before the server serves, nobody asks; when it is down, no room runs.
LEMMA StartStep ==
  ASSUME RoomManagerInv, [Next]_vars
  PROVE  DownIsEmpty' /\ NothingAskedUntilServing'
<1> USE DEF RoomManagerInv, TypeOK, DownIsEmpty, NothingAskedUntilServing, Up,
            process, hourly, history, refused, raced
<1>1. CASE UNCHANGED vars
  BY <1>1 DEF vars
<1>2. ASSUME NEW r \in Room,
             NewRoomChecks(r) \/ NewRoomStores(r) \/ NewRoomFails(r) \/ NewRoomAnswers(r)
               \/ NewRoomAnswersAnyway(r)
      PROVE DownIsEmpty' /\ NothingAskedUntilServing'
  BY <1>2 DEF NewRoomChecks, NewRoomStores, NewRoomFails, NewRoomAnswers, NewRoomAnswersAnyway
<1>3. ASSUME NEW r \in Room, Closes(r) \/ Erases(r) \/ ErasesInVain(r) \/ Unlists(r)
      PROVE DownIsEmpty' /\ NothingAskedUntilServing'
  BY <1>3 DEF Closes, Erases, ErasesInVain, Unlists
<1>4. CASE ShortenReads \/ ShortenWrites \/ ShortenWritesNothing \/ Serves \/ Restart
  BY <1>4 DEF ShortenReads, ShortenWrites, ShortenWritesNothing, Serves, Restart
<1>5. CASE Crash
  BY <1>5 DEF Crash
<1>6. ASSUME NEW n \in Name, Recovers(n) \/ RecoverFails(n)
      PROVE DownIsEmpty' /\ NothingAskedUntilServing'
  BY <1>6 DEF Recovers, RecoverFails
<1> QED BY <1>1, <1>2, <1>3, <1>4, <1>5, <1>6 DEF Next

\* Who is in the database was put there, and has been made before it runs.
LEMMA AnsweredStep ==
  ASSUME RoomManagerInv, [Next]_vars
  PROVE  RecordedWasAnswered' /\ MadeBeforeServing'
<1> DEFINE Goal == RecordedWasAnswered' /\ MadeBeforeServing'
<1> USE DEF RoomManagerInv, TypeOK, RecordedWasAnswered, MadeBeforeServing,
            process, hourly, history, refused, raced
<1>0. NoRecord.room = None
  BY DEF NoRecord
<1>1. CASE UNCHANGED vars
  BY <1>1 DEF vars
<1>2. ASSUME NEW r \in Room, NewRoomChecks(r) \/ NewRoomStores(r) \/ NewRoomFails(r) PROVE Goal
  BY <1>2 DEF NewRoomChecks, NewRoomStores, NewRoomFails, Record
<1>3. ASSUME NEW r \in Room, NewRoomAnswers(r) PROVE Goal
  BY <1>3 DEF NewRoomAnswers, Record
<1>4. ASSUME NEW r \in Room, NewRoomAnswersAnyway(r) \/ ErasesInVain(r) PROVE Goal
  BY <1>4 DEF NewRoomAnswersAnyway, ErasesInVain, Record
<1>5. ASSUME NEW r \in Room, Closes(r) \/ Erases(r) \/ Unlists(r) PROVE Goal
  BY <1>0, <1>5 DEF Closes, Erases, Unlists
<1>6. CASE ShortenReads \/ Serves \/ Restart
  BY <1>6 DEF ShortenReads, Serves, Restart
<1>7. CASE ShortenWritesNothing
  BY <1>0, <1>7 DEF ShortenWritesNothing
<1>8. CASE ShortenWrites
  BY <1>0, <1>8, ShortenedRecord DEF ShortenWrites
<1>9. CASE Crash
  BY <1>0, <1>9 DEF Crash, Record
<1>10. ASSUME NEW n \in Name, Recovers(n) \/ RecoverFails(n) PROVE Goal
  BY <1>10 DEF Recovers, RecoverFails, TodoIsAhead, Record
<1> QED BY <1>1, <1>2, <1>3, <1>4, <1>5, <1>6, <1>7, <1>8, <1>9, <1>10 DEF Next

\* What recovery has still to open is recorded, and not there.
LEMMA TodoStep ==
  ASSUME RoomManagerInv, [Next]_vars
  PROVE  TodoIsAhead'
<1> USE DEF RoomManagerInv, TypeOK, TodoIsAhead, process, hourly, history, refused, raced
<1>1. CASE UNCHANGED vars
  BY <1>1 DEF vars
<1>2. ASSUME NEW r \in Room,
             NewRoomChecks(r) \/ NewRoomStores(r) \/ NewRoomFails(r) \/ NewRoomAnswers(r)
               \/ NewRoomAnswersAnyway(r)
      PROVE TodoIsAhead'
  <2>1. todo = {} /\ todo' = {}
    BY <1>2 DEF NewRoomChecks, NewRoomStores, NewRoomFails, NewRoomAnswers, NewRoomAnswersAnyway,
                NothingAskedUntilServing
  <2> QED BY <2>1
<1>3. ASSUME NEW r \in Room, Closes(r) \/ Erases(r) \/ ErasesInVain(r) \/ Unlists(r) PROVE TodoIsAhead'
  BY <1>3 DEF Closes, Erases, ErasesInVain, Unlists
<1>4. CASE ShortenReads \/ ShortenWrites \/ ShortenWritesNothing
  BY <1>4 DEF ShortenReads, ShortenWrites, ShortenWritesNothing
<1>5. CASE Serves \/ Crash
  BY <1>5 DEF Serves, Crash
<1>6. CASE Restart
  BY <1>6 DEF Restart, DownIsEmpty
<1>7. ASSUME NEW n \in Name, Recovers(n) \/ RecoverFails(n) PROVE TodoIsAhead'
  BY <1>7 DEF Recovers, RecoverFails, NamesMatch
<1> QED BY <1>1, <1>2, <1>3, <1>4, <1>5, <1>6, <1>7 DEF Next

\* The list shows rooms that are there.
LEMMA ListedStep ==
  ASSUME RoomManagerInv, [Next]_vars
  PROVE  ListedIsThere'
<1> USE DEF RoomManagerInv, TypeOK, ListedIsThere, Serving, process, hourly, history, refused, raced
<1>1. CASE UNCHANGED vars
  BY <1>1 DEF vars
<1>2. ASSUME NEW r \in Room,
             NewRoomChecks(r) \/ NewRoomFails(r) \/ NewRoomAnswers(r) \/ NewRoomAnswersAnyway(r)
      PROVE ListedIsThere'
  BY <1>2 DEF NewRoomChecks, NewRoomFails, NewRoomAnswers, NewRoomAnswersAnyway
<1>3. ASSUME NEW r \in Room, NewRoomStores(r) PROVE ListedIsThere'
  BY <1>3, NamesOfRooms DEF NewRoomStores
<1>4. ASSUME NEW r \in Room, Closes(r) \/ Erases(r) \/ ErasesInVain(r) PROVE ListedIsThere'
  BY <1>4 DEF Closes, Erases, ErasesInVain
<1>5. ASSUME NEW r \in Room, Unlists(r) PROVE ListedIsThere'
  BY <1>5, NamesOfRooms DEF Unlists
<1>6. CASE ShortenReads \/ ShortenWrites \/ ShortenWritesNothing \/ Serves \/ Restart
  BY <1>6 DEF ShortenReads, ShortenWrites, ShortenWritesNothing, Serves, Restart
<1>7. CASE Crash
  BY <1>7 DEF Crash
<1>8. ASSUME NEW n \in Name, Recovers(n) PROVE ListedIsThere'
  BY <1>8 DEF Recovers, TodoIsAhead, NamesMatch, Record
<1>9. ASSUME NEW n \in Name, RecoverFails(n) PROVE ListedIsThere'
  BY <1>9 DEF RecoverFails
<1> QED BY <1>1, <1>2, <1>3, <1>4, <1>5, <1>6, <1>7, <1>8, <1>9 DEF Next

\* A name without crossed requests is held by the room that runs under it.
LEMMA HeldStep ==
  ASSUME RoomManagerInv, [Next]_vars
  PROVE  NameIsHeld'
<1> USE DEF RoomManagerInv, TypeOK, NameIsHeld, Serving, process, hourly, history, refused, raced
<1>1. CASE UNCHANGED vars
  BY <1>1 DEF vars
<1>2. ASSUME NEW r \in Room,
             NewRoomChecks(r) \/ NewRoomFails(r) \/ NewRoomAnswers(r) \/ NewRoomAnswersAnyway(r)
      PROVE NameIsHeld'
  BY <1>2 DEF NewRoomChecks, NewRoomFails, NewRoomAnswers, NewRoomAnswersAnyway
<1>3. ASSUME NEW r \in Room, NewRoomStores(r) PROVE NameIsHeld'
  BY <1>3, NamesOfRooms DEF NewRoomStores
<1>4. ASSUME NEW r \in Room, Closes(r) \/ Erases(r) \/ ErasesInVain(r) PROVE NameIsHeld'
  BY <1>4 DEF Closes, Erases, ErasesInVain
<1>5. ASSUME NEW r \in Room, Unlists(r) PROVE NameIsHeld'
  BY <1>5, NamesOfRooms DEF Unlists
<1>6. CASE ShortenReads \/ ShortenWrites \/ ShortenWritesNothing \/ Serves \/ Restart
  BY <1>6 DEF ShortenReads, ShortenWrites, ShortenWritesNothing, Serves, Restart
<1>7. CASE Crash
  BY <1>7 DEF Crash
<1>8. ASSUME NEW n \in Name, Recovers(n) PROVE NameIsHeld'
  BY <1>8 DEF Recovers, TodoIsAhead, NamesMatch, Record
<1>9. ASSUME NEW n \in Name, RecoverFails(n) PROVE NameIsHeld'
  BY <1>9 DEF RecoverFails
<1> QED BY <1>1, <1>2, <1>3, <1>4, <1>5, <1>6, <1>7, <1>8, <1>9 DEF Next

\* A Put that does not come late is that of a room that has not been deleted;
\* and of the listed one, unless requests for the name crossed.
LEMMA PutIsOfListed ==
  ASSUME RoomManagerInv, NEW r \in Room, NewRoomAnswers(r), NameOf(r) \notin late'
  PROVE  /\ NameOf(r) \notin late
         /\ life[r] \in {"running", "closed"} /\ r \notin erased
         /\ NameOf(r) \notin crossed => rooms[NameOf(r)] = r
<1>1. life[r] # "none" /\ request[r] = "made"
  BY DEF RoomManagerInv, MadeBeforeServing, NewRoomAnswers
<1>2. life[r] \notin {"erased", "gone"} /\ NameOf(r) \notin late
  BY NamesOfRooms DEF NewRoomAnswers
<1>3. life[r] \in {"running", "closed"}
  BY <1>1, <1>2 DEF RoomManagerInv, TypeOK
<1> QED BY <1>2, <1>3 DEF RoomManagerInv, NameIsHeld, Serving, ErasedIsOver

\* A batch that does not come late either does not touch the record, or shortens or
\* deletes the one that is there.
LEMMA BatchInTime ==
  ASSUME RoomManagerInv, ShortenWrites, NEW n \in Name, n \notin late'
  PROVE  /\ n \notin late
         /\ db'[n].room = db[n].room \/ (db'[n].room = None /\ db[n].room \in spent')
<1>1. n \notin late /\ (seen[n].room = None \/ seen[n] = db[n])
  BY DEF ShortenWrites
<1>2. db'[n] = Shortened(n) /\ NoRecord.room = None
  BY DEF ShortenWrites, NoRecord
<1>3. CASE seen[n].room = None
  BY <1>1, <1>2, <1>3 DEF Shortened
<1>4. CASE seen[n].room # None
  <2>1. seen[n] = db[n]
    BY <1>1, <1>4
  <2>2. CASE Shortened(n).room = seen[n].room
    BY <1>1, <1>2, <2>1, <2>2
  <2>3. CASE Shortened(n).room # seen[n].room
    <3>1. seen[n].hours <= 1 /\ Shortened(n) = NoRecord
      BY <1>4, <2>1, <2>3, ShortenedRecord DEF RoomManagerInv
    <3>2. seen[n].room \in spent'
      BY <1>4, <3>1 DEF ShortenWrites
    <3> QED BY <1>1, <1>2, <2>1, <3>1, <3>2
  <2> QED BY <2>2, <2>3
<1> QED BY <1>3, <1>4

\* A room that has been announced stays recorded until its end is.
LEMMA RecordedStep ==
  ASSUME RoomManagerInv, [Next]_vars
  PROVE  RecordedUntilErased'
<1> USE DEF RoomManagerInv, TypeOK, RecordedUntilErased, Quiet, process, hourly, history, refused, raced
<1>1. CASE UNCHANGED vars
  BY <1>1 DEF vars
<1>2. ASSUME NEW r \in Room, NewRoomChecks(r) \/ NewRoomFails(r) PROVE RecordedUntilErased'
  BY <1>2 DEF NewRoomChecks, NewRoomFails
<1>3. ASSUME NEW r \in Room, NewRoomAnswersAnyway(r) \/ ErasesInVain(r)
       PROVE RecordedUntilErased'
  BY <1>3 DEF NewRoomAnswersAnyway, ErasesInVain
<1>4. ASSUME NEW r \in Room, NewRoomStores(r) \/ Closes(r) \/ Unlists(r)
      PROVE RecordedUntilErased'
  BY <1>4 DEF NewRoomStores, Closes, Unlists
<1>5. ASSUME NEW r \in Room, NewRoomAnswers(r) PROVE RecordedUntilErased'
  <2> SUFFICES ASSUME NEW s \in Room, request'[s] = "answered", life'[s] \in {"running", "closed"},
                      s \notin unrecorded', s \notin spent', Quiet(NameOf(s))'
               PROVE  db'[NameOf(s)].room = s
    OBVIOUS
  <2>1. CASE NameOf(s) = NameOf(r)
    <3>1. NameOf(r) \notin late' /\ NameOf(r) \notin crossed
      BY <1>5, <2>1 DEF NewRoomAnswers
    <3>2. rooms[NameOf(r)] = r
      BY <1>5, <3>1, PutIsOfListed
    <3>3. rooms[NameOf(s)] = s
      BY <1>5 DEF NewRoomAnswers, NameIsHeld, Serving
    <3> QED BY <1>5, <2>1, <3>2, <3>3, NamesOfRooms DEF NewRoomAnswers
  <2>2. CASE NameOf(s) # NameOf(r)
    BY <1>5, <2>2, NamesOfRooms DEF NewRoomAnswers
  <2> QED BY <2>1, <2>2
<1>6. ASSUME NEW r \in Room, Erases(r) PROVE RecordedUntilErased'
  <2> SUFFICES ASSUME NEW s \in Room, request'[s] = "answered", life'[s] \in {"running", "closed"},
                      s \notin unrecorded', s \notin spent', Quiet(NameOf(s))'
               PROVE  db'[NameOf(s)].room = s
    OBVIOUS
  <2>1. NameOf(s) # NameOf(r)
    BY <1>6 DEF Erases, NameIsHeld, Serving
  <2> QED BY <1>6, <2>1, NamesOfRooms DEF Erases
<1>7. CASE ShortenReads \/ ShortenWritesNothing \/ Serves \/ Restart
  BY <1>7 DEF ShortenReads, ShortenWritesNothing, Serves, Restart
<1>8. CASE ShortenWrites
  <2> SUFFICES ASSUME NEW s \in Room, request'[s] = "answered", life'[s] \in {"running", "closed"},
                      s \notin unrecorded', s \notin spent', Quiet(NameOf(s))'
               PROVE  db'[NameOf(s)].room = s
    OBVIOUS
  <2>1. /\ NameOf(s) \notin late
        /\ db'[NameOf(s)].room = db[NameOf(s)].room \/ db[NameOf(s)].room \in spent'
    BY <1>8, BatchInTime, NamesOfRooms
  <2>2. db[NameOf(s)].room = s /\ s \notin spent'
    BY <1>8, <2>1 DEF ShortenWrites
  <2> QED BY <2>1, <2>2
<1>9. CASE Crash
  BY <1>9 DEF Crash
<1>10. ASSUME NEW n \in Name, Recovers(n) PROVE RecordedUntilErased'
  BY <1>10 DEF Recovers, TodoIsAhead, NamesMatch, Record
<1>11. ASSUME NEW n \in Name, RecoverFails(n) PROVE RecordedUntilErased'
  BY <1>11 DEF RecoverFails
<1> QED BY <1>1, <1>2, <1>3, <1>4, <1>5, <1>6, <1>7, <1>8, <1>9, <1>10, <1>11 DEF Next

\* A room that has been deleted is neither put back nor started again.
LEMMA ErasedStep ==
  ASSUME RoomManagerInv, [Next]_vars
  PROVE  ErasedIsOver' /\ MarkedErased'
<1> DEFINE Goal == ErasedIsOver' /\ MarkedErased'
<1> USE DEF RoomManagerInv, TypeOK, ErasedIsOver, MarkedErased, process, hourly, history, refused, raced
<1>0. NoRecord.room = None
  BY DEF NoRecord
<1>1. CASE UNCHANGED vars
  BY <1>1 DEF vars
<1>2. ASSUME NEW r \in Room, NewRoomChecks(r) \/ NewRoomFails(r) PROVE Goal
  BY <1>2 DEF NewRoomChecks, NewRoomFails
<1>3. ASSUME NEW r \in Room, NewRoomStores(r) PROVE Goal
  BY <1>3, NamesOfRooms DEF NewRoomStores
<1>4. ASSUME NEW r \in Room, NewRoomAnswers(r) PROVE Goal
  BY <1>4, PutIsOfListed, NamesOfRooms DEF NewRoomAnswers
<1>5. ASSUME NEW r \in Room, Closes(r) \/ Unlists(r) PROVE Goal
  BY <1>5 DEF Closes, Unlists
<1>6. ASSUME NEW r \in Room, Erases(r) PROVE Goal
  BY <1>0, <1>6, NamesOfRooms DEF Erases, MadeBeforeServing
<1>7. ASSUME NEW r \in Room, NewRoomAnswersAnyway(r) \/ ErasesInVain(r) PROVE Goal
  BY <1>7 DEF NewRoomAnswersAnyway, ErasesInVain
<1>8. CASE ShortenReads \/ ShortenWritesNothing \/ Serves \/ Restart
  BY <1>8 DEF ShortenReads, ShortenWritesNothing, Serves, Restart
<1>9. CASE ShortenWrites
  <2>1. ASSUME NEW s \in erased, NameOf(s) \notin late'
        PROVE  db'[NameOf(s)].room # s /\ life'[s] \in {"erased", "gone", "none"}
    <3>1. s \in Room /\ s # None /\ NameOf(s) \in Name
      BY NamesOfRooms
    <3>2. NameOf(s) \notin late /\ db'[NameOf(s)].room \in {db[NameOf(s)].room, None}
      BY <1>9, <2>1, <3>1, BatchInTime
    <3> QED BY <1>9, <3>1, <3>2 DEF ShortenWrites
  <2> QED BY <1>9, <2>1 DEF ShortenWrites
<1>10. CASE Crash
  BY <1>10 DEF Crash
<1>11. ASSUME NEW n \in Name, Recovers(n) PROVE Goal
  BY <1>11 DEF Recovers, NamesMatch, TodoIsAhead, Record
<1>12. ASSUME NEW n \in Name, RecoverFails(n) PROVE Goal
  BY <1>12 DEF RecoverFails
<1> QED BY <1>1, <1>2, <1>3, <1>4, <1>5, <1>6, <1>7, <1>8, <1>9, <1>10, <1>11, <1>12 DEF Next

\* Records belong to listed rooms, or to rooms that could not be opened.
LEMMA ServedStep ==
  ASSUME RoomManagerInv, [Next]_vars
  PROVE  RecordsAreServedOrAhead'
<1> USE DEF RoomManagerInv, TypeOK, RecordsAreServedOrAhead, Quiet, Up, process, hourly, history, refused, raced
<1>0. NoRecord.room = None
  BY DEF NoRecord
<1>1. CASE UNCHANGED vars
  BY <1>1 DEF vars
<1>2. ASSUME NEW r \in Room, NewRoomChecks(r) \/ NewRoomFails(r) \/ Closes(r)
      PROVE RecordsAreServedOrAhead'
  BY <1>2 DEF NewRoomChecks, NewRoomFails, Closes
<1>3. ASSUME NEW r \in Room, NewRoomStores(r) PROVE RecordsAreServedOrAhead'
  BY <1>3, NamesOfRooms DEF NewRoomStores
<1>4. ASSUME NEW r \in Room, NewRoomAnswers(r) PROVE RecordsAreServedOrAhead'
  BY <1>4, PutIsOfListed, NamesOfRooms DEF NewRoomAnswers
<1>5. ASSUME NEW r \in Room, Erases(r) PROVE RecordsAreServedOrAhead'
  BY <1>0, <1>5, NamesOfRooms DEF Erases
<1>6. ASSUME NEW r \in Room, Unlists(r) PROVE RecordsAreServedOrAhead'
  BY <1>6, NamesOfRooms DEF Unlists, ErasedIsOver, MarkedErased, NameIsHeld, Serving
<1>7. ASSUME NEW r \in Room, NewRoomAnswersAnyway(r) \/ ErasesInVain(r)
       PROVE RecordsAreServedOrAhead'
  BY <1>7 DEF NewRoomAnswersAnyway, ErasesInVain
<1>8. CASE ShortenReads \/ ShortenWritesNothing \/ Serves \/ Restart
  BY <1>8 DEF ShortenReads, ShortenWritesNothing, Serves, Restart
<1>9. CASE ShortenWrites
  <2>1. ASSUME NEW n \in Name, db'[n].room # None, Quiet(n)'
        PROVE  Quiet(n) /\ db'[n].room = db[n].room
    BY <1>9, <2>1, BatchInTime DEF ShortenWrites
  <2> QED BY <1>9, <2>1 DEF ShortenWrites
<1>10. CASE Crash
  BY <1>10 DEF Crash
<1>11. ASSUME NEW n \in Name, Recovers(n) \/ RecoverFails(n) PROVE RecordsAreServedOrAhead'
  BY <1>11 DEF Recovers, RecoverFails
<1> QED BY <1>1, <1>2, <1>3, <1>4, <1>5, <1>6, <1>7, <1>8, <1>9, <1>10, <1>11 DEF Next

-----------------------------------------------------------------------------

LEMMA InvInit == Init => RoomManagerInv
<1> SUFFICES ASSUME Init PROVE RoomManagerInv
  OBVIOUS
<1>1. NoRecord \in Record /\ NoRecord.room = None
  BY DEF NoRecord, Record
<1>2. 0 \in Int /\ 0 \in 0 .. MaxFaults /\ 0 \in 0 .. MaxShortenings
  OBVIOUS
<1>3. TypeOK
  BY <1>1, <1>2, Zenon DEF Init, TypeOK
<1> QED
  BY <1>1, <1>3, FS_EmptySet DEF Init, RoomManagerInv, NamesMatch, DownIsEmpty, NothingAskedUntilServing, Up,
     TodoIsAhead, RecordedWasAnswered, MadeBeforeServing, ListedIsThere, NameIsHeld, Serving,
     RecordedUntilErased, ErasedIsOver, MarkedErased, RecordsAreServedOrAhead, RefusedAreFinite

\* Every step keeps the invariant.
LEMMA InvStep == RoomManagerInv /\ [Next]_vars => RoomManagerInv'
<1> SUFFICES ASSUME RoomManagerInv, [Next]_vars PROVE RoomManagerInv'
  OBVIOUS
<1>1. TypeOK' /\ RefusedAreFinite'
  BY TypeStep, RefusedStep DEF RoomManagerInv
<1> QED
  BY <1>1, NamesStep, StartStep, TodoStep, AnsweredStep, ListedStep, HeldStep, RecordedStep,
     ErasedStep, ServedStep DEF RoomManagerInv

\* The invariant of the room manager, whose conjuncts the theorems below name.
THEOREM RoomManagerInvariant == Spec => []RoomManagerInv
BY InvInit, InvStep, PTL DEF Spec

\* Every variable of the room manager has its type.
THEOREM TypeCorrect == Spec => []TypeOK
BY RoomManagerInvariant, PTL DEF RoomManagerInv

\* The room list shows only rooms whose goroutine has not ended.
THEOREM ListShowsWhatIsThere == Spec => []ListedIsThere
BY RoomManagerInvariant, PTL DEF RoomManagerInv

\* Unless requests for it crossed, a name stays with its room until the
\* room's record is deleted: waitRoomClosed deletes by name, and in this order.
THEOREM NamesAreHeld == Spec => []NameIsHeld
BY RoomManagerInvariant, PTL DEF RoomManagerInv

\* A running room that was announced is in the database, through any number of
\* crashes, until its hours are used up: unless its Put failed, and it was
\* announced all the same (Handlers.go:96), or the writes to its name raced.
THEOREM AnnouncedRoomsAreRecorded == Spec => []AnnouncedIsRecorded
<1>1. RoomManagerInv => AnnouncedIsRecorded
  BY DEF RoomManagerInv, RecordedUntilErased, AnnouncedIsRecorded
<1> QED BY <1>1, RoomManagerInvariant, PTL

\* A room whose record has been deleted is never recovered, unless a Put or a
\* batch that came late wrote the record anew.
THEOREM ErasedRoomsStayGone == Spec => []ErasedStaysGone
<1>1. RoomManagerInv => ErasedStaysGone
  BY DEF RoomManagerInv, ErasedIsOver, ErasedStaysGone
<1> QED BY <1>1, RoomManagerInvariant, PTL

\* The database holds the rooms that are served, those that some start of the
\* server could not open and those whose Delete failed unnoticed
\* (RoomManager.go:141), and nothing else, where the writes did not race.
THEOREM RecordsBelongToServed == Spec => []RecordsAreServed
<1>1. RoomManagerInv => RecordsAreServed
  BY DEF RoomManagerInv, RecordsAreServedOrAhead, RecordsAreServed, Up, TodoIsAhead
<1> QED BY <1>1, RoomManagerInvariant, PTL
=============================================================================

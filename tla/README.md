# A verification of painttyServer

painttyServer is the server of a shared painting program. A manager keeps a
list of rooms; each room listens on a port of its own, records everything that
is painted in it in an archive, and relays it to the clients in the room. This
directory holds TLA+ modules that model the server's own code
(`src/server/pkg`), the TLC configurations that check them on small instances,
and proofs, checked by TLAPS, of what holds for every instance.

Paths below are relative to `src/server/pkg/` unless they start with `docs/`.
`PROJECT.json` maps every definition to the lines it models, and lists the
runs, the mutants that show that each property can fail, the findings, the
hazards and the theorems.

## Inventory

| component | state | operations | model |
|---|---|---|---|
| `BufferedFile` | buffer, water mark, file and whole size, descriptor, timer goroutine | Write, ReadAt, Sync, Clear, Close, Remove, MakeBufferedFile | `BufferedFile`, `ArchiveLog` |
| `Radio/Utils.go` | a client's list of pending chunks | splitChunk, appendToPendings, fetchAndSend | `RadioChunks`, `RadioTaskList` |
| `Radio/Radio.go` | the clients' sessions, the lock, four channels | write, send, singleSend, AddClient, RemoveClient, Prune, Close, Remove | `Radio` |
| `Room` | map of users, load counter, EmptyClose, lastCheck, GoingClose | Accept, login, kick, close, checkout, clearall, archive, expiry, leaving | `Room` (and the Radio's callers in `Radio`) |
| `RoomManager` | map of rooms, room counter, LevelDB | recovery, newroom, roomlist, shortenRooms, waitRoomClosed | `RoomManager` |
| `Socket` client | closeFlag, package channel, callbacks, write lock | RunReadLoop, WriteRaw, Close, RegisterCloseCallback | `SocketClient` |
| `Socket` framing | read buffer, size of the package awaited | OnData, protocolPack, bufferToPack | `SocketReader`, `PackageStream` |
| `watchDog` | the server process, a connection to it, three goroutines per server | start, dial, ask, kill | `WatchDog` |
| `Router`, `Common`, `Config`, `Logger`, `ErrorCode`, `painttyServer.go` | tables, values of a file | – | not modelled |
| `server/vendor` | – | third-party libraries | not modelled |

How they interact. Every connection has a reading goroutine (`Socket`) that
hands packages to the room's goroutine for that connection (`Room`). Commands
go through the `Router` to a handler; DATA packages go to the Radio's
`WriteChan`, MESSAGE packages to its `SendChan`, most replies to its
`SingleSendChan`. One goroutine per room (`Radio.run`) serves these channels.
For each package and client it starts a helper goroutine, which passes a chunk
to the client's session (`processClient`); a session keeps a list of chunks and
writes one of them at a time to the socket, reading the archive's bytes back
from the `BufferedFile`. Some replies bypass all this and are written to the
socket directly. The room's handlers start sessions (`archive`), empty the
archive (`clearall`) and remove clients; kick timers, the hourly expiry check
and the last leaver race to close sockets and the room. The room manager starts
a goroutine per room, and records each room in a database from which a
restarted server recovers it. The watch dog is a process of its own, a client
of the manager's port, and starts the server again when it ends or stops
answering.

What is hard, and what must hold:

- **BufferedFile**: file and buffer are one archive, whichever of the paths of
  a write or a read is taken; the timer's sync runs between any two calls; a
  crash loses only an end of the archive; a failing reopen is ignored by the
  code.
- **Pending queue**: chunks are split, merged with the last one, re-split, put
  back; none of this may lose, repeat or reorder bytes.
- **Radio**: a position is read, the package is recorded, the clients are
  listed, and chunks are delivered, in four steps with other goroutines in
  between; no byte may be forgotten on its way to a subscriber, and no bytes of
  another origin may come between two bytes of a package.
- **Room**: the load is a counter beside the map it counts, adjusted on every
  way in and out, one step after the map; joining and closing are decided on
  it. It must follow the number of clients in the room; the room must not be
  overfull, must not be closed over somebody and must be closed when deserted.
- **RoomManager**: entries of the map and of the database are written and
  deleted, by name, by requests, by ending rooms and by the hourly shortening,
  in several steps each, and survive crashes differently; a write to the
  database may fail, and nobody looks. What is announced must be recoverable,
  what has been deleted must not come back, what is listed must be there.
- **Socket**: a close calls callbacks that wait, with a lock held, while
  sessions register and end; packages are handed over by a goroutine each. None
  may be left behind, and every Close must return.
- **Framing**: bytes arrive in pieces that end anywhere.
- **Watch dog**: three clocks, and goroutines of earlier servers that are still
  there; a well server must not be killed, an unwell one must be replaced, and
  none may be started beside one that nobody has tried to end.

`PROJECT.json` has the full list of hazards with their lines.

## Plan

The order was that of importance: the archive and what reaches the clients
first, then the room, then what surrounds them.

1. (done) `ArchiveLog`, `BufferedFile`, `BufferedFileProofs`.
2. (done) `RadioChunks`, `RadioTaskList`, `Radio`, with the end of the room,
   and `RadioChunksProofs`, `RadioTaskListProofs`, `RadioProofs`.
3. (done) `Room`, `RoomProofs`.
4. (done) `RoomManager`, `RoomManagerProofs`. It uses `Room` only as "runs,
   then its Run returns".
5. (done) `PackageStream`, `SocketReader`, `SocketClient`, `SocketProofs`.
6. (done) `WatchDog`, `WatchDogProofs`.
7. Every safety property of the passing runs is now a theorem. Left to prove
   are a theorem about replies and retries of several sessions of one client
   (which bytes `FramesIntact` still allows then), and safety halves of the
   liveness properties, such as: who waits in `SocketClient`'s Close waits for
   somebody.

## The modules

**ArchiveLog** is what the rest of the server may assume of an archive: a
sequence that grows at its end or is dropped as a whole, and of which a prefix
is durable; recovery finds that prefix.

**BufferedFile** models `BufferedFile.go`. Each method holds `f.locker`
throughout, so each is one action (only Close does not: it holds the lock for
its sync, and closes goingClose before and the descriptor after it; it is one
action too, since no Write comes after Close here); `Write` is four actions, one per path
(`WriteToBuffer`, `WriteAfterSync`, `WriteThrough`, and `WriteFails`, where the
operating system takes part of the data and the caller panics). The timer's
goroutine is `TimerFires` and then `TimerSync`, with Close possible in between.
`Clear`'s Truncate fails on a closed descriptor, and for no other reason.
The descriptor has a position and may be closed (`handle`, `offset`), because
`Sync` closes and reopens it; `ReopenMayFail` says whether that can go wrong.
`archive` is a history variable: all bytes accepted since the last clear.
`ReadAt` changes nothing and is a function of the state.

**RadioChunks** translates splitting, merging and queueing in `Radio/Utils.go`
into operators. **RadioTaskList** drives one list with every short sequence of
chunks; the list's lock makes each operation one step.

**Radio** models `Radio.go`. `run` is the place of the run goroutine and what
it carries: between `record` and `spread` of a write other goroutines move, as
they do in the code between WholeSize, Write and Lock. `helpers` is the set of
helper goroutines, in no order. `sessions` is every session ever started;
`clients` says which of them is the current one of a client. A session is
`writing` between reading a chunk and having it written, which holds the
socket's write lock. `r.locker` is not a variable: it is held across a wait
only in `singleSend` (`LockFree`). A byte is the triple of its package, its
index and the package's length, so that the client's view, `out`, shows where
packages begin and end. The room is present as its handlers: `ArchiveRequest`
is the part of `handleArchive` that reads FileSize, `AddClient` its later call,
and `RemoveClient`, `Prune` and `DirectSend` stand for their callers. The
room's end is `Close` (the channels), `RemoveFile`, which takes the lock and
may come in the middle of a write, `LateSync` (a timer that had fired before)
and `RemoveAllClients`; `unreadable` is how much of the archive went with the
file. Sessions are not told of it and go on until their connection ends. The
history variable `crossed` names the packages that were being written during a
clearall.

**Room** models `Room.go` and `Handlers.go` as far as they touch who is in the
room and whether it is open. `goroutine` is the place of each connection's
goroutine. Map and count are written in two steps, which no lock joins: Run
stores a client (`Accept`) and counts it (`CountsIn`), and `arriving` is the
place in between; removeClient deletes (`Deletes`) and counts down
(`CountsDown`), and `leaving`, `dropping`, `silent` and `kicking` are the places
in between, named for the way out, with `target` for whom it is about.
`handleJoin` is two steps (the load is read, then the clientId is stored),
`handleKick` two before the removal (the target is found and told, then
kicked), and so is each of the two ways of closing (the count is read, then
Close is called). `Unwelcome`, `Silent`, `Leave`, `BadCommand` and `KickRemoves`
are the five ways of being removed, with what each of them forgets: which do
not call processEmptyClose, which do not end the goroutine.

The history variable `kicked` says that the load may have drifted: somebody was
kicked whose goroutine went on and will count him down again.

**RoomManager** models `pkg/RoomManager`. A room is a pair of a name and a
number, because map and database know it by its name only. `request` is how far
the handler of newroom is with it, `life` how far its goroutine, and each write
to the map and to the database is an action of its own; the shortening reads a
snapshot and writes a batch. `Crash` loses what is in memory. `Recovers` and
`RecoverFails` are recovery's loop, one record at a time.

No error of a write to the database is looked at, so each write has an action
in which it fails: `NewRoomAnswersAnyway` announces a room whose Put failed,
`ErasesInVain` unlists one whose Delete failed, `ShortenWritesNothing` drops the
batch. A write that fails leaves the database as it was, and one that succeeds
survives the process. Reads do not fail, nor does opening the database, whose
error is dropped as well (`RoomManager.go:77`).

Two history variables hold the names for which the code's writes get in each
other's way: `crossed`, when two requests were both checked before either was
stored, and `late`, when a write undoes what is newer: a handler's Put after the
room's own end, or a batch over records that were written meanwhile. Two more
hold rooms: `unrecorded`, whose Put has failed, and `undeleted`, whose Delete
has. What the code then does is in the model. Each property excepts only those
of them that make it fail: `ListedIsThere` none, `NameIsHeld` crossed names,
`ErasedStaysGone` late ones, `AnnouncedIsRecorded` and `RecordsAreServed` both,
the one with unrecorded rooms, the other with undeleted ones.

**PackageStream** says what the two ends of a connection are to each other.
**SocketReader** models how packages become bytes and are found again by
OnData, whose loop is one action per size and per package. **SocketClient**
extends it with everything else that lives as long as a connection: handler
goroutines (`handlers`), the receiver of packageChan, sessions with their
callbacks, and the callers of Close, of which the first does the work, step by
step (`closing`: the connection, the channel, the lock, the callbacks), while
the others wait.

**WatchDog** models `watchDog.go`, which runs `startProc`, `dial`, `loop` and
`watch` for one server after the other. Each server has its own connection,
pinger, reader and waiter, which are functions of the server's number, because
those of an earlier server may still be there. Time is a `Tick` of ten seconds,
which passes only when nothing prompt is left to do: `Quiet`, the conjunction
of the negated guards of the prompt actions. That no guard was miscopied is the
lemma `QuietIsIdle`; that, the other way round, each `Busy` state has a step was
compared with ENABLED in every state of the run.

**MCRadio** adds the symmetry of the clients for the run that checks safety
only; **MCRoomManager** and **MCSocketClient** give names, rooms and packages
their values. The other runs use the modules themselves.

## The runs

Runs that pass:

| run | shows |
|---|---|
| `buffered_file` | with a buffer of 2, writes of 1 to 3 and an archive of up to 6 bytes, every path of Write and ReadAt is taken at every alignment. `ReadReturnsArchive`: reads are the archive. `FileThenBuffer`: the file is a prefix of the archive and the buffer the rest, through crashes and short writes. `ImplementsArchiveLog`: the refinement. `SyncsByItself`: everything accepted reaches the file. |
| `pending_queue` | pieces of 1, 2 and 4 bytes and at most 2 pieces per split, so that chunks of up to 6 bytes are doubled, merged and re-split. `NothingLostOrReordered`, `OneAppendIsBounded`, `HeadIsServed`. |
| `radio` | one client and session, three packages, recorded or not, cut into pieces of one byte; requests, removal, disconnection and the end of the room at any moment: `NothingForgotten`, `FramesIntact`, `RecordedIsSent`, `RadioKeepsServing`, `SessionsEnd`. |
| `radio_sessions` | two clients and two sessions, of one client or of both; stalling peers, a clearall, replies of both kinds, requests for more than there is: `NothingForgotten`. |
| `room` | two connections and a room for one, with every way in and out: `LoadIsKept` (until a kick the load differs from the map by who is between the two steps of an accept or a removal, and after one it is not above that); `MembersWithinMaxLoad`, `ClosingDecidedWhenEmpty` until a kick; `DesertedRoomCloses` without one. |
| `room_manager` | two rooms of one name and one of another, a limit of one, two faults (crashes, or rooms of which the database refuses a write) and two shortenings of a room's two hours: `ListedIsThere`, `NameIsHeld`, `AnnouncedIsRecorded`, `ErasedStaysGone`, `RecordsAreServed`, `EachIsTried`. |
| `socket` | two packages of five and six bytes, one of which does not uncompress, in reads of one to six bytes; two sessions; Close by the read loop and by a handler: `ImplementsPackageStream`, `SentIsHandled`, `CloseReturns`, `SessionsAreTold`. |
| `watch_dog` | two servers after one another: `WellIsNotKilled`, `OneServer`, `DialFindsServer`, `UnwellIsReplaced`, `ConnectionEnds`. Deadlock is checked. |

Runs that find a violation, each of something a document or comment of the
repository says:

| run | what happens |
|---|---|
| `buffered_file_reopen` | Sync drops the error of reopening; after a Clear that fails, WholeSize is 0 and the file is not. |
| `radio_prune` | a clearall between WholeSize and Write: the package recorded after the clearall never reaches subscribed clients. |
| `radio_stuck` | singleSend waits for the lock it holds; the room's Radio never serves again. |
| `room_closed` | a kicked client is counted down twice, and the room closes over a member (`StaysOpenWhileUsed`). |

### What the models also show

The passing runs are limited on purpose where the code does not keep a promise;
these limits are the constants and the premises named here.

- `FramesIntact` needs that nothing bypasses the Radio (no `"direct"` in
  `Traffic`), that no client asks for the archive twice (`AsksAgain`), that
  none asks for a part of a package (`Asked`), and that there is no clearall
  (`MaxPrunes`): a reply of `directSendCommand` (`Room/Handlers.go:38`) is
  written between two pieces of a package, two sessions of one client
  (`Radio/Radio.go:132`) write their pieces in any order, a request that ends
  beyond the archive (`Room/Handlers.go:169`) and inside a package later gets
  its bytes in pieces, and a clearall empties the list of a client
  (`Radio/Radio.go:85`) to whom the first piece of a package was written
  already, but not the others.
- `RadioKeepsServing` needs that nobody is answered through `singleSend` (no
  `"single"` in `Traffic`): that is `radio_stuck`.
- The comment on MAX_CHUNKS_IN_QUEUE (`Radio/Utils.go:15`) speaks of the queue;
  the code bounds one split. What holds is `OneAppendIsBounded`.
- After a kick (`kicked`) the load is too low. Besides `room_closed`, more than
  MaxLoad members may then join, and a deserted room whose load is negative is
  closed by neither of the two ways.
- A closing may be decided over a client that Run has stored in the map and not
  counted yet (between `Room/Room.go:221` and 222), which
  `ClosingDecidedWhenEmpty` allows; and while a client that is gone from the map
  is not counted down yet (283, 284) a join may be refused for its sake.
- A room may be closed under a client that has just come in, which then sends
  to the closed Radio, and by two goroutines at once. Either ends the process
  with a panic: the model's `crashed`, which `DesertedRoomCloses` allows.
- A session's callback stays registered when the session ends by itself, as it
  does when it was writing while the connection broke. Close then waits for it
  for ever, with the list locked; so does every later caller of Close, and
  every session that registers. `CloseReturns` and `SessionsAreTold` name this
  (`SomeQuit`). A session that registers after Close is never told.
- Packages of one client are handled in any order (`SentIsHandled` says each
  is).
- A package may reach a client twice, with the initial chunk and through a
  helper, when the client's session starts between the record and the look at
  the list (`Radio/Radio.go:248`, 253); and two packages may reach it in the
  other order, for nothing orders their helpers (256). `NothingForgotten` is
  about what is missed, and no property forbids these two.
- A session that is removed by the end of an older one of the same client
  (`Radio/Radio.go:132`) is owed nothing more, as far as `NothingForgotten` goes.
- When the room closes, its sessions go on, with chunks for which nothing can
  be read any more, until their connections end (`SessionsEnd`).
- `crossed`: two requests for one name are both answered with success
  (`RoomManager/Utils.go:34`, `Handlers.go:85`), and the end of either takes
  the record and the list entry of the other.
- `late`: a room that ends before its handler's Put (`Handlers.go:96`) is in the
  database for good, and recovered, with an empty archive, at each start until
  its hours are used up. A room that ends, or is made, while shortenRooms
  computes its batch comes back, or is forgotten.
- `unrecorded`, `undeleted`: a room whose Put failed is announced all the same
  (`Handlers.go:96`), and a restart does not know it. A room whose Delete failed
  (`RoomManager.go:141`) leaves the list, while its record stays: nobody serves
  it, and the next start recovers it.
- A crash between the return of a room's Run and its deletion lets a closed
  room be recovered. `ErasedStaysGone` is about rooms whose deletion was made.
- A record goes with its last hour, while the room lives on until its own
  schedule closes it; `spent` marks such rooms.
- A room that cannot be opened again keeps its record and frees its name; its
  archive is then there for the next start, unless somebody takes the name.
- `count` only goes down; so the limit never refuses a room
  (`docs/formats.md:158` has an error code for it).
- A watch dog whose connection breaks no longer sees a server that hangs
  (`UnwellIsReplaced` needs the connection). A server that dies in the first
  ten seconds, or cannot be started, ends the watch dog (`noPort`, `noProc`).
  One that takes more than thirty seconds to recover is killed, each time: it
  listens before it accepts, so dial succeeds.
- After a kill, the reader that said dead goes back to its select and may say
  so again, to nobody, for ever; the goroutine in proc.Wait stays as well.
  `ConnectionEnds` allows this; `WellIsNotKilled` shows that it harms no later
  server.
- A kill is not waited for (`watchDog.go:117`): the next server is started while
  the killed one may still have port and database. `OneServer` says that it was
  sent its kill, not that it is dead; that it is dead a tick later is assumed
  (`Kernel`), and `DialFindsServer` rests on it.

### Bounds

Every bound is a CONSTANT. `MaxWhole` ends Writes that would make the archive
longer; 6 is three times the buffer, so that every boundary is crossed more
than once. `MaxPos` and `MaxOwed` bound the chunks appended; positions may
overlap and come in any order. `MaxFrames`, `MaxRequests` and `MaxPrunes` bound
what clients do to a Radio; the interleavings of its goroutines are not
bounded. Two packages are enough for reordering, two sessions for interference.
`MaxDrift` stops bad commands from counting the load down for ever: with two
below zero, every comparison with zero has been on both sides. A room for one
with two connections has every way of being full, overfull by a race, empty and
empty again; three connections in a room for two (safety only) give the same
answers in 3.0 million states up to symmetry. In `room_manager`, `MaxFaults` and
`MaxShortenings` of two allow a crash during the recovery after a crash, a crash
after a Put or a Delete that failed, or two of these of two rooms, and a room of
`Expiration` two to use up its hours; two rooms of a name can cross, and the
third shows that crossing stays within its name. In `socket`,
`ReadSize` six is less than two packages and more than one, so that a read may
end in a size, in a package, behind one or in the next one's size; with
`Session` and `OtherCaller` of two and one, one session may end by itself while
the other waits to be told, and two callers may be in Close. In `watch_dog` a
step is ten seconds, and the constants are those of the code: `StartWait` and
`PingEvery` one step, `SilentFor` three. `MaxStarts` two has every pair of an
earlier and a later server; three (389,899 states) gives the same answers.
CHECK_DEADLOCK is FALSE where such a bound, or the end of all clients, stops
the model.

### Fairness

- `BufferedFile`: the timer's goroutine and its sync. Nothing else is fair.
- `RadioTaskList`: fetchAndSend, which the session calls every 100 ms.
- `Radio`: the run goroutine's steps once it has a package, every session, and
  every session's helpers: goroutines that the Go runtime schedules. A session
  that receives at every instant would in the code never fetch, because its
  timer starts again each time; packages are bounded here, and so that
  starvation is outside the model. Clients, requests and lost connections are
  not fair. In `radio` and `radio_stuck` peers do not stall.
- `Room`: timers fire (kick, schedule), and a goroutine that has seen its
  socket closed, or decided to close the room, goes on. Nobody has to come,
  join or leave; `DesertedRoomCloses` assumes that at some time everyone has
  left.

- `RoomManager`: recovery's loop, which waits for nothing. Rooms need not
  close, and nobody promises a restart.
- `SocketClient`: every goroutine that is not blocked goes on; a write on a
  broken connection fails. Not fair: the peer, a write that the peer does not
  read, the receiver's leaving, archive requests, other callers of Close.
- `WatchDog`: time passes, and main, the goroutines, a kill's effect and the
  binding of a free port are prompt: no Tick comes before them. When a server
  answers, whether it accepts, hangs or dies, whether a process can be started:
  nobody's duty.

## The proofs

`BufferedFileProofs` (for every buffer size, alphabet and bound):

- `TypeCorrect`: types, with no further assumption.
- `ArchiveIsFileThenBuffer`: if the file can always be reopened
  (`~ReopenMayFail`; without it `buffered_file_reopen` shows the opposite),
  `FileThenBuffer` is an invariant. It is inductive together with the types:
  while the file is served, the descriptor is open at the end of the file, the
  recorded file size is the real one, and the pending bytes continue it
  (`BufferIsRest`); when it is not served the file is a prefix
  (`FileIsPrefix`), and after Close nothing is pending (`ClosedIsFlushed`), so
  that a late timer flushes nothing.
- `ReadsAreTheArchive`: `ReadAt` returns archive bytes, from that invariant.
- `ImplementsLog`: each step is a Grow, Drop or Recover of `ArchiveLog`, or a
  stutter; the refinement maps `log` to `archive` and `durable` to the length
  of the file.

`RoomProofs` (for every finite set of connections, every MaxLoad):

- `RoomInvariant`: `RoomInv` is inductive. Besides the types, it says that
  nothing is known of a connection before it is accepted, that the load is at
  most the number of connections, and, until a kick, that a client is in the map
  exactly while its goroutine serves it or is about to (`InWhileServed`). This
  last one makes the blind decrement right: whoever removes a client stops
  serving it in the same step. From it follows `CountIsLoad`, an equation of
  four numbers: the load and those being counted in are, together, those in the
  map and those being counted down. After a kick one side may only be less
  (`LoadNotOverstated`), for nothing counts twice upwards. With the equation,
  those who have passed the look at the load (`Seated`) are within MaxLoad: none
  of them is still to be counted in (`SeatedWithinMaxLoad`), so that when the
  look succeeds there is a place left.
- `LoadFollowsTheMap`, `MembersFit`, `ClosedWhenNobodyIsServed` and
  `TypeCorrect` state its consequences. The third reads the equation backwards:
  where the load is 0, whoever is in the map is still to be counted in.

`RoomManagerProofs` (for all sets of names and rooms, any number of crashes,
refused writes and shortenings):

- `RoomManagerInvariant`: `RoomManagerInv` is inductive. Besides the types it
  says that map, database and snapshot hold rooms under their own names; that
  nothing runs while the server is down and nothing is asked until recovery is
  over; that a record, and what the shortening has read, belongs to a request
  that was answered (`RecordedWasAnswered`); what recovery has yet to open is
  not there yet (`TodoIsAhead`). With this: where no requests crossed, a room in
  service holds its name, so that writes by name meet the record they mean;
  where no write came late, what was deleted neither has a record nor runs; and
  where neither happened, a room's record is there until it is deleted, unless
  its Put failed (`RecordedUntilErased`), and no record stays behind but for the
  rooms that could not be opened or whose Delete failed
  (`RecordsAreServedOrAhead`).
- The safety properties of the run follow from it: `ListShowsWhatIsThere` (also
  for crossed names), `NamesAreHeld`, `AnnouncedRoomsAreRecorded`,
  `ErasedRoomsStayGone`, `RecordsBelongToServed`, `TypeCorrect`.

`SocketProofs` (for all packages of bytes, any read size):

- `SizeRoundTrip` and `PackRoundTrip`: the four bytes of a size and the header
  byte say what they were made from.
- `ReaderInvariant`: there is a map from package numbers to the place on the
  wire where each ends (`WireEnds`), and the reader is at the end of what it
  has parsed, or four bytes further with the size of the next package
  (`AtPackage`). A new package extends the map; a read extends the buffer at
  its end; TakeSize and TakePackage move along it. From this `FramingIsExact`
  and `ReaderImplementsStream`.
- `TypeCorrect` of the whole connection.

`RadioChunksProofs` (for every CHUNK_SIZE and MAX_CHUNKS_IN_QUEUE):

- `RealChunkSizeFits`: the doubling loop of splitChunk ends, with a size of
  which the chunk has at most MAX_CHUNKS_IN_QUEUE full pieces. A size that is
  too small has been doubled at least once per turn, so after as many turns as
  the chunk has bytes it exceeds the chunk.
- `SplitFollows`: the pieces `Follow` one another from the chunk's start to its
  end, and there is at most one more than the full ones.
- `AppendFile`, the lemma that the proofs about queues use: appendToPendings
  keeps the queue, or the queue but for a last chunk that ends where the new
  one starts, and adds pieces that follow one another to the new chunk's end.

`RadioTaskListProofs` (for every archive and message, positions in any order):

- `QueueLosesNothing`: `NothingLostOrReordered` is inductive with the types.
  What the pieces of a split flatten to is what the chunk does
  (`FollowsUnits`), and flattening distributes over concatenation
  (`AllUnitsConcat`), so that neither a merge nor a put back changes it.
- `AppendsAreBounded`, `TasksAreTyped`.

`RadioProofs` (for every set of clients, traffic, and bounds):

- `RadioIsTyped`: `TypeInv` is inductive. `TypeOK` alone is not: a session that
  a subscription, a helper or the run goroutine names must exist, and belong
  to the subscribed client.
- `NothingIsForgotten`, for all traffic, kicks, stalls, clearalls and ends of
  the room. `KeptInv` says that each byte owed is in one of five places (written,
  in the session's buffer, listed, with a helper, or still with run); a byte
  leaves one only for the next. What makes it inductive: a package whose
  position is no longer the archive's end was crossed by a clearall (`RunInv`),
  and a session that selects has written its buffer (`BuffersInv`).
- `FramesStayIntact`, under `Undisturbed`: each client asks for the archive
  once, whatever is asked for is a number of whole packages, and there are
  neither direct replies nor clearalls. These are the premises that the code
  needs: how a package is torn without each of them is under "What the models
  also show". They hold in the run `radio`. What is proved: the archive
  consists of whole packages (`ArchiveInv`); run, helpers and requests carry
  whole packages (`RunWhole`, `HelpersWhole`, `RequestsWhole`); a client has one
  session at most (`OneSession`); and what was written, what is in the buffer,
  and the list go on from each other: where one ends inside a package, the next
  continues it (`FlowsInv`, `StreamsInv`), and the list ends, and accepts new
  chunks, at a package's end.

`WatchDogProofs` (for any number of servers, and clocks with
`PingEvery + AnswerWithin < SilentFor`, which is 10 + 10 < 30 in the code):

- `OneServerAtATime`: before main starts another server it has seen the last
  one's end or sent it its kill, and who says "ended" is right (`OneServerInv`).
- `OnlyTheLateAreKilled`: while a server answers in time, its reader's silence
  is not older than the clock of the pinger, or than `PingEvery` and the age of
  an unanswered request (`SilenceIsShort`), which is at most `AnswerWithin`
  (`AnsweredInTime`); so the reader's timer never runs out.
- `DialsFindTheServer`: when a step of time passes, a killed server is dead and
  its port has gone to the one that was waiting (`ListeningInTime`), and only
  servers that main has done with are killed (`KilledIsOver`).
- `TypeCorrect`: no clock runs past its timer, since what it starts comes before
  the next Tick. `WatchDogInvariant` is all of this together.

All proofs assume only what the ASSUMEs of the modules say of the constants,
and what is named above. Where a recursion or a fold has to be followed for
every input, the induction is over a set instead of an operator: the library's
well-founded order of the numbers gives `NatSetInduction`, and that
`SeqSetInduction`.

Only model-checked: all liveness properties, for the prover has neither
fairness nor ENABLED. So `SyncsByItself`, `HeadIsServed`, `RecordedIsSent`,
`RadioKeepsServing`, `SessionsEnd`, `DesertedRoomCloses`, `EachIsTried`,
`SentIsHandled`, `CloseReturns`, `SessionsAreTold`, `UnwellIsReplaced` and
`ConnectionEnds` rest on TLC, as do the four violations. Every invariant, action
property and refinement of the passing runs is also a theorem.

## Not modelled

- Contents: JSON, compression and the text of messages. A package of the Radio
  is a number, a byte of the archive a position in a package; a package of the
  socket has the bytes that it has on the wire. `Common` is a conversion around
  zlib: here a package either uncompresses or is `Corrupt`.
- `Router`: its table is filled before anything is served. A handler's panic is
  recovered there, and leaves the table's read lock held; only Register would
  wait for it, and that is called at the start only.
- `Config` reads a file every ten minutes; the values that are used are
  constants. (The watch dog dials 7777, which `config.yml` names as
  manager_port; the default in `RoomManager.go:34` is another.) `Logger`,
  `ErrorCode` and `painttyServer.go` have no state of their own.
  `server/vendor` is not this program's code.
- `BufferedFile` admits no Write after Close. `Radio` has the one that can
  come: a package in flight at the room's end, unless it is as long as the
  file's buffer (50 KB), which would go to a new file at a position of the old
  one.
- MakeRadio's error, which `Room.init` drops: the server would serve a room
  without an archive. The goroutine of a room's Radio and its timer, when the
  port of a recovered room is taken, stay; nobody refers to them.
- What a record of the database does not hold: a clearall's new signature, a
  checkout and a close request are forgotten by a restart.
- Packages without a header byte: OnData indexes an empty slice and the process
  ends, or takes the size for one still to come. No client sends them.
- Handlers that wait for a Radio that is stuck: each waits alone.
- `RoomManager.Close`, `SocketReader.Close` and the reader's PackageChan, which
  nobody uses.
- Data races on single words (`Options.EmptyClose`, `v.list`, `m.clients` in
  removeAllClient): each access is one step. What a torn value could do is not
  considered.
- Time, but for the watch dog's: timers fire at any moment after they are set.
  A kick's ten seconds, a helper's ten seconds and the hour of the schedule
  have no order among each other, except that a helper does not give up on a
  session that is ready to receive.

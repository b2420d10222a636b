---------------------------- MODULE SocketClient ----------------------------
(***************************************************************************)
(* pkg/Socket/Socket.go: one connection, from its first byte to the last   *)
(* of its goroutines: the read loop, a goroutine for each package that it  *)
(* hands over, the receiver of packageChan (a room's processClient), the   *)
(* sessions that the Radio runs on the connection, and whoever calls       *)
(* Close.                                                                  *)
(*                                                                         *)
(* sync.Once makes every caller of Close wait for the first; that one      *)
(* holds closeCallbackListLock while it calls the callbacks, and each of   *)
(* these waits for its session.                                            *)
(***************************************************************************)
EXTENDS SocketReader, SequencesExt

CONSTANTS
  Session,      \* archive requests of the client, a session each
  OtherCaller   \* who calls Close besides the read loop: timers, handlers

VARIABLES
  peerGone,     \* has the other end closed or reset the connection?
  handlers,     \* the goroutines that send a package to packageChan
  handled,      \* the packages that have been received from it
  receiver,     \* the goroutine that receives: "select" or "gone"
  sessions,     \* Radio.processClient's goroutines
  callbacks,    \* closeCallbackList, a callback for each session
  closing,      \* the first call of Close: how far it is
  called,       \* how many callbacks it has called to the end
  callers       \* who is in Close

clientVars == <<peerGone, handlers, handled, receiver, sessions, callbacks,
                closing, called, callers>>
vars == <<readerVars, clientVars>>

Caller == {"reader"} \cup OtherCaller

TypeOK ==
  /\ ReaderTypeOK
  /\ peerGone \in BOOLEAN
  /\ handlers \subseteq 1 .. MaxPackages
  /\ handled \subseteq 1 .. MaxPackages
  /\ receiver \in {"select", "gone"}
  /\ sessions \in [Session -> {"none", "starting", "select", "writing", "told", "quit"}]
  /\ callbacks \in Seq(Session)
  /\ closing \in {"open", "closing", "locking", "calling", "done"}
  /\ called \in 0 .. Len(callbacks)
  /\ callers \subseteq Caller

Init ==
  /\ ReaderInit
  /\ peerGone = FALSE
  /\ handlers = {}
  /\ handled = {}
  /\ receiver = "select"
  /\ sessions = [s \in Session |-> "none"]
  /\ callbacks = << >>
  /\ closing = "open"
  /\ called = 0
  /\ callers = {}

ConClosed == closing # "open"
Closed == closing \notin {"open", "closing"}     \* packageChan is

-----------------------------------------------------------------------------
(* The peer, and the read loop.                                            *)

Sends ==
  /\ ~peerGone
  /\ \E p \in Package : PeerSends(p)
  /\ UNCHANGED clientVars

PeerGoes ==
  /\ ~peerGone
  /\ peerGone' = TRUE
  /\ UNCHANGED <<readerVars, handlers, handled, receiver, sessions, callbacks, closing, called, callers>>

Reads ==
  /\ ~ConClosed
  /\ \E n \in 1 .. ReadSize : Read(n)
  /\ UNCHANGED clientVars

\* "go r.handler(p)": a goroutine for each package.
Parses ==
  /\ OnData
  /\ handlers' = IF parsed' # parsed THEN handlers \cup {Len(parsed')} ELSE handlers
  /\ UNCHANGED <<peerGone, handled, receiver, sessions, callbacks, closing, called, callers>>

ReadFails ==
  /\ reader = "reading"
  /\ peerGone \/ ConClosed
  /\ reader' = "failed"
  /\ UNCHANGED <<sent, wire, got, buffer, dataSize, parsed, clientVars>>

-----------------------------------------------------------------------------
(* Packages: handlers and the receiver.                                    *)

\* Whichever handler the receiver meets: they are in no order.
Delivers(i) ==
  /\ i \in handlers
  /\ ~Closed
  /\ receiver = "select"
  /\ handlers' = handlers \ {i}
  /\ handled' = handled \cup {i}
  /\ UNCHANGED <<readerVars, peerGone, receiver, sessions, callbacks, closing, called, callers>>

\* A send on a closed channel panics; the handler recovers, and ends.
HandlerPanics(i) ==
  /\ i \in handlers
  /\ Closed
  /\ handlers' = handlers \ {i}
  /\ UNCHANGED <<readerVars, peerGone, handled, receiver, sessions, callbacks, closing, called, callers>>

\* The receiver returns: the channel is closed, the client silent or unwelcome.
ReceiverLeaves ==
  /\ receiver = "select"
  /\ receiver' = "gone"
  /\ UNCHANGED <<readerVars, peerGone, handlers, handled, sessions, callbacks, closing, called, callers>>

-----------------------------------------------------------------------------
(* Sessions.                                                               *)

Becomes(s, place) == sessions' = [sessions EXCEPT ![s] = place]

\* The receiver handles an archive request.
SessionStarts(s) ==
  /\ receiver = "select"
  /\ sessions[s] = "none"
  /\ Becomes(s, "starting")
  /\ UNCHANGED <<readerVars, peerGone, handlers, handled, receiver, callbacks, closing, called, callers>>

\* RegisterCloseCallback takes the list's lock, which the first Close holds.
Registers(s) ==
  /\ sessions[s] = "starting"
  /\ closing # "calling"
  /\ callbacks' = Append(callbacks, s)
  /\ Becomes(s, "select")
  /\ UNCHANGED <<readerVars, peerGone, handlers, handled, receiver, closing, called, callers>>

StartsWriting(s) ==
  /\ sessions[s] = "select"
  /\ Becomes(s, "writing")
  /\ UNCHANGED <<readerVars, peerGone, handlers, handled, receiver, callbacks, closing, called, callers>>

Written(s) ==
  /\ sessions[s] = "writing"
  /\ ~peerGone /\ ~ConClosed
  /\ Becomes(s, "select")
  /\ UNCHANGED <<readerVars, peerGone, handlers, handled, receiver, callbacks, closing, called, callers>>

\* con.Write fails: the session ends, and its callback stays in the list.
WriteFails(s) ==
  /\ sessions[s] = "writing"
  /\ peerGone \/ ConClosed
  /\ Becomes(s, "quit")
  /\ UNCHANGED <<readerVars, peerGone, handlers, handled, receiver, callbacks, closing, called, callers>>

-----------------------------------------------------------------------------
(* Close.                                                                  *)

\* The first caller closes con, ...
Enter(c) ==
  /\ callers' = callers \cup {c}
  /\ closing' = IF closing = "open" THEN "closing" ELSE closing

LoopCloses ==
  /\ reader = "failed"
  /\ reader' = "closing"
  /\ Enter("reader")
  /\ UNCHANGED <<sent, wire, got, buffer, dataSize, parsed, peerGone, handlers, handled,
                 receiver, sessions, callbacks, called>>

OtherCloses(c) ==
  /\ c \in OtherCaller \ callers
  /\ Enter(c)
  /\ UNCHANGED <<readerVars, peerGone, handlers, handled, receiver, sessions, callbacks, called>>

\* ... then packageChan, and goes for the lock.
ClosesChannel ==
  /\ closing = "closing"
  /\ closing' = "locking"
  /\ UNCHANGED <<readerVars, peerGone, handlers, handled, receiver, sessions, callbacks, called, callers>>

LocksList ==
  /\ closing = "locking"
  /\ closing' = "calling"
  /\ UNCHANGED <<readerVars, peerGone, handlers, handled, receiver, sessions, callbacks, called, callers>>

\* Mutant: the same callback is called again.
CallsBackAgain ==
  LET s == callbacks[called + 1] IN
  /\ closing = "calling"
  /\ called < Len(callbacks)
  /\ sessions[s] = "select"
  /\ Becomes(s, "told")
  /\ UNCHANGED <<readerVars, peerGone, handlers, handled, receiver, callbacks, closing, called, callers>>

\* The next callback, which returns once its session has received.
CallsBack ==
  LET s == callbacks[called + 1] IN
  /\ closing = "calling"
  /\ called < Len(callbacks)
  /\ sessions[s] = "select"
  /\ Becomes(s, "told")
  /\ called' = called + 1
  /\ UNCHANGED <<readerVars, peerGone, handlers, handled, receiver, callbacks, closing, callers>>

\* Mutant: the last callback is not called.
CalledAllButOne == called >= Len(callbacks) - 1

CalledAll == called = Len(callbacks)

Finishes ==
  /\ closing = "calling"
  /\ CalledAll
  /\ closing' = "done"
  /\ callbacks' = << >>
  /\ called' = 0
  /\ UNCHANGED <<readerVars, peerGone, handlers, handled, receiver, sessions, callers>>

Returns(c) ==
  /\ closing = "done"
  /\ c \in callers
  /\ callers' = callers \ {c}
  /\ UNCHANGED <<readerVars, peerGone, handlers, handled, receiver, sessions, callbacks, closing, called>>

Close == ClosesChannel \/ LocksList \/ CallsBack \/ Finishes

Next ==
  \/ Sends \/ PeerGoes
  \/ Reads \/ Parses \/ ReadFails \/ LoopCloses
  \/ \E i \in 1 .. MaxPackages : Delivers(i) \/ HandlerPanics(i)
  \/ ReceiverLeaves
  \/ \E s \in Session : \/ SessionStarts(s) \/ Registers(s)
                       \/ StartsWriting(s) \/ Written(s) \/ WriteFails(s)
  \/ \E c \in OtherCaller : OtherCloses(c)
  \/ Close
  \/ \E c \in Caller : Returns(c)

Spec == Init /\ [][Next]_vars

\* The Go runtime runs every goroutine that can go on.  What the peer does,
\* who leaves, asks for the archive or calls Close, and whether a write that
\* the peer does not read ever ends, is nobody's duty.
FairSpec ==
  /\ Spec
  /\ WF_vars(Reads) /\ WF_vars(Parses) /\ WF_vars(ReadFails) /\ WF_vars(LoopCloses)
  /\ \A i \in 1 .. MaxPackages : WF_vars(Delivers(i) \/ HandlerPanics(i))
  /\ \A s \in Session : WF_vars(Registers(s)) /\ WF_vars(WriteFails(s))
  /\ WF_vars(Close)
  /\ \A c \in Caller : WF_vars(Returns(c))

-----------------------------------------------------------------------------
(* Properties.                                                             *)

\* Has a session ended by itself whose callback is still to be called?
SomeQuit == \E i \in called + 1 .. Len(callbacks) : sessions[callbacks[i]] = "quit"

\* However the bytes are split, a package that was sent is received in the
\* end, unless the connection is closed, nobody receives, or a package before
\* it was corrupt.
SentIsHandled ==
  \A i \in 1 .. MaxPackages :
    (i <= Len(sent) /\ \A j \in 1 .. i : sent[j] \notin Corrupt)
      ~> (i \in handled \/ Closed \/ peerGone \/ receiver = "gone")

\* Every call of Close returns, unless a session that had registered for it
\* has ended by itself, because it was writing when the connection broke.
CloseReturns == \A c \in Caller : c \in callers ~> (c \notin callers \/ SomeQuit)

\* Every session that has registered before the callbacks are called is told,
\* or ends by itself, unless another one has ended by itself before it.
SessionsAreTold ==
  \A s \in Session :
    (closing \in {"closing", "locking"} /\ s \in ToSet(callbacks))
      ~> (sessions[s] \in {"told", "quit"} \/ SomeQuit)
=============================================================================

----------------------------- MODULE ArchiveLog -----------------------------
(***************************************************************************)
(* What a room may rely on of its archive, whatever the buffering behind   *)
(* it does: a log that only grows at its end, can be emptied as a whole,   *)
(* and of which a known prefix survives a crash of the server.             *)
(* BufferedFile implements it.                                             *)
(***************************************************************************)
EXTENDS Integers, Sequences

CONSTANT Byte        \* what the archive is made of

VARIABLES log,       \* every byte accepted since the archive was emptied
          durable    \* how many of them are in the operating system's file

Init == /\ log \in Seq(Byte)
        /\ durable = Len(log)

\* The end of the log grows, and a longer prefix of it may become durable.
Grow == /\ log' \in Seq(Byte)
        /\ Len(log) <= Len(log')
        /\ \A i \in 1 .. Len(log) : log'[i] = log[i]
        /\ durable' \in durable .. Len(log')

\* The whole archive is dropped.
Drop == /\ log' = << >>
        /\ durable' = 0

\* After a crash, the server finds exactly the durable prefix.
Recover == /\ log' = SubSeq(log, 1, durable)
           /\ durable' = durable

Next == Grow \/ Drop \/ Recover

Spec == Init /\ [][Next]_<<log, durable>>
=============================================================================

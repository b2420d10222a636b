---------------------------- MODULE PackageStream ----------------------------
(***************************************************************************)
(* What the two ends of a connection are to each other, whatever TCP does  *)
(* to the bytes between them: packages are taken in the order, and in the  *)
(* form, in which they were sent, none twice and none left out.            *)
(***************************************************************************)
EXTENDS Naturals, Sequences

CONSTANT Package

VARIABLES sent, taken

Init == sent = << >> /\ taken = << >>

Send == \E p \in Package : sent' = Append(sent, p) /\ UNCHANGED taken

Take ==
  /\ Len(taken) < Len(sent)
  /\ taken' = Append(taken, sent[Len(taken) + 1])
  /\ UNCHANGED sent

Next == Send \/ Take

Spec == Init /\ [][Next]_<<sent, taken>>
=============================================================================

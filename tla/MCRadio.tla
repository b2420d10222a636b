------------------------------ MODULE MCRadio ------------------------------
(***************************************************************************)
(* Radio with the symmetry of its clients, for the runs that check only    *)
(* safety: nothing in Radio tells one client from another.                 *)
(***************************************************************************)
EXTENDS Radio, TLC

Symmetry == Permutations(Client)
=============================================================================

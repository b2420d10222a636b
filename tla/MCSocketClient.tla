--------------------------- MODULE MCSocketClient ---------------------------
(***************************************************************************)
(* SocketClient with packages of five and six bytes behind one another,    *)
(* and reads of up to six, so that one read may end anywhere in a package, *)
(* or bring the end of one and the start of the next.                      *)
(***************************************************************************)
EXTENDS SocketClient

Data == [type |-> 2, compress |-> 0, data |-> <<9>>]
Bad  == [type |-> 1, compress |-> 1, data |-> << >>]

MCPackage == {Data, Bad}
MCCorrupt == {Bad}
=============================================================================

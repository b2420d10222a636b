---------------------------- MODULE MCRoomManager ----------------------------
(***************************************************************************)
(* RoomManager for two rooms of one name, which can get into each other's  *)
(* way, and one of another, which must not be drawn into that.             *)
(***************************************************************************)
EXTENDS RoomManager

MCName == {"red", "blue"}
MCRoom == {<<"red", 1>>, <<"red", 2>>, <<"blue", 1>>}
=============================================================================

---------------------------- MODULE MCRoomAccess ----------------------------
(***************************************************************************)
(* Small instances of RoomAccess; requests are interchangeable, and so are *)
(* administrators.                                                         *)
(***************************************************************************)
EXTENDS RoomAccess, TLC

Symmetry == Permutations(Requests) \cup Permutations(Admins)
=============================================================================

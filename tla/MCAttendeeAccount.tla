------------------------ MODULE MCAttendeeAccount ------------------------
(* Model values of the AttendeeAccount run. *)
EXTENDS AttendeeAccount, TLC

Symmetry == Permutations(Requests)
==========================================================================

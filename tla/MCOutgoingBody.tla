--------------------------- MODULE MCOutgoingBody ---------------------------
(***************************************************************************)
(* Instances of OutgoingBody for TLC.  Nothing is symmetric: the sources   *)
(* are appended in order, and bytes and permits are numbers.               *)
(***************************************************************************)
EXTENDS OutgoingBody

=============================================================================

------------------------- MODULE MCRequestResponse -------------------------
(***************************************************************************)
(* Instances of RequestResponse for TLC.  Bytes are numbers: no symmetry.  *)
(***************************************************************************)
EXTENDS RequestResponse

=============================================================================

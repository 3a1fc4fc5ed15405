---------------------------- MODULE MCFetchEvent ----------------------------
(***************************************************************************)
(* Instances of FetchEvent for TLC.  The promises are interchangeable.     *)
(***************************************************************************)
EXTENDS FetchEvent, TLC

Symmetry == Permutations(Promises)

=============================================================================

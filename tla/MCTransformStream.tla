------------------------- MODULE MCTransformStream -------------------------
(***************************************************************************)
(* Instances of TransformStream for TLC.  Chunks are numbers, in the order *)
(* in which they were written: no symmetry.                                *)
(***************************************************************************)
EXTENDS TransformStream

=============================================================================

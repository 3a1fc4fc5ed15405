---------------------------- MODULE MCEventLoop ----------------------------
(***************************************************************************)
(* Instances of EventLoop for TLC.  The slots of one kind of task are      *)
(* interchangeable, and so are the host's handle numbers.                  *)
(***************************************************************************)
EXTENDS EventLoop, TLC

Symmetry ==
  Permutations(Timeouts) \cup Permutations(Intervals) \cup Permutations(Ios)
    \cup Permutations(Handles)

=============================================================================

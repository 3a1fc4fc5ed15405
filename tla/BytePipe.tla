------------------------------ MODULE BytePipe ------------------------------
(***************************************************************************)
(* What HttpOutgoingBody::append promises for incoming bodies that are     *)
(* appended to one outgoing body: the bytes of each of them reach it once  *)
(* and in order, all of them when its copy is done; or all copies that are *)
(* under way fail, and nothing more is written.  Nothing is promised about *)
(* how the bytes of two bodies interleave.                                 *)
(***************************************************************************)
EXTENDS Naturals, Sequences

CONSTANTS Sources, Bytes

VARIABLES
  arrived,  \* the bytes that each sender has sent so far
  ended,    \* the sender has sent its last byte
  target,   \* the bytes of each sender that were written
  status    \* of each copy: "copying", "done" or "failed"

vars == <<arrived, ended, target, status>>

Init ==
  /\ arrived = [s \in Sources |-> <<>>]
  /\ ended = [s \in Sources |-> FALSE]
  /\ target = [s \in Sources |-> <<>>]
  /\ status = [s \in Sources |-> "copying"]

Send(s, b) ==
  /\ ~ended[s]
  /\ arrived' = [arrived EXCEPT ![s] = Append(@, b)]
  /\ UNCHANGED <<ended, target, status>>

End(s) ==
  /\ ~ended[s]
  /\ ended' = [ended EXCEPT ![s] = TRUE]
  /\ UNCHANGED <<arrived, target, status>>

\* The next k bytes are copied.
Copy(s, k) ==
  /\ status[s] = "copying"
  /\ target' = [target EXCEPT ![s] = SubSeq(arrived[s], 1, Len(@) + k)]
  /\ UNCHANGED <<arrived, ended, status>>

Finish(s) ==
  /\ status[s] = "copying"
  /\ ended[s]
  /\ target[s] = arrived[s]
  /\ status' = [status EXCEPT ![s] = "done"]
  /\ UNCHANGED <<arrived, ended, target>>

Fail ==
  /\ status' = [s \in Sources |-> IF status[s] = "done" THEN "done" ELSE "failed"]
  /\ UNCHANGED <<arrived, ended, target>>

Next ==
  \/ \E s \in Sources :
       \/ \E b \in Bytes : Send(s, b)
       \/ \E k \in 1..(Len(arrived[s]) - Len(target[s])) : Copy(s, k)
       \/ End(s) \/ Finish(s)
  \/ Fail

Spec == Init /\ [][Next]_vars

=============================================================================

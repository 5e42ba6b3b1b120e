------------------------------ MODULE BoundedFifo ------------------------------
(***************************************************************************)
(* What the event buffer promises the services that share it: a bounded,   *)
(* lossless, duplication-free, first-in first-out channel.                 *)
(*                                                                         *)
(* `accepted' is every event the channel took, in the order it took them;  *)
(* `delivered' is every event it handed out.  Nothing is said about arrays *)
(* or indices: EventBuffer shows how the code keeps this promise.          *)
(***************************************************************************)
EXTENDS Naturals, Sequences

CONSTANTS
  Event,     (* the events that may be put in the channel               *)
  Capacity,  (* how many events may wait in it                          *)
  Restored   (* sequences of at most Capacity events it may start with  *)

VARIABLES accepted, delivered

vars == <<accepted, delivered>>

Waiting == Len(accepted) - Len(delivered)

Init ==
  /\ accepted \in Restored
  /\ delivered = << >>

(* An event is taken when there is room for it.                            *)
Accept(e) ==
  /\ Waiting < Capacity
  /\ accepted' = Append(accepted, e)
  /\ UNCHANGED delivered

(* The next n waiting events are handed out, oldest first.                 *)
Deliver(n) ==
  /\ delivered' = SubSeq(accepted, 1, Len(delivered) + n)
  /\ UNCHANGED accepted

Next ==
  \/ \E e \in Event : Accept(e)
  \/ \E n \in 1 .. Waiting : Deliver(n)

Spec == Init /\ [][Next]_vars

================================================================================

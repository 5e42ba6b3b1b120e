------------------------------ MODULE FailedEvents ------------------------------
(***************************************************************************)
(* What the dead letter queue promises for an event that has come to its   *)
(* last attempt, without calls, entities and primary keys: it is worked on *)
(* until it is stored, kept as a dead letter, or knowingly let go; it is   *)
(* worked on again only when an administrator puts back one that is or was *)
(* kept; and an entry disappears, or carries the mark of a reprocessed     *)
(* event, only because of a request that really did it.                    *)
(*                                                                         *)
(* Each step is about one event.  It may be under way several times, since *)
(* it can be put back while an earlier attempt is not over: therefore a    *)
(* step that ends an attempt may, but need not, end the work on the event. *)
(***************************************************************************)
EXTENDS Naturals

CONSTANT Event    (* events at their last attempt                          *)

VARIABLES
  arrived, (* events that have come to their last attempt                  *)
  live,    (* the events that are worked on                                *)
  stored,  (* the events in the events table                               *)
  kept,    (* the events with an entry in the dead letter queue            *)
  marked,  (* those of them whose entry says that it was reprocessed       *)
  gone,    (* events let go and not put back since                         *)
  runs     (* how often each event was put back                            *)

vars == <<arrived, live, stored, kept, marked, gone, runs>>

Init ==
  /\ arrived = {}
  /\ live = {}
  /\ stored = {}
  /\ kept = {}
  /\ marked = {}
  /\ gone = {}
  /\ runs = [e \in Event |-> 0]

(* An attempt at e ends, perhaps the only one under way.                   *)
AttemptEnds(e) == e \in live /\ (live' = live \/ live' = live \ {e})

Arrive(e) ==
  /\ e \notin arrived
  /\ arrived' = arrived \cup {e}
  /\ live' = live \cup {e}
  /\ UNCHANGED <<stored, kept, marked, gone, runs>>

(* The last attempt succeeds; should its answer be lost, it goes on.       *)
Store(e) ==
  /\ AttemptEnds(e)
  /\ stored' = stored \cup {e}
  /\ UNCHANGED <<arrived, kept, marked, gone, runs>>

(* e has an entry now, which was written from what its writer had read: it *)
(* may lack a mark that was set since, or bring back one that was removed. *)
Keep(e) ==
  /\ AttemptEnds(e)
  /\ kept' = kept \cup {e}
  /\ \/ marked' = marked \ {e}
     \/ runs[e] > 0 /\ marked' = marked \cup {e}
  /\ gone' = gone \ {e}
  /\ UNCHANGED <<arrived, stored, runs>>

(* e has an entry already, and the attempt adds nothing to it.             *)
KeptBefore(e) ==
  /\ AttemptEnds(e)
  /\ e \in kept
  /\ UNCHANGED <<arrived, stored, kept, marked, gone, runs>>

(* e cannot be kept; that is logged.                                       *)
LetGo(e) ==
  /\ AttemptEnds(e)
  /\ gone' = gone \cup {e}
  /\ UNCHANGED <<arrived, stored, kept, marked, runs>>

(* An administrator has a kept event tried again; meanwhile its entry may  *)
(* have been deleted.                                                      *)
PutBack(e) ==
  /\ e \in kept \cup gone \/ runs[e] > 0
  /\ live' = live \cup {e}
  /\ gone' = gone \ {e}
  /\ runs' = [runs EXCEPT ![e] = @ + 1]
  /\ UNCHANGED <<arrived, stored, kept, marked>>

(* The entry of an event that was put back is marked, or created anew with *)
(* its mark if it was deleted meanwhile.                                   *)
Mark(e) ==
  /\ runs[e] > 0
  /\ kept' = kept \cup {e}
  /\ marked' = marked \cup {e}
  /\ gone' = gone \ {e}
  /\ UNCHANGED <<arrived, live, stored, runs>>

(* An administrator deletes the entry of e.                                *)
Delete(e) ==
  /\ e \in kept
  /\ kept' = kept \ {e}
  /\ marked' = marked \ {e}
  /\ gone' = gone \cup {e}
  /\ UNCHANGED <<arrived, live, stored, runs>>

Next ==
  \E e \in Event :
    \/ Arrive(e)
    \/ Store(e) \/ Keep(e) \/ KeptBefore(e) \/ LetGo(e)
    \/ PutBack(e) \/ Mark(e) \/ Delete(e)

Spec == Init /\ [][Next]_vars

(* Every event that arrived is somewhere, and a mark was earned by an      *)
(* event that was put back.                                                *)
Accounted ==
  /\ arrived \subseteq live \cup stored \cup kept \cup gone
  /\ marked \subseteq kept
  /\ \A e \in marked : runs[e] > 0

================================================================================

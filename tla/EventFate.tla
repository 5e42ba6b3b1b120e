------------------------------- MODULE EventFate -------------------------------
(***************************************************************************)
(* What the way from POST /events to the tables promises for each event,   *)
(* without buffer, batches, transactions, retries or process() calls: it   *)
(* is taken at most once, and stored at least once, handed to the dead     *)
(* letter queue or dropped for want of room, with a log entry.             *)
(*                                                                         *)
(* While an event is held it may get rows, more than one if answers are    *)
(* lost.  Once it is not, this way does nothing to it any more: no event   *)
(* that was given up is stored later, and none is dropped that was handed  *)
(* over.  A hand-over that was logged as failed may have taken effect all  *)
(* the same, so such an event may be a dead letter as well.                *)
(*                                                                         *)
(* The promise is about what the program does by itself.  An administrator *)
(* may put a dead letter back (reprocessEvent): what becomes of it and its *)
(* entry from then on is what FailedEvents promises.                       *)
(***************************************************************************)
CONSTANT Source   (* the events clients post                               *)

VARIABLES
  answer,  (* what each client was told last                               *)
  held,    (* the events that are still worked on                          *)
  stored,  (* the rows: pairs of an event and the id it was stored under   *)
  dead,    (* the events that became dead letters                          *)
  unsure,  (* the events whose hand-over was logged as failed              *)
  dropped  (* the events dropped, with a log entry                         *)

vars == <<answer, held, stored, dead, unsure, dropped>>

Init ==
  /\ answer = [s \in Source |-> "new"]
  /\ held = {}
  /\ stored = {}
  /\ dead = {}
  /\ unsure = {}
  /\ dropped = {}

HasRow(s) == \E row \in stored : row[1] = s

(* The client is told 202, and its event is held.                          *)
Accept(s) ==
  /\ answer[s] # "accepted"
  /\ answer' = [answer EXCEPT ![s] = "accepted"]
  /\ held' = held \cup {s}
  /\ UNCHANGED <<stored, dead, unsure, dropped>>

(* The client is told 429; it may try again.                               *)
Refuse(s) ==
  /\ answer[s] = "new"
  /\ answer' = [answer EXCEPT ![s] = "rejected"]
  /\ UNCHANGED <<held, stored, dead, unsure, dropped>>

(* Held events get rows, and some are held no longer: each of those has a  *)
(* row, was handed over, for sure or not, or was dropped just now.  None   *)
(* is both handed over and dropped.                                        *)
Settle ==
  /\ held' \subseteq held
  /\ stored \subseteq stored' /\ \A row \in stored' \ stored : row[1] \in held
  /\ dead \subseteq dead' /\ dead' \ dead \subseteq held \ held'
  /\ unsure \subseteq unsure' /\ unsure' \ unsure \subseteq held \ held'
  /\ dropped \subseteq dropped' /\ dropped' \ dropped \subseteq held \ held'
  /\ (dropped' \ dropped) \cap ((dead' \ dead) \cup (unsure' \ unsure)) = {}
  /\ \A s \in held \ held' : s \in dead' \cup unsure' \cup dropped' \/ HasRow(s)'
  /\ UNCHANGED answer

Next ==
  \/ \E s \in Source : Accept(s) \/ Refuse(s)
  \/ Settle

Spec == Init /\ [][Next]_vars

(* An event has no end while it is held, and one that was dropped was not  *)
(* handed over to the dead letter queue, not even perhaps.                 *)
OneEnd ==
  /\ held \cap (dead \cup unsure \cup dropped) = {}
  /\ dropped \cap (dead \cup unsure) = {}
  /\ \A s \in held \cup dead \cup unsure \cup dropped : answer[s] = "accepted"

================================================================================

-------------------------------- MODULE Recovery --------------------------------
(***************************************************************************)
(* What a buffer with a checkpoint promises for the events it accepted,    *)
(* without instances, files and saves: the checkpoint stays as it is until *)
(* all that it has is in memory again, or reading it has failed for good;  *)
(* from then on it may be replaced at any time, and need not be right.  So *)
(* an event is lost by a crash that found it in memory, in no row and not  *)
(* in the checkpoint, or by a start that could not read the checkpoint,    *)
(* and in no other way; and none gets a second row from one start.         *)
(***************************************************************************)
EXTENDS Naturals

CONSTANT Event  (* the events clients post                                 *)

VARIABLES
  accepted, (* the events that got their 202                               *)
  working,  (* those of them that are in memory                            *)
  saved,    (* those of them that are in the checkpoint                    *)
  fresh,    (* may this start of the process still read the checkpoint?    *)
  rows,     (* how many rows each event has in the events table            *)
  starts,   (* how often the process was started                           *)
  lost,     (* the events that a crash lost                                *)
  unread    (* the events of a checkpoint that could not be read           *)

vars == <<accepted, working, saved, fresh, rows, starts, lost, unread>>

Init ==
  /\ accepted = {}
  /\ working = {}
  /\ saved = {}
  /\ fresh = TRUE
  /\ rows = [e \in Event |-> 0]
  /\ starts = 1
  /\ lost = {}
  /\ unread = {}

(* The checkpoint is read, all of it.                                      *)
Recover ==
  /\ working' = working \cup saved
  /\ fresh' = FALSE
  /\ UNCHANGED <<accepted, saved, rows, starts, lost, unread>>

(* The checkpoint cannot be read: the process goes on without it.          *)
Skip ==
  /\ fresh
  /\ fresh' = FALSE
  /\ unread' = unread \cup saved
  /\ UNCHANGED <<accepted, working, saved, rows, starts, lost>>

Accept(e) ==
  /\ ~ fresh
  /\ e \notin accepted
  /\ accepted' = accepted \cup {e}
  /\ working' = working \cup {e}
  /\ UNCHANGED <<saved, fresh, rows, starts, lost, unread>>

(* A checkpoint is written, deleted or damaged.                            *)
Replace ==
  /\ ~ fresh
  /\ saved' \in SUBSET accepted
  /\ UNCHANGED <<accepted, working, fresh, rows, starts, lost, unread>>

(* A batch is stored, of events that have no row of this start yet.  Some  *)
(* of them may be in memory a second time, never to be stored from there.  *)
Store(batch) ==
  /\ ~ fresh
  /\ batch # {}
  /\ \A e \in batch : rows[e] < starts
  /\ rows' = [e \in Event |-> IF e \in batch THEN rows[e] + 1 ELSE rows[e]]
  /\ working \ batch \subseteq working' /\ working' \subseteq working
  /\ UNCHANGED <<accepted, saved, fresh, starts, lost, unread>>

Crash ==
  /\ starts' = starts + 1
  /\ lost' = lost \cup {e \in working \ saved : rows[e] = 0}
  /\ working' = {}
  /\ fresh' = TRUE
  /\ UNCHANGED <<accepted, saved, rows, unread>>

Next ==
  \/ Recover
  \/ Skip
  \/ \E e \in Event : Accept(e)
  \/ Replace
  \/ \E batch \in SUBSET working : Store(batch)
  \/ Crash

Spec == Init /\ [][Next]_vars

(* No accepted event is lost but by a crash or an unreadable checkpoint,   *)
(* and none is stored more often than the process was started.             *)
Kept ==
  /\ \A e \in accepted :
       \/ e \in working \/ rows[e] > 0
       \/ e \in lost \/ e \in unread
       \/ fresh /\ e \in saved
  /\ \A e \in Event : rows[e] <= starts

================================================================================

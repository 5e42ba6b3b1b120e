---------------------------- MODULE DeadLetterQueue ----------------------------
(***************************************************************************)
(* DeadLetterQueueService: the worker's addToDLQ and the administrators'   *)
(* reprocessEvent and deleteDLQEvent, which all read an entity, await, and *)
(* write it back.                                                          *)
(*                                                                         *)
(* The stored original event carries the retry count of its last attempt,  *)
(* so a reprocessed event has one attempt: the batch worker inserts it or  *)
(* hands it straight back to addToDLQ.  Events enter this module at that   *)
(* last attempt; what happened to them before is BatchPipeline's subject.  *)
(*                                                                         *)
(* Repository.save writes the entity as the caller holds it: it updates    *)
(* the row of that id, or inserts the entity when the row is gone; the     *)
(* unique index on eventId can refuse an insertion.  An event stands for   *)
(* its eventId: it is never regenerated from the last attempt on.          *)
(***************************************************************************)
EXTENDS Naturals, Sequences, FiniteSets

CONSTANTS
  Event,    (* events at their last attempt                                *)
  Worker,   (* bound: batches of one event under way at once               *)
  Request,  (* bound: administrators' requests under way at once           *)
  MaxSize,  (* the buffer's capacity                                       *)
  AddsFail, (* may statements of addToDLQ fail?                            *)
  MaxRows,  (* bound: entities ever created                                *)
  MaxRuns   (* bound: reprocess requests that enqueue, per event           *)

ASSUME DlqAssumption ==
  /\ MaxSize \in Nat \ {0}
  /\ AddsFail \in BOOLEAN
  /\ MaxRows \in Nat
  /\ MaxRuns \in Nat

VARIABLES
  arrived,  (* events that have reached their last attempt                 *)
  queue,    (* the buffer                                                  *)
  worker,   (* the worker calls: where each is, its event, what it read    *)
  request,  (* the requests: what each is and which entity it holds        *)
  stored,   (* events in the events table                                  *)
  table,    (* the dead_letter_queue table                                 *)
  nextId,   (* the next fresh primary key                                  *)
  gone,     (* history: events knowingly let go and not put back since: an *)
            (* administrator deleted the entry, or addToDLQ failed         *)
  runs      (* history: how often a reprocess request enqueued the event   *)

vars == <<arrived, queue, worker, request, stored, table, nextId, gone, runs>>

Resting == [pc |-> "idle"]

Init ==
  /\ arrived = {}
  /\ queue = << >>
  /\ worker = [w \in Worker |-> Resting]
  /\ request = [r \in Request |-> Resting]
  /\ stored = {}
  /\ table = {}
  /\ nextId = 1
  /\ gone = {}
  /\ runs = [e \in Event |-> 0]

(* Faulty variant: the capacity check is off by one.                       *)
RoomForOneMore == Len(queue) <= MaxSize

HasRoom == Len(queue) < MaxSize

(* An event comes to its last attempt: retryFailed re-enqueued it.         *)
Arrive(e) ==
  /\ e \notin arrived
  /\ HasRoom
  /\ arrived' = arrived \cup {e}
  /\ queue' = Append(queue, e)
  /\ UNCHANGED <<worker, request, stored, table, nextId, gone, runs>>

--------------------------------------------------------------------------------
(* The entity manager                                                      *)

Entities(e) == {row \in table : row.event = e}

(* save(entity) is possible: no other row has its eventId.                 *)
CanSave(entity) == \A row \in Entities(entity.event) : row.id = entity.id

(* Faulty variant: update(), which only writes rows that are there.        *)
SavedIfPresent(entity) ==
  IF \E row \in table : row.id = entity.id
  THEN {row \in table : row.id # entity.id} \cup {entity}
  ELSE table

(* The table after save(entity): updated, or inserted when it was gone.    *)
Saved(entity) == {row \in table : row.id # entity.id} \cup {entity}

--------------------------------------------------------------------------------
(* The batch worker                                                        *)

(* A batch of one event is drained and its insertion starts.               *)
Take(w) ==
  /\ worker[w].pc = "idle"
  /\ queue # << >>
  /\ worker' = [worker EXCEPT ![w] = [pc |-> "insert", event |-> Head(queue)]]
  /\ queue' = Tail(queue)
  /\ UNCHANGED <<arrived, request, stored, table, nextId, gone, runs>>

InsertSucceeds(w) ==
  /\ worker[w].pc = "insert"
  /\ worker[w].event \notin stored
  /\ stored' = stored \cup {worker[w].event}
  /\ worker' = [worker EXCEPT ![w] = Resting]
  /\ UNCHANGED <<arrived, queue, request, table, nextId, gone, runs>>

(* The event is inserted and yet given to addToDLQ: another event of its   *)
(* batch failed, or the answer was lost.                                   *)
InsertedYetRetried(w) ==
  /\ worker[w].pc = "insert"
  /\ worker[w].event \notin stored
  /\ stored' = stored \cup {worker[w].event}
  /\ worker' = [worker EXCEPT ![w].pc = "find"]
  /\ UNCHANGED <<arrived, queue, request, table, nextId, gone, runs>>

(* The last attempt fails, as it must when the eventId is already stored:  *)
(* addToDLQ looks for an entity.                                           *)
InsertFails(w) ==
  /\ worker[w].pc = "insert"
  /\ worker' = [worker EXCEPT ![w].pc = "find"]
  /\ UNCHANGED <<arrived, queue, request, stored, table, nextId, gone, runs>>

(* findOne answers: an existing entity is updated as it was read, else a   *)
(* new one is created.                                                     *)
AddFinds(w) ==
  /\ worker[w].pc = "find"
  /\ LET e == worker[w].event IN
       \/ \E row \in Entities(e) :
            /\ worker' = [worker EXCEPT ![w] = [pc |-> "save", event |-> e, entity |-> row]]
            /\ UNCHANGED nextId
       \/ /\ Entities(e) = {}
          /\ nextId <= MaxRows
          /\ worker' = [worker EXCEPT ![w] =
               [pc |-> "save", event |-> e,
                entity |-> [id |-> nextId, event |-> e, reprocessed |-> FALSE]]]
          /\ nextId' = nextId + 1
  /\ UNCHANGED <<arrived, queue, request, stored, table, gone, runs>>

(* The entity is saved.  Should the answer be lost, an error is logged all *)
(* the same; the event is kept.                                            *)
AddSaves(w) ==
  /\ worker[w].pc = "save"
  /\ CanSave(worker[w].entity)
  /\ table' = Saved(worker[w].entity)
  /\ gone' = gone \ {worker[w].event}
  /\ worker' = [worker EXCEPT ![w] = Resting]
  /\ UNCHANGED <<arrived, queue, request, stored, nextId, runs>>

(* The unique index refuses the entity: another call created one since     *)
(* this one looked.  The error is only logged.                             *)
AddRefused(w) ==
  /\ worker[w].pc = "save"
  /\ ~ CanSave(worker[w].entity)
  /\ worker' = [worker EXCEPT ![w] = Resting]
  /\ UNCHANGED <<arrived, queue, request, stored, table, nextId, gone, runs>>

(* A statement of addToDLQ fails: the error is logged, with the event in   *)
(* it, and dropped.                                                        *)
AddFails(w) ==
  /\ AddsFail
  /\ worker[w].pc \in {"find", "save"}
  /\ gone' = gone \cup {worker[w].event}
  /\ worker' = [worker EXCEPT ![w] = Resting]
  /\ UNCHANGED <<arrived, queue, request, stored, table, nextId, runs>>

--------------------------------------------------------------------------------
(* PATCH /dlq/:id/reprocess                                                *)

(* findOne answers with a pending entity; a marked one ends the request.   *)
ReprocessFinds(r, row) ==
  /\ request[r].pc = "idle"
  /\ ~ row.reprocessed
  /\ runs[row.event] < MaxRuns
  /\ request' = [request EXCEPT ![r] = [pc |-> "enqueue", entity |-> row]]
  /\ UNCHANGED <<arrived, queue, worker, stored, table, nextId, gone, runs>>

(* Faulty variant: the entry is marked whatever enqueue() returned.        *)
ReprocessIgnoresEnqueue(r) ==
  /\ request[r].pc = "enqueue"
  /\ LET e == request[r].entity.event IN
       /\ runs[e] < MaxRuns
       /\ IF HasRoom
          THEN /\ queue' = Append(queue, e)
               /\ runs' = [runs EXCEPT ![e] = @ + 1]
               /\ gone' = gone \ {e}
          ELSE UNCHANGED <<queue, runs, gone>>
  /\ request' = [request EXCEPT ![r] =
       [pc |-> "mark", entity |-> [request[r].entity EXCEPT !.reprocessed = TRUE]]]
  /\ UNCHANGED <<arrived, worker, stored, table, nextId>>

(* The event is put back into the buffer, whatever became of its row since *)
(* it was read; the entity held is marked.                                 *)
ReprocessEnqueues(r) ==
  /\ request[r].pc = "enqueue"
  /\ HasRoom
  /\ LET e == request[r].entity.event IN
       /\ runs[e] < MaxRuns
       /\ queue' = Append(queue, e)
       /\ runs' = [runs EXCEPT ![e] = @ + 1]
       /\ gone' = gone \ {e}
  /\ request' = [request EXCEPT ![r] =
       [pc |-> "mark", entity |-> [request[r].entity EXCEPT !.reprocessed = TRUE]]]
  /\ UNCHANGED <<arrived, worker, stored, table, nextId>>

(* The buffer is full: the request answers that it failed.                 *)
ReprocessFull(r) ==
  /\ request[r].pc = "enqueue"
  /\ ~ HasRoom
  /\ request' = [request EXCEPT ![r] = Resting]
  /\ UNCHANGED <<arrived, queue, worker, stored, table, nextId, gone, runs>>

(* The mark is saved; the request answers 200, or that it failed if the    *)
(* database's answer is lost.                                              *)
ReprocessMarks(r) ==
  /\ request[r].pc = "mark"
  /\ CanSave(request[r].entity)
  /\ table' = Saved(request[r].entity)
  /\ gone' = gone \ {request[r].entity.event}
  /\ request' = [request EXCEPT ![r] = Resting]
  /\ UNCHANGED <<arrived, queue, worker, stored, nextId, runs>>

(* The mark is not saved; the request answers that it failed, but the      *)
(* event is in the buffer.                                                 *)
ReprocessMarkFails(r) ==
  /\ request[r].pc = "mark"
  /\ request' = [request EXCEPT ![r] = Resting]
  /\ UNCHANGED <<arrived, queue, worker, stored, table, nextId, gone, runs>>

(* DELETE /dlq/:id: findOne has answered, remove is awaited.               *)
DeleteFinds(r, row) ==
  /\ request[r].pc = "idle"
  /\ request' = [request EXCEPT ![r] = [pc |-> "remove", entity |-> row]]
  /\ UNCHANGED <<arrived, queue, worker, stored, table, nextId, gone, runs>>

(* remove(entity) deletes by primary key, whether or not the row is there. *)
DeleteRemoves(r) ==
  /\ request[r].pc = "remove"
  /\ table' = {row \in table : row.id # request[r].entity.id}
  /\ gone' = IF request[r].entity.id \in {row.id : row \in table}
             THEN gone \cup {request[r].entity.event}
             ELSE gone
  /\ request' = [request EXCEPT ![r] = Resting]
  /\ UNCHANGED <<arrived, queue, worker, stored, nextId, runs>>

DeleteFails(r) ==
  /\ request[r].pc = "remove"
  /\ request' = [request EXCEPT ![r] = Resting]
  /\ UNCHANGED <<arrived, queue, worker, stored, table, nextId, gone, runs>>

--------------------------------------------------------------------------------

Next ==
  \/ \E e \in Event : Arrive(e)
  \/ \E w \in Worker :
       \/ Take(w) \/ InsertSucceeds(w) \/ InsertedYetRetried(w) \/ InsertFails(w)
       \/ AddFinds(w) \/ AddSaves(w) \/ AddRefused(w) \/ AddFails(w)
  \/ \E r \in Request :
       \/ \E row \in table : ReprocessFinds(r, row) \/ DeleteFinds(r, row)
       \/ ReprocessEnqueues(r) \/ ReprocessFull(r)
       \/ ReprocessMarks(r) \/ ReprocessMarkFails(r)
       \/ DeleteRemoves(r) \/ DeleteFails(r)

Spec == Init /\ [][Next]_vars

--------------------------------------------------------------------------------
(* Properties                                                              *)

Entity == [id : 1 .. MaxRows, event : Event, reprocessed : BOOLEAN]

TypeOK ==
  /\ arrived \subseteq Event
  /\ queue \in Seq(Event) /\ Len(queue) <= MaxSize
  /\ \A w \in Worker : \/ worker[w] = Resting
                       \/ worker[w].pc \in {"insert", "find"} /\ worker[w].event \in Event
                       \/ worker[w].pc = "save" /\ worker[w].entity \in Entity
  /\ \A r \in Request : \/ request[r] = Resting
                        \/ request[r].pc \in {"enqueue", "mark", "remove"} /\ request[r].entity \in Entity
  /\ stored \subseteq Event
  /\ table \subseteq Entity
  /\ nextId \in 1 .. MaxRows + 1
  /\ gone \subseteq Event
  /\ runs \in [Event -> 0 .. MaxRuns]

(* The program still works on the event.                                   *)
Live(e) ==
  \/ \E i \in DOMAIN queue : queue[i] = e
  \/ \E w \in Worker : worker[w].pc # "idle" /\ worker[w].event = e

(* An event at its last attempt does not vanish between the worker, the    *)
(* events table and the dead letter queue, however additions, requests and *)
(* deletions interleave: unless, since it was last put back, an addition   *)
(* failed (which is logged) or an administrator deleted its entry, it is   *)
(* live, stored or kept.  In particular an addition that the unique index  *)
(* refuses, or a mark written over a deleted row, loses nothing.           *)
NoEventVanishes ==
  \A e \in arrived : Live(e) \/ e \in stored \/ Entities(e) # {} \/ e \in gone

(* What the calls and their stale entities amount to, event by event:      *)
(* FailedEvents.  addToDLQ, reprocessEvent and deleteDLQEvent interleave   *)
(* between their awaits and write back what they read before, and yet each *)
(* step is one of those that the abstract specification knows: a mark, for *)
(* one, is set only on an entry whose event was put back.                  *)
LiveEvents == {e \in Event : Live(e)}
KeptEvents == {e \in Event : Entities(e) # {}}
MarkedEvents == {e \in Event : \E row \in Entities(e) : row.reprocessed}

Failed == INSTANCE FailedEvents WITH
  live <- LiveEvents, kept <- KeptEvents, marked <- MarkedEvents

ImplementsFailedEvents == Failed!Spec

(* README.md: events that permanently fail are stored for review and       *)
(* reprocessing.  An event that is only in the dead letter queue can be    *)
(* reprocessed, which reprocessEvent refuses for a marked entry.           *)
FailedCanBeReprocessed ==
  \A row \in table :
    ~ Live(row.event) /\ row.event \notin stored \cup gone
      /\ (\A r \in Request : request[r].pc = "idle")
    => ~ row.reprocessed

================================================================================

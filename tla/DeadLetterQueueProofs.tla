------------------------- MODULE DeadLetterQueueProofs -------------------------
(***************************************************************************)
(* Proofs about DeadLetterQueue: its types and NoEventVanishes hold, and   *)
(* it implements FailedEvents, for every set of events, any number of      *)
(* worker calls and requests under way, and every bound.                   *)
(*                                                                         *)
(* The danger is the entity that a call holds across an await: what it     *)
(* writes or removes by primary key may have become another row in the     *)
(* meantime.  So the invariant speaks of every entity that is known, in    *)
(* the table or in somebody's hands: a primary key stands for one event    *)
(* for ever, and a mark is only known for an event that was put back.      *)
(***************************************************************************)
EXTENDS DeadLetterQueue, SequenceTheorems, TLAPS

(* Where a worker call is, with the entity it holds for its event.         *)
WorkerState ==
  {Resting} \cup [pc : {"insert", "find"}, event : Event]
            \cup [pc : {"save"}, event : Event, entity : Entity]

RequestState == {Resting} \cup [pc : {"enqueue", "mark", "remove"}, entity : Entity]

StateTypes ==
  /\ arrived \subseteq Event
  /\ queue \in Seq(Event) /\ Len(queue) <= MaxSize
  /\ worker \in [Worker -> WorkerState]
  /\ request \in [Request -> RequestState]
  /\ stored \subseteq Event
  /\ table \subseteq Entity
  /\ nextId \in 1 .. MaxRows + 1
  /\ gone \subseteq Event
  /\ runs \in [Event -> 0 .. MaxRuns]

(* A call holds an entity of the event it was called for.                  *)
HoldsItsOwn == \A w \in Worker : worker[w].pc = "save" => worker[w].entity.event = worker[w].event

(* Every entity there is: the rows, and the copies that calls hold.        *)
Known ==
  table \cup {x \in Entity :
    \/ \E w \in Worker : worker[w].pc = "save" /\ worker[w].entity = x
    \/ \E r \in Request : request[r].pc # "idle" /\ request[r].entity = x}

(* A primary key is given out once, and stands for one event.              *)
KeysAreFresh == \A x \in Known : x.id < nextId
KeyTellsEvent == \A x, y \in Known : x.id = y.id => x.event = y.event

(* Whoever knows a marked entity knows one whose event was put back.       *)
MarksWereEarned == \A x \in Known : x.reprocessed => runs[x.event] > 0

IndInv ==
  /\ StateTypes
  /\ HoldsItsOwn
  /\ KeysAreFresh
  /\ KeyTellsEvent
  /\ MarksWereEarned
  /\ NoEventVanishes

--------------------------------------------------------------------------------
(* Lemmas                                                                  *)

(* Known entities have an entity's fields.                                 *)
LEMMA KnownType == StateTypes => Known \subseteq Entity
  BY DEF StateTypes, Known

(* What a call holds is known.                                             *)
LEMMA HeldIsKnown ==
  ASSUME StateTypes
  PROVE  /\ \A w \in Worker : worker[w].pc = "save" => worker[w].entity \in Known
         /\ \A r \in Request : request[r].pc # "idle" => request[r].entity \in Known
<1>1. ASSUME NEW w \in Worker, worker[w].pc = "save"
      PROVE  worker[w].entity \in Known
  <2>1. worker[w] \in WorkerState  BY DEF StateTypes
  <2>2. worker[w].entity \in Entity  BY <1>1, <2>1 DEF WorkerState, Resting
  <2> QED  BY <1>1, <2>2 DEF Known
<1>2. ASSUME NEW r \in Request, request[r].pc # "idle"
      PROVE  request[r].entity \in Known
  <2>1. request[r] \in RequestState  BY DEF StateTypes
  <2>2. request[r].entity \in Entity  BY <1>2, <2>1 DEF RequestState, Resting
  <2> QED  BY <1>2, <2>2 DEF Known
<1> QED  BY <1>1, <1>2

(* Keys stay fresh and telling, and marks earned, over a step after which  *)
(* nothing is known that was not before.                                   *)
LEMMA NothingNewIsKnown ==
  ASSUME KeysAreFresh, KeyTellsEvent, MarksWereEarned, StateTypes,
         Known' \subseteq Known, UNCHANGED <<nextId, runs>>
  PROVE  KeysAreFresh' /\ KeyTellsEvent' /\ MarksWereEarned'
  BY DEF KeysAreFresh, KeyTellsEvent, MarksWereEarned

(* A worker call that moves hands on no entity but those known.            *)
LEMMA WorkerMoves ==
  ASSUME StateTypes,
         NEW w \in Worker, NEW v \in WorkerState,
         worker' = [worker EXCEPT ![w] = v], UNCHANGED request,
         table' \subseteq Known,
         v.pc = "save" => v.entity \in Known
  PROVE  Known' \subseteq Known
<1> SUFFICES ASSUME NEW x \in Known' PROVE x \in Known
  OBVIOUS
<1>1. CASE x \in table'
  BY <1>1
<1>2. CASE \E u \in Worker : worker'[u].pc = "save" /\ worker'[u].entity = x
  <2>1. PICK u \in Worker : worker'[u].pc = "save" /\ worker'[u].entity = x
    BY <1>2
  <2>2. CASE u = w
    BY <2>1, <2>2 DEF StateTypes
  <2>3. CASE u # w
    BY <2>1, <2>3, HeldIsKnown DEF StateTypes
  <2> QED  BY <2>2, <2>3
<1>3. CASE \E r \in Request : request'[r].pc # "idle" /\ request'[r].entity = x
  BY <1>3, HeldIsKnown
<1> QED  BY <1>1, <1>2, <1>3 DEF Known

(* The same of a request that moves.                                       *)
LEMMA RequestMoves ==
  ASSUME StateTypes,
         NEW r \in Request, NEW v \in RequestState,
         request' = [request EXCEPT ![r] = v], UNCHANGED worker,
         table' \subseteq Known,
         v.pc # "idle" => v.entity \in Known
  PROVE  Known' \subseteq Known
<1> SUFFICES ASSUME NEW x \in Known' PROVE x \in Known
  OBVIOUS
<1>1. CASE x \in table'
  BY <1>1
<1>2. CASE \E u \in Worker : worker'[u].pc = "save" /\ worker'[u].entity = x
  BY <1>2, HeldIsKnown
<1>3. CASE \E u \in Request : request'[u].pc # "idle" /\ request'[u].entity = x
  <2>1. PICK u \in Request : request'[u].pc # "idle" /\ request'[u].entity = x
    BY <1>3
  <2>2. CASE u = r
    BY <2>1, <2>2 DEF StateTypes
  <2>3. CASE u # r
    BY <2>1, <2>3, HeldIsKnown DEF StateTypes
  <2> QED  BY <2>2, <2>3
<1> QED  BY <1>1, <1>2, <1>3 DEF Known

(* A call that moves keeps its event under way, unless it rests.  Whatever *)
(* else was live stays live.                                               *)
LEMMA LiveStays ==
  ASSUME StateTypes, NEW e,
         NEW w \in Worker, NEW v,
         worker' = [worker EXCEPT ![w] = v], UNCHANGED queue,
         Live(e),
         worker[w].event # e \/ (v.pc # "idle" /\ v.event = e)
  PROVE  Live(e)'
<1>1. CASE \E i \in DOMAIN queue : queue[i] = e
  BY <1>1 DEF Live
<1>2. CASE \E u \in Worker : worker[u].pc # "idle" /\ worker[u].event = e
  <2>1. PICK u \in Worker : worker[u].pc # "idle" /\ worker[u].event = e
    BY <1>2
  <2>2. CASE u = w
    BY <2>1, <2>2 DEF Live, StateTypes
  <2>3. CASE u # w
    BY <2>1, <2>3 DEF Live, StateTypes
  <2> QED  BY <2>2, <2>3
<1> QED  BY <1>1, <1>2 DEF Live

(* save(entity) takes away no other event's entry, since the key it writes *)
(* to stood for this event, and leaves one of this event.                  *)
LEMMA SavedKeepsEntries ==
  ASSUME StateTypes, KeyTellsEvent, NEW x \in Known, table' = Saved(x),
         NEW e, Entities(e) # {} \/ e = x.event
  PROVE  Entities(e)' # {}
<1>1. CASE e = x.event
  BY <1>1 DEF Entities, Saved
<1>2. CASE e # x.event
  <2>1. PICK row \in table : row.event = e
    BY <1>2 DEF Entities
  <2>2. row \in Known  BY DEF Known
  <2>3. row.id # x.id  BY <1>2, <2>1, <2>2 DEF KeyTellsEvent
  <2> QED  BY <2>1, <2>3 DEF Entities, Saved
<1> QED  BY <1>1, <1>2

--------------------------------------------------------------------------------
(* The steps                                                               *)

(* Nothing has arrived and nothing is known.                               *)
LEMMA InitIndInv == Init => IndInv
<1> SUFFICES ASSUME Init PROVE IndInv
  OBVIOUS
<1>1. StateTypes
  BY DlqAssumption, EmptySeq DEF Init, StateTypes, WorkerState, RequestState, Resting
<1>2. Known = {}
  BY DEF Init, Known, Resting
<1>3. HoldsItsOwn /\ NoEventVanishes
  BY DEF Init, HoldsItsOwn, NoEventVanishes, Resting
<1> QED  BY <1>1, <1>2, <1>3 DEF IndInv, KeysAreFresh, KeyTellsEvent, MarksWereEarned

(* An event arrives: it is in the buffer.                                  *)
LEMMA ArriveStep ==
  ASSUME IndInv, NEW e \in Event, Arrive(e)
  PROVE  IndInv'
<1> USE DEF IndInv, StateTypes, Arrive
<1>1. Len(queue') = Len(queue) + 1 /\ queue' \in Seq(Event)
      /\ queue'[Len(queue) + 1] = e /\ \A i \in 1 .. Len(queue) : queue'[i] = queue[i]
  OBVIOUS
<1>2. StateTypes'
  BY <1>1, DlqAssumption DEF HasRoom
<1>3. HoldsItsOwn' /\ KeysAreFresh' /\ KeyTellsEvent' /\ MarksWereEarned'
  BY DEF HoldsItsOwn, KeysAreFresh, KeyTellsEvent, MarksWereEarned, Known
<1>4. NoEventVanishes'
  <2> SUFFICES ASSUME NEW f \in arrived'
               PROVE  Live(f)' \/ f \in stored \/ Entities(f) # {} \/ f \in gone
    BY DEF NoEventVanishes, Entities
  <2>1. CASE f = e
    BY <2>1, <1>1 DEF Live
  <2>2. CASE f # e
    <3>1. Live(f) => Live(f)'
      BY <1>1 DEF Live
    <3> QED  BY <3>1, <2>2 DEF NoEventVanishes
  <2> QED  BY <2>1, <2>2
<1> QED  BY <1>2, <1>3, <1>4

(* A batch is drained: its event passes from the buffer to the call.       *)
LEMMA TakeStep ==
  ASSUME IndInv, NEW w \in Worker, Take(w)
  PROVE  IndInv'
<1> DEFINE v == [pc |-> "insert", event |-> Head(queue)]
<1>1. v \in WorkerState /\ queue' \in Seq(Event) /\ Len(queue') <= MaxSize
  BY DlqAssumption, HeadTailProperties DEF IndInv, StateTypes, Take, WorkerState
<1>2. StateTypes'
  BY <1>1 DEF IndInv, StateTypes, Take
<1>3. HoldsItsOwn'
  BY DEF IndInv, StateTypes, HoldsItsOwn, Take
<1>4. Known' \subseteq Known
  BY <1>1, WorkerMoves DEF IndInv, Take, Known
<1>5. KeysAreFresh' /\ KeyTellsEvent' /\ MarksWereEarned'
  BY <1>4, NothingNewIsKnown DEF IndInv, Take
<1>6. NoEventVanishes'
  <2> SUFFICES ASSUME NEW f \in arrived, Live(f) PROVE Live(f)'
    BY DEF IndInv, NoEventVanishes, Entities, Take
  <2>1. CASE f = Head(queue)
    BY <2>1 DEF Take, Live, IndInv, StateTypes
  <2>2. CASE f # Head(queue) /\ \E i \in DOMAIN queue : queue[i] = f
    <3>1. PICK i \in 1 .. Len(queue) : queue[i] = f
      BY <2>2 DEF IndInv, StateTypes
    <3>2. i # 1
      BY <2>2, <3>1 DEF IndInv, StateTypes, Take
    <3>3. i - 1 \in DOMAIN queue' /\ queue'[i - 1] = f
      BY <3>1, <3>2, HeadTailProperties DEF IndInv, StateTypes, Take
    <3> QED  BY <3>3 DEF Live
  <2>3. CASE \E u \in Worker : worker[u].pc # "idle" /\ worker[u].event = f
    <3>1. PICK u \in Worker : worker[u].pc # "idle" /\ worker[u].event = f
      BY <2>3
    <3>2. u # w
      BY <3>1 DEF Take
    <3> QED  BY <3>1, <3>2 DEF Live, Take, IndInv, StateTypes
  <2> QED  BY <2>1, <2>2, <2>3 DEF Live
<1> QED  BY <1>2, <1>3, <1>5, <1>6 DEF IndInv

(* The insertion's end: its event is stored, or goes on to addToDLQ.       *)
LEMMA InsertEndStep ==
  ASSUME IndInv, NEW w \in Worker,
         InsertSucceeds(w) \/ InsertedYetRetried(w) \/ InsertFails(w)
  PROVE  IndInv'
<1>1. worker[w] \in [pc : {"insert", "find"}, event : Event]
  BY DEF IndInv, StateTypes, WorkerState, Resting, InsertSucceeds, InsertedYetRetried, InsertFails
<1>2. PICK v \in {Resting, [pc |-> "find", event |-> worker[w].event]} :
        /\ worker' = [worker EXCEPT ![w] = v]
        /\ v = Resting => worker[w].event \in stored'
  <2>1. [worker[w] EXCEPT !.pc = "find"] = [pc |-> "find", event |-> worker[w].event]
    BY <1>1
  <2>2. CASE InsertSucceeds(w)
    BY <2>2 DEF InsertSucceeds
  <2>3. CASE InsertedYetRetried(w) \/ InsertFails(w)
    <3>1. worker' = [worker EXCEPT ![w] = [pc |-> "find", event |-> worker[w].event]]
      BY <2>1, <2>3 DEF InsertedYetRetried, InsertFails
    <3> QED  BY <3>1 DEF Resting
  <2> QED  BY <2>2, <2>3
<1>3. /\ v \in WorkerState /\ v.pc \in {"idle", "find"}
      /\ v # Resting => v.pc = "find" /\ v.event = worker[w].event
  BY <1>1 DEF WorkerState, Resting
<1>4. /\ stored \subseteq stored' /\ stored' \subseteq Event
      /\ UNCHANGED <<arrived, queue, request, table, nextId, gone, runs>>
  BY <1>1 DEF IndInv, StateTypes, InsertSucceeds, InsertedYetRetried, InsertFails
<1>5. StateTypes'
  BY <1>2, <1>3, <1>4 DEF IndInv, StateTypes
<1>6. HoldsItsOwn'
  BY <1>2, <1>3 DEF IndInv, StateTypes, HoldsItsOwn
<1>7. Known' \subseteq Known
  BY <1>2, <1>3, <1>4, WorkerMoves DEF IndInv, Known
<1>8. KeysAreFresh' /\ KeyTellsEvent' /\ MarksWereEarned'
  BY <1>4, <1>7, NothingNewIsKnown DEF IndInv
<1>9. NoEventVanishes'
  <2> SUFFICES ASSUME NEW f \in arrived, Live(f) PROVE Live(f)' \/ f \in stored'
    BY <1>4 DEF IndInv, NoEventVanishes, Entities
  <2> QED  BY <1>2, <1>3, <1>4, LiveStays DEF IndInv
<1> QED  BY <1>5, <1>6, <1>8, <1>9 DEF IndInv

(* addToDLQ has looked: the call holds a row of its event, or an entity    *)
(* with a fresh key and no mark.                                           *)
LEMMA AddFindsStep ==
  ASSUME IndInv, NEW w \in Worker, AddFinds(w)
  PROVE  IndInv'
<1>1. worker[w] \in [pc : {"insert", "find"}, event : Event]
  BY DEF IndInv, StateTypes, WorkerState, Resting, AddFinds
<1>2. PICK x \in Entity :
        /\ worker' = [worker EXCEPT ![w] =
             [pc |-> "save", event |-> worker[w].event, entity |-> x]]
        /\ x.event = worker[w].event
        /\ \/ x \in table /\ nextId' = nextId
           \/ x.id = nextId /\ ~ x.reprocessed /\ nextId' = nextId + 1 /\ nextId <= MaxRows
  <2>1. CASE \E row \in Entities(worker[w].event) :
               /\ worker' = [worker EXCEPT ![w] =
                    [pc |-> "save", event |-> worker[w].event, entity |-> row]]
               /\ UNCHANGED nextId
    BY <2>1 DEF IndInv, StateTypes, Entities
  <2>2. CASE /\ nextId <= MaxRows
             /\ nextId' = nextId + 1
             /\ worker' = [worker EXCEPT ![w] =
                  [pc |-> "save", event |-> worker[w].event,
                   entity |-> [id |-> nextId, event |-> worker[w].event, reprocessed |-> FALSE]]]
    <3>1. [id |-> nextId, event |-> worker[w].event, reprocessed |-> FALSE] \in Entity
      BY <1>1, <2>2, DlqAssumption DEF Entity, IndInv, StateTypes
    <3> QED  BY <2>2, <3>1
  <2> QED  BY <2>1, <2>2 DEF AddFinds
<1> DEFINE v == [pc |-> "save", event |-> worker[w].event, entity |-> x]
<1>3. v \in WorkerState  BY <1>1 DEF WorkerState
<1>4. UNCHANGED <<arrived, queue, request, stored, table, gone, runs>>
  BY DEF AddFinds
<1>5. StateTypes'
  BY <1>2, <1>3, <1>4, DlqAssumption DEF IndInv, StateTypes
<1>6. HoldsItsOwn'
  BY <1>2 DEF IndInv, StateTypes, HoldsItsOwn
<1>7. Known' \subseteq Known \cup {x}
  <2> SUFFICES ASSUME NEW y \in Known', y # x PROVE y \in Known
    OBVIOUS
  <2>1. CASE \E u \in Worker : worker'[u].pc = "save" /\ worker'[u].entity = y
    <3>1. PICK u \in Worker : worker'[u].pc = "save" /\ worker'[u].entity = y
      BY <2>1
    <3>2. u # w  BY <1>2, <3>1 DEF IndInv, StateTypes
    <3> QED  BY <1>2, <3>1, <3>2, HeldIsKnown DEF IndInv, StateTypes
  <2> QED  BY <2>1, <1>4, HeldIsKnown DEF Known, IndInv
<1>8. \A y \in Known : y.id \in Nat  BY KnownType DEF IndInv, Entity
<1>9. CASE x \in table /\ nextId' = nextId
  <2>1. Known' \subseteq Known  BY <1>7, <1>9 DEF Known
  <2>2. KeysAreFresh' /\ KeyTellsEvent' /\ MarksWereEarned'
    BY <1>4, <1>9, <2>1, NothingNewIsKnown DEF IndInv
  <2>3. NoEventVanishes'
    BY <1>2, <1>4, LiveStays DEF IndInv, NoEventVanishes, Entities
  <2> QED  BY <1>5, <1>6, <2>2, <2>3 DEF IndInv
<1>10. CASE x.id = nextId /\ ~ x.reprocessed /\ nextId' = nextId + 1
  <2>1. KeysAreFresh'
    BY <1>7, <1>8, <1>10 DEF KeysAreFresh, IndInv, StateTypes
  <2>2. KeyTellsEvent'
    BY <1>7, <1>8, <1>10 DEF KeysAreFresh, KeyTellsEvent, IndInv, StateTypes
  <2>3. MarksWereEarned'
    BY <1>4, <1>7, <1>10 DEF MarksWereEarned, IndInv
  <2>4. NoEventVanishes'
    BY <1>2, <1>4, LiveStays DEF IndInv, NoEventVanishes, Entities
  <2> QED  BY <1>5, <1>6, <2>1, <2>2, <2>3, <2>4 DEF IndInv
<1> QED  BY <1>2, <1>9, <1>10

(* addToDLQ writes the entity it holds over whatever has that key by now.  *)
LEMMA AddSavesStep ==
  ASSUME IndInv, NEW w \in Worker, AddSaves(w)
  PROVE  IndInv'
<1> DEFINE x == worker[w].entity
           e == worker[w].event
<1>1. worker[w].event \in Event /\ x \in Entity
  <2>1. worker[w] \in WorkerState /\ worker[w].pc = "save"
    BY DEF IndInv, StateTypes, AddSaves
  <2> QED  BY <2>1 DEF WorkerState, Resting
<1>2. x \in Known /\ x.event = e
  BY HeldIsKnown DEF IndInv, AddSaves, HoldsItsOwn
<1>3. table' \subseteq table \cup {x}  BY DEF AddSaves, Saved
<1>4. StateTypes'
  BY <1>1, <1>3 DEF IndInv, StateTypes, AddSaves, WorkerState
<1>5. HoldsItsOwn'
  BY DEF IndInv, StateTypes, HoldsItsOwn, AddSaves, Resting
<1>6. Known' \subseteq Known
  <2>1. Resting \in WorkerState /\ Resting.pc # "save"  BY DEF WorkerState, Resting
  <2>2. table' \subseteq Known  BY <1>2, <1>3 DEF Known
  <2> QED  BY <2>1, <2>2, WorkerMoves DEF IndInv, AddSaves
<1>7. KeysAreFresh' /\ KeyTellsEvent' /\ MarksWereEarned'
  BY <1>6, NothingNewIsKnown DEF IndInv, AddSaves
<1>8. NoEventVanishes'
  <2> SUFFICES ASSUME NEW f \in arrived
               PROVE  Live(f)' \/ f \in stored \/ Entities(f)' # {} \/ f \in gone'
    BY DEF NoEventVanishes, AddSaves
  <2>1. CASE f = e \/ Entities(f) # {}
    BY <2>1, <1>2, SavedKeepsEntries DEF IndInv, AddSaves
  <2>2. CASE f # e /\ Live(f)
    BY <2>2, LiveStays DEF IndInv, AddSaves
  <2>3. CASE f # e /\ (f \in stored \/ f \in gone)
    BY <2>3 DEF AddSaves
  <2> QED  BY <2>1, <2>2, <2>3 DEF IndInv, NoEventVanishes
<1> QED  BY <1>4, <1>5, <1>7, <1>8 DEF IndInv

(* addToDLQ gives up: because an entry of its event is there already, or   *)
(* with the event in the log.                                              *)
LEMMA AddGivesUpStep ==
  ASSUME IndInv, NEW w \in Worker, AddRefused(w) \/ AddFails(w)
  PROVE  IndInv'
<1>1. Resting \in WorkerState /\ Resting.pc = "idle"  BY DEF WorkerState, Resting
<1>2. worker[w].event \in Event
  BY DEF IndInv, StateTypes, WorkerState, Resting, AddRefused, AddFails
<1>3. /\ worker' = [worker EXCEPT ![w] = Resting]
      /\ gone \subseteq gone' /\ gone' \subseteq Event
      /\ UNCHANGED <<arrived, queue, request, stored, table, nextId, runs>>
  BY <1>2 DEF AddRefused, AddFails, IndInv, StateTypes
<1>4. StateTypes'  BY <1>1, <1>3 DEF IndInv, StateTypes
<1>5. HoldsItsOwn'
  BY <1>1, <1>3 DEF IndInv, StateTypes, HoldsItsOwn
<1>6. Known' \subseteq Known
  BY <1>1, <1>3, WorkerMoves DEF IndInv, Known
<1>7. KeysAreFresh' /\ KeyTellsEvent' /\ MarksWereEarned'
  BY <1>3, <1>6, NothingNewIsKnown DEF IndInv
<1>8. NoEventVanishes'
  <2> SUFFICES ASSUME NEW f \in arrived, Live(f)
               PROVE  Live(f)' \/ Entities(f) # {} \/ f \in gone'
    BY <1>3 DEF NoEventVanishes, IndInv, Entities
  <2>1. CASE f # worker[w].event
    BY <2>1, <1>3, LiveStays DEF IndInv
  <2>2. CASE f = worker[w].event /\ AddRefused(w)
    BY <2>2 DEF AddRefused, CanSave, IndInv, HoldsItsOwn
  <2>3. CASE f = worker[w].event /\ AddFails(w)
    BY <2>3 DEF AddFails
  <2> QED  BY <2>1, <2>2, <2>3
<1> QED  BY <1>4, <1>5, <1>7, <1>8 DEF IndInv

(* A pending entry's event is put back, and the request holds the entry    *)
(* with a mark: by now one that was earned.                                *)
LEMMA ReprocessEnqueuesStep ==
  ASSUME IndInv, NEW r \in Request, ReprocessEnqueues(r)
  PROVE  IndInv'
<1>0. PICK row : row = request[r].entity  OBVIOUS
<1> DEFINE x == [row EXCEPT !.reprocessed = TRUE]
           v == [pc |-> "mark", entity |-> x]
<1>1. row \in Entity /\ row \in Known
  BY <1>0, HeldIsKnown, KnownType DEF IndInv, ReprocessEnqueues
<1>2. x \in Entity /\ x.id = row.id /\ x.event = row.event
  BY <1>1 DEF Entity
<1>3. v \in RequestState  BY <1>2 DEF RequestState
<1>4. /\ request' = [request EXCEPT ![r] = v]
      /\ queue' = Append(queue, row.event)
      /\ runs' = [runs EXCEPT ![row.event] = @ + 1] /\ runs[row.event] < MaxRuns
      /\ gone' = gone \ {row.event}
      /\ UNCHANGED <<arrived, worker, stored, table, nextId>>
  BY <1>0, <1>2 DEF ReprocessEnqueues
<1>5. Len(queue') = Len(queue) + 1 /\ queue' \in Seq(Event)
      /\ queue'[Len(queue) + 1] = row.event /\ \A i \in 1 .. Len(queue) : queue'[i] = queue[i]
  BY <1>1, <1>4 DEF IndInv, StateTypes, Entity
<1>6. Len(queue) < MaxSize  BY DEF ReprocessEnqueues, HasRoom
<1>7. runs' \in [Event -> 0 .. MaxRuns] /\ runs'[row.event] > 0
      /\ \A f \in Event : runs[f] > 0 => runs'[f] > 0
  BY <1>1, <1>4, DlqAssumption DEF IndInv, StateTypes, Entity
<1>8. StateTypes'
  BY <1>3, <1>4, <1>5, <1>6, <1>7, DlqAssumption DEF IndInv, StateTypes
<1>9. HoldsItsOwn'  BY <1>4 DEF IndInv, HoldsItsOwn
<1>10. Known' \subseteq Known \cup {x}
  <2> SUFFICES ASSUME NEW y \in Known', y # x PROVE y \in Known
    OBVIOUS
  <2>1. CASE \E u \in Request : request'[u].pc # "idle" /\ request'[u].entity = y
    <3>1. PICK u \in Request : request'[u].pc # "idle" /\ request'[u].entity = y
      BY <2>1
    <3>2. u # r  BY <1>4, <3>1 DEF IndInv, StateTypes
    <3> QED  BY <1>4, <3>1, <3>2, HeldIsKnown DEF IndInv, StateTypes
  <2> QED  BY <2>1, <1>4, HeldIsKnown DEF Known, IndInv
<1> HIDE DEF x
<1>11. KeysAreFresh' /\ KeyTellsEvent'
  BY <1>1, <1>2, <1>4, <1>10 DEF IndInv, KeysAreFresh, KeyTellsEvent
<1>12. MarksWereEarned'
  BY <1>1, <1>2, <1>7, <1>10, KnownType DEF IndInv, MarksWereEarned, Entity
<1>13. NoEventVanishes'
  <2> SUFFICES ASSUME NEW f \in arrived
               PROVE  Live(f)' \/ f \in stored \/ Entities(f) # {} \/ f \in gone'
    BY <1>4 DEF NoEventVanishes, Entities
  <2>1. CASE f = row.event
    BY <2>1, <1>5 DEF Live, IndInv, StateTypes
  <2>2. CASE f # row.event
    <3>1. ASSUME NEW i \in DOMAIN queue PROVE i \in DOMAIN queue' /\ queue'[i] = queue[i]
      <4>1. queue \in Seq(Event)  BY DEF IndInv, StateTypes
      <4>2. i \in 1 .. Len(queue) /\ Len(queue) \in Nat  BY <4>1, LenProperties
      <4>3. DOMAIN queue' = 1 .. Len(queue')  BY <1>5, LenProperties
      <4> QED  BY <4>2, <4>3, <1>5
    <3>2. Live(f) => Live(f)'
      BY <1>4, <3>1 DEF Live
    <3> QED  BY <2>2, <3>2, <1>4 DEF IndInv, NoEventVanishes
  <2> QED  BY <2>1, <2>2
<1> QED  BY <1>8, <1>9, <1>11, <1>12, <1>13 DEF IndInv

(* The mark is written over whatever has that key by now.                  *)
LEMMA ReprocessMarksStep ==
  ASSUME IndInv, NEW r \in Request, ReprocessMarks(r)
  PROVE  IndInv'
<1> DEFINE x == request[r].entity
<1>1. x \in Entity
  <2>1. request[r] \in RequestState /\ request[r].pc = "mark"
    BY DEF IndInv, StateTypes, ReprocessMarks
  <2> QED  BY <2>1 DEF RequestState, Resting
<1>2. x \in Known
  BY HeldIsKnown DEF IndInv, ReprocessMarks
<1>3. table' \subseteq table \cup {x}  BY DEF ReprocessMarks, Saved
<1>4. Resting \in RequestState /\ Resting.pc = "idle"  BY DEF RequestState, Resting
<1>5. StateTypes'
  BY <1>1, <1>3, <1>4 DEF IndInv, StateTypes, ReprocessMarks
<1>6. HoldsItsOwn'
  BY DEF IndInv, HoldsItsOwn, ReprocessMarks
<1>7. Known' \subseteq Known
  <2>1. table' \subseteq Known  BY <1>2, <1>3 DEF Known
  <2> QED  BY <2>1, <1>4, RequestMoves DEF IndInv, ReprocessMarks
<1>8. KeysAreFresh' /\ KeyTellsEvent' /\ MarksWereEarned'
  BY <1>7, NothingNewIsKnown DEF IndInv, ReprocessMarks
<1>9. NoEventVanishes'
  <2> SUFFICES ASSUME NEW f \in arrived
               PROVE  Live(f)' \/ f \in stored \/ Entities(f)' # {} \/ f \in gone'
    BY DEF NoEventVanishes, ReprocessMarks
  <2>1. CASE f = x.event \/ Entities(f) # {}
    BY <2>1, <1>2, SavedKeepsEntries DEF IndInv, ReprocessMarks
  <2>2. CASE Live(f)
    BY <2>2 DEF Live, ReprocessMarks
  <2>3. CASE f # x.event /\ (f \in stored \/ f \in gone)
    BY <2>3 DEF ReprocessMarks
  <2> QED  BY <2>1, <2>2, <2>3 DEF IndInv, NoEventVanishes
<1> QED  BY <1>5, <1>6, <1>8, <1>9 DEF IndInv

(* findOne has answered: the request holds the row.                        *)
LEMMA RequestFindsStep ==
  ASSUME IndInv, NEW r \in Request, NEW row \in table,
         ReprocessFinds(r, row) \/ DeleteFinds(r, row)
  PROVE  IndInv'
<1>0. PICK pc \in {"enqueue", "remove"} :
        request' = [request EXCEPT ![r] = [pc |-> pc, entity |-> row]]
  BY DEF ReprocessFinds, DeleteFinds
<1> DEFINE v == [pc |-> pc, entity |-> row]
<1>1. v \in RequestState /\ row \in Known
  BY DEF IndInv, StateTypes, RequestState, Known
<1>7. UNCHANGED <<arrived, queue, worker, stored, table, nextId, gone, runs>>
  BY DEF ReprocessFinds, DeleteFinds
<1>2. StateTypes'
  BY <1>0, <1>1, <1>7 DEF IndInv, StateTypes
<1>3. HoldsItsOwn'
  BY <1>7 DEF IndInv, HoldsItsOwn
<1>4. Known' \subseteq Known
  BY <1>0, <1>1, <1>7, RequestMoves DEF IndInv, Known
<1>5. KeysAreFresh' /\ KeyTellsEvent' /\ MarksWereEarned'
  BY <1>4, <1>7, NothingNewIsKnown DEF IndInv
<1>6. NoEventVanishes'
  BY <1>7 DEF IndInv, NoEventVanishes, Live, Entities
<1> QED  BY <1>2, <1>3, <1>5, <1>6 DEF IndInv

(* The row of that key is removed: the only entry it takes away is that of *)
(* the event the administrator saw.                                        *)
LEMMA DeleteRemovesStep ==
  ASSUME IndInv, NEW r \in Request, DeleteRemoves(r)
  PROVE  IndInv'
<1> DEFINE x == request[r].entity
<1>1. x \in Entity
  <2>1. request[r] \in RequestState /\ request[r].pc = "remove"
    BY DEF IndInv, StateTypes, DeleteRemoves
  <2> QED  BY <2>1 DEF RequestState, Resting
<1>2. x \in Known
  BY HeldIsKnown DEF IndInv, DeleteRemoves
<1>3. Resting \in RequestState /\ Resting.pc = "idle"  BY DEF RequestState, Resting
<1>4. gone \subseteq gone' /\ gone' \subseteq gone \cup {x.event}
  BY DEF DeleteRemoves
<1>5. StateTypes'
  <2>1. gone' \subseteq Event  BY <1>1, <1>4 DEF Entity, IndInv, StateTypes
  <2> QED  BY <2>1, <1>3 DEF IndInv, StateTypes, DeleteRemoves
<1>6. HoldsItsOwn'
  BY DEF IndInv, HoldsItsOwn, DeleteRemoves
<1>7. Known' \subseteq Known
  <2>1. table' \subseteq Known  BY DEF DeleteRemoves, Known
  <2> QED  BY <2>1, <1>3, RequestMoves DEF IndInv, DeleteRemoves
<1>8. KeysAreFresh' /\ KeyTellsEvent' /\ MarksWereEarned'
  BY <1>7, NothingNewIsKnown DEF IndInv, DeleteRemoves
<1>9. NoEventVanishes'
  <2> SUFFICES ASSUME NEW f \in arrived
               PROVE  Live(f)' \/ f \in stored \/ Entities(f)' # {} \/ f \in gone'
    BY DEF NoEventVanishes, DeleteRemoves
  <2>1. CASE Entities(f) # {}
    <3>1. PICK row \in table : row.event = f  BY <2>1 DEF Entities
    <3>2. row \in Known  BY DEF Known
    <3>3. CASE row.id = x.id
      BY <3>1, <3>2, <3>3, <1>2 DEF IndInv, KeyTellsEvent, DeleteRemoves
    <3>4. CASE row.id # x.id
      BY <3>1, <3>4 DEF DeleteRemoves, Entities
    <3> QED  BY <3>3, <3>4
  <2>2. CASE Live(f)
    BY <2>2 DEF Live, DeleteRemoves
  <2>3. CASE f \in stored \/ f \in gone
    BY <2>3, <1>4 DEF DeleteRemoves
  <2> QED  BY <2>1, <2>2, <2>3 DEF IndInv, NoEventVanishes
<1> QED  BY <1>5, <1>6, <1>8, <1>9 DEF IndInv

(* A request whose statement fails ends, and nothing else happens.         *)
LEMMA RequestFailsStep ==
  ASSUME IndInv, NEW r \in Request,
         ReprocessFull(r) \/ ReprocessMarkFails(r) \/ DeleteFails(r)
  PROVE  IndInv'
<1>1. Resting \in RequestState /\ Resting.pc = "idle"  BY DEF RequestState, Resting
<1>2. /\ request' = [request EXCEPT ![r] = Resting]
      /\ UNCHANGED <<arrived, queue, worker, stored, table, nextId, gone, runs>>
  BY DEF ReprocessFull, ReprocessMarkFails, DeleteFails
<1>3. StateTypes'  BY <1>1, <1>2 DEF IndInv, StateTypes
<1>4. HoldsItsOwn'  BY <1>2 DEF IndInv, HoldsItsOwn
<1>5. Known' \subseteq Known
  BY <1>1, <1>2, RequestMoves DEF IndInv, Known
<1>6. KeysAreFresh' /\ KeyTellsEvent' /\ MarksWereEarned'
  BY <1>2, <1>5, NothingNewIsKnown DEF IndInv
<1>7. NoEventVanishes'
  BY <1>2 DEF IndInv, NoEventVanishes, Live, Entities
<1> QED  BY <1>3, <1>4, <1>6, <1>7 DEF IndInv

(* Every step keeps the invariant.                                         *)
LEMMA StepIndInv == IndInv /\ [Next]_vars => IndInv'
<1> SUFFICES ASSUME IndInv, [Next]_vars PROVE IndInv'
  OBVIOUS
<1>1. CASE UNCHANGED vars
  <2>1. UNCHANGED <<arrived, queue, worker, request, stored, table, nextId, gone, runs>>
    BY <1>1 DEF vars
  <2>2. StateTypes' /\ HoldsItsOwn'
    BY <2>1 DEF IndInv, StateTypes, HoldsItsOwn
  <2>3. Known' = Known
    BY <2>1 DEF Known
  <2>4. KeysAreFresh' /\ KeyTellsEvent' /\ MarksWereEarned'
    BY <2>1, <2>3 DEF IndInv, KeysAreFresh, KeyTellsEvent, MarksWereEarned
  <2>5. NoEventVanishes'
    BY <2>1 DEF IndInv, NoEventVanishes, Live, Entities
  <2> QED
    BY <2>2, <2>4, <2>5 DEF IndInv
<1>2. CASE \E e \in Event : Arrive(e)
  BY <1>2, ArriveStep
<1>3. ASSUME NEW w \in Worker,
             \/ Take(w) \/ InsertSucceeds(w) \/ InsertedYetRetried(w) \/ InsertFails(w)
             \/ AddFinds(w) \/ AddSaves(w) \/ AddRefused(w) \/ AddFails(w)
      PROVE  IndInv'
  BY <1>3, TakeStep, InsertEndStep, AddFindsStep, AddSavesStep, AddGivesUpStep
<1>4. ASSUME NEW r \in Request, NEW row \in table,
             ReprocessFinds(r, row) \/ DeleteFinds(r, row)
      PROVE  IndInv'
  BY <1>4, RequestFindsStep
<1>5. ASSUME NEW r \in Request,
             \/ ReprocessEnqueues(r) \/ ReprocessFull(r)
             \/ ReprocessMarks(r) \/ ReprocessMarkFails(r)
             \/ DeleteRemoves(r) \/ DeleteFails(r)
      PROVE  IndInv'
  BY <1>5, ReprocessEnqueuesStep, ReprocessMarksStep, DeleteRemovesStep, RequestFailsStep
<1> QED  BY <1>1, <1>2, <1>3, <1>4, <1>5 DEF Next

--------------------------------------------------------------------------------
(* The refinement.  What the abstract specification sees of a step is what *)
(* it does to the sets of live, kept and marked events.                    *)

(* The unique index: no event has two entries.                             *)
OneEntry == \A x, y \in table : x.event = y.event => x = y

(* A request that is to mark an entity holds it marked.                    *)
MarkIsSet == \A r \in Request : request[r].pc = "mark" => request[r].entity.reprocessed

(* A request that is to put an event back saw an entry of it.              *)
WasKept(e) == Entities(e) # {} \/ e \in gone \/ runs[e] > 0
AskedForKept ==
  \A r \in Request : request[r].pc = "enqueue" => WasKept(request[r].entity.event)

(* A call that goes on, or hands its event from the buffer, leaves the     *)
(* live events what they are; one that ends may take its own away.         *)
LEMMA CallGoesOn ==
  ASSUME StateTypes, NEW w \in Worker, NEW v,
         worker[w].pc # "idle", v.pc # "idle", v.event = worker[w].event,
         worker' = [worker EXCEPT ![w] = v], UNCHANGED queue
  PROVE  LiveEvents' = LiveEvents
<1>1. worker' \in [Worker -> {worker[u] : u \in Worker} \cup {v}]
      /\ worker'[w] = v /\ \A u \in Worker : u # w => worker'[u] = worker[u]
  BY DEF StateTypes
<1>2. ASSUME NEW e, NEW u \in Worker
      PROVE  (worker'[u].pc # "idle" /\ worker'[u].event = e)
               <=> (worker[u].pc # "idle" /\ worker[u].event = e)
  <2>1. CASE u = w  BY <1>1, <2>1
  <2>2. CASE u # w  BY <1>1, <2>2
  <2> QED  BY <2>1, <2>2
<1>3. \A e : Live(e)' <=> Live(e)  BY <1>2 DEF Live
<1> QED  BY <1>3 DEF LiveEvents

(* When a call rests, an attempt at its event has ended.                   *)
LEMMA CallEnds ==
  ASSUME StateTypes, NEW w \in Worker, worker[w].pc # "idle",
         worker' = [worker EXCEPT ![w] = Resting], UNCHANGED queue
  PROVE  /\ worker[w].event \in Event
         /\ Failed!AttemptEnds(worker[w].event)
<1> DEFINE f == worker[w].event
<1>1. f \in Event  BY DEF StateTypes, WorkerState, Resting
<1>2. Live(f)  BY DEF Live
<1>3. Resting.pc = "idle"  BY DEF Resting
<1>4. worker'[w] = Resting /\ \A u \in Worker : u # w => worker'[u] = worker[u]
  BY DEF StateTypes
<1>5. \A e : Live(e)' => Live(e)
  BY <1>3, <1>4 DEF Live
<1>6. \A e : Live(e) /\ e # f => Live(e)'
  BY <1>3, <1>4 DEF Live
<1> HIDE DEF f
<1>7. LiveEvents' = LiveEvents \/ LiveEvents' = LiveEvents \ {f}
  <2>1. CASE Live(f)'  BY <1>2, <1>5, <1>6, <2>1 DEF LiveEvents
  <2>2. CASE ~ Live(f)'  BY <1>5, <1>6, <2>2 DEF LiveEvents
  <2> QED  BY <2>1, <2>2
<1>8. f \in LiveEvents  BY <1>1, <1>2 DEF LiveEvents
<1> QED  BY <1>1, <1>7, <1>8 DEF Failed!AttemptEnds, f

(* An event that comes into the buffer is live.                            *)
LEMMA Enqueued ==
  ASSUME StateTypes, NEW f \in Event, queue' = Append(queue, f), UNCHANGED worker
  PROVE  LiveEvents' = LiveEvents \cup {f}
<1>1. /\ Len(queue) \in Nat /\ DOMAIN queue = 1 .. Len(queue)
      /\ DOMAIN queue' = 1 .. Len(queue) + 1
      /\ queue'[Len(queue) + 1] = f
      /\ \A i \in 1 .. Len(queue) : queue'[i] = queue[i]
  BY AppendProperties, LenProperties DEF StateTypes
<1>2. 1 .. Len(queue) + 1 = 1 .. Len(queue) \cup {Len(queue) + 1}  BY <1>1
<1>3. \A e : (\E i \in DOMAIN queue' : queue'[i] = e)
               <=> (\E i \in DOMAIN queue : queue[i] = e) \/ e = f
  BY <1>1, <1>2
<1>4. \A e : Live(e)' <=> Live(e) \/ e = f  BY <1>3 DEF Live
<1> QED  BY <1>4 DEF LiveEvents

(* Where neither the buffer nor a call changes, nor the table, nothing is  *)
(* live, kept or marked that was not, and the other way round.             *)
LEMMA SameLive == UNCHANGED <<queue, worker>> => LiveEvents' = LiveEvents
  BY DEF LiveEvents, Live

(* The same of the table.                                                  *)
LEMMA SameEntries ==
  UNCHANGED table => KeptEvents' = KeptEvents /\ MarkedEvents' = MarkedEvents
  BY DEF KeptEvents, MarkedEvents, Entities

(* save(entity) leaves its event with this one entry, and the entries of   *)
(* all other events as they were.                                          *)
LEMMA SavedIsTheEntry ==
  ASSUME StateTypes, KeyTellsEvent, NEW x \in Known, x.event \in Event,
         CanSave(x), table' = Saved(x)
  PROVE  /\ KeptEvents' = KeptEvents \cup {x.event}
         /\ MarkedEvents' = IF x.reprocessed THEN MarkedEvents \cup {x.event}
                                             ELSE MarkedEvents \ {x.event}
<1>1. \A row \in table : row.event # x.event => row.id # x.id
  BY DEF Known, KeyTellsEvent
<1>2. \A e : e # x.event => Entities(e)' = Entities(e)
  BY <1>1 DEF Entities, Saved
<1>3. Entities(x.event)' = {x}
  <2>1. x \in Entities(x.event)'  BY DEF Entities, Saved
  <2>2. \A row \in Entities(x.event)' : row = x  BY DEF Entities, Saved, CanSave
  <2> QED  BY <2>1, <2>2
<1>4. KeptEvents' = KeptEvents \cup {x.event}
  BY <1>2, <1>3 DEF KeptEvents
<1>5. \A e \in Event : e \in MarkedEvents'
        <=> IF e = x.event THEN x.reprocessed ELSE e \in MarkedEvents
  BY <1>2, <1>3 DEF MarkedEvents
<1>6. MarkedEvents \subseteq Event /\ MarkedEvents' \subseteq Event
  BY DEF MarkedEvents
<1> QED  BY <1>4, <1>5, <1>6

(* The writers never break the unique index, since save is refused where   *)
(* it would.                                                               *)
LEMMA OneEntryStep == IndInv /\ OneEntry /\ [Next]_vars => OneEntry'
<1> SUFFICES ASSUME IndInv, OneEntry, [Next]_vars PROVE OneEntry'
  OBVIOUS
<1>1. CASE table' \subseteq table  BY <1>1 DEF OneEntry
<1>2. ASSUME NEW x, CanSave(x), table' = Saved(x) PROVE OneEntry'
  BY <1>2 DEF OneEntry, CanSave, Saved, Entities
<1>3. CASE UNCHANGED vars  BY <1>1, <1>3 DEF vars
<1>4. CASE \E e \in Event : Arrive(e)  BY <1>1, <1>4 DEF Arrive
<1>5. ASSUME NEW w \in Worker,
             \/ Take(w) \/ InsertSucceeds(w) \/ InsertedYetRetried(w) \/ InsertFails(w)
             \/ AddFinds(w) \/ AddRefused(w) \/ AddFails(w)
      PROVE  OneEntry'
  BY <1>1, <1>5
     DEF Take, InsertSucceeds, InsertedYetRetried, InsertFails, AddFinds, AddRefused, AddFails
<1>6. ASSUME NEW w \in Worker, AddSaves(w) PROVE OneEntry'
  BY <1>2, <1>6 DEF AddSaves
<1>7. ASSUME NEW r \in Request, NEW row \in table,
             ReprocessFinds(r, row) \/ DeleteFinds(r, row)
      PROVE  OneEntry'
  BY <1>1, <1>7 DEF ReprocessFinds, DeleteFinds
<1>8. ASSUME NEW r \in Request, ReprocessMarks(r) PROVE OneEntry'
  BY <1>2, <1>8 DEF ReprocessMarks
<1>9. ASSUME NEW r \in Request,
             \/ ReprocessEnqueues(r) \/ ReprocessFull(r)
             \/ ReprocessMarkFails(r) \/ DeleteRemoves(r) \/ DeleteFails(r)
      PROVE  OneEntry'
  BY <1>1, <1>9 DEF ReprocessEnqueues, ReprocessFull, ReprocessMarkFails, DeleteRemoves, DeleteFails
<1> QED  BY <1>3, <1>4, <1>5, <1>6, <1>7, <1>8, <1>9 DEF Next

(* A request gets to hold an entity to mark in one place, which marks it.  *)
LEMMA MarkIsSetStep == IndInv /\ MarkIsSet /\ [Next]_vars => MarkIsSet'
<1> SUFFICES ASSUME IndInv, MarkIsSet, [Next]_vars PROVE MarkIsSet'
  OBVIOUS
<1>1. CASE UNCHANGED request  BY <1>1 DEF MarkIsSet
<1>2. ASSUME NEW r \in Request, NEW v, request' = [request EXCEPT ![r] = v],
             v.pc = "mark" => v.entity.reprocessed
      PROVE  MarkIsSet'
  <2>1. request'[r] = v /\ \A u \in Request : u # r => request'[u] = request[u]
    BY <1>2 DEF IndInv, StateTypes
  <2> QED  BY <1>2, <2>1 DEF MarkIsSet
<1>3. CASE UNCHANGED vars  BY <1>1, <1>3 DEF vars
<1>4. CASE \E e \in Event : Arrive(e)  BY <1>1, <1>4 DEF Arrive
<1>5. ASSUME NEW w \in Worker,
             \/ Take(w) \/ InsertSucceeds(w) \/ InsertedYetRetried(w) \/ InsertFails(w)
             \/ AddFinds(w) \/ AddSaves(w) \/ AddRefused(w) \/ AddFails(w)
      PROVE  MarkIsSet'
  BY <1>1, <1>5
     DEF Take, InsertSucceeds, InsertedYetRetried, InsertFails, AddFinds, AddSaves, AddRefused, AddFails
<1>6. ASSUME NEW r \in Request, ReprocessEnqueues(r)
      PROVE  MarkIsSet'
  <2> DEFINE v == [pc |-> "mark", entity |-> [request[r].entity EXCEPT !.reprocessed = TRUE]]
  <2>1. request[r].entity \in Entity
    BY <1>6, HeldIsKnown, KnownType DEF IndInv, ReprocessEnqueues
  <2>2. v.entity.reprocessed  BY <2>1 DEF Entity
  <2>3. request' = [request EXCEPT ![r] = v]  BY <1>6 DEF ReprocessEnqueues
  <2> HIDE DEF v
  <2> QED  BY <1>2, <2>2, <2>3
<1>7. ASSUME NEW r \in Request, NEW row \in table,
             ReprocessFinds(r, row) \/ DeleteFinds(r, row)
      PROVE  MarkIsSet'
  BY <1>2, <1>7 DEF ReprocessFinds, DeleteFinds
<1>8. ASSUME NEW r \in Request,
             \/ ReprocessFull(r) \/ ReprocessMarks(r) \/ ReprocessMarkFails(r)
             \/ DeleteRemoves(r) \/ DeleteFails(r)
      PROVE  MarkIsSet'
  <2>1. Resting.pc # "mark"  BY DEF Resting
  <2> QED
    BY <1>2, <1>8, <2>1
       DEF ReprocessFull, ReprocessMarks, ReprocessMarkFails, DeleteRemoves, DeleteFails
<1> QED  BY <1>3, <1>4, <1>5, <1>6, <1>7, <1>8 DEF Next

(* An entry that goes leaves its event among those let go, and one that is *)
(* put back from there counts as put back for ever.                        *)
LEMMA WasKeptStays ==
  ASSUME IndInv, [Next]_vars, NEW f \in Event, WasKept(f)
  PROVE  WasKept(f)'
<1>1. /\ KeyTellsEvent
      /\ \A r \in Request : request[r].pc # "idle" => request[r].entity \in Known
      /\ \A w \in Worker : worker[w].pc = "save" => worker[w].entity \in Known
  BY HeldIsKnown DEF IndInv
<1>2. CASE UNCHANGED <<table, gone, runs>>
  BY <1>2 DEF WasKept, Entities
<1>3. CASE UNCHANGED <<table, runs>> /\ gone \subseteq gone'
  BY <1>3 DEF WasKept, Entities
<1>4. ASSUME NEW x \in Known, table' = Saved(x), UNCHANGED runs, gone' = gone \ {x.event}
      PROVE  WasKept(f)'
  <2>1. Entities(f) # {} \/ f = x.event => Entities(f)' # {}
    BY <1>1, <1>4, SavedKeepsEntries DEF IndInv
  <2> QED  BY <1>4, <2>1 DEF WasKept
<1>5. CASE UNCHANGED vars  BY <1>2, <1>5 DEF vars
<1>6. CASE \E e \in Event : Arrive(e)  BY <1>2, <1>6 DEF Arrive
<1>7. ASSUME NEW w \in Worker,
             \/ Take(w) \/ InsertSucceeds(w) \/ InsertedYetRetried(w) \/ InsertFails(w)
             \/ AddFinds(w) \/ AddRefused(w) \/ AddFails(w)
      PROVE  WasKept(f)'
  BY <1>2, <1>3, <1>7
     DEF Take, InsertSucceeds, InsertedYetRetried, InsertFails, AddFinds, AddRefused, AddFails
<1>8. ASSUME NEW w \in Worker, AddSaves(w) PROVE WasKept(f)'
  <2>1. worker[w].entity.event = worker[w].event
    BY <1>8 DEF AddSaves, IndInv, HoldsItsOwn
  <2> QED  BY <1>1, <1>4, <1>8, <2>1 DEF AddSaves
<1>9. ASSUME NEW r \in Request,
             \/ \E row \in table : ReprocessFinds(r, row) \/ DeleteFinds(r, row)
             \/ ReprocessFull(r) \/ ReprocessMarkFails(r) \/ DeleteFails(r)
      PROVE  WasKept(f)'
  BY <1>2, <1>9 DEF ReprocessFinds, DeleteFinds, ReprocessFull, ReprocessMarkFails, DeleteFails
<1>10. ASSUME NEW r \in Request, ReprocessMarks(r) PROVE WasKept(f)'
  BY <1>1, <1>4, <1>10 DEF ReprocessMarks
<1>11. ASSUME NEW r \in Request, ReprocessEnqueues(r) PROVE WasKept(f)'
  <2>1. PICK e : e = request[r].entity.event  OBVIOUS
  <2>2. runs \in [Event -> 0 .. MaxRuns]  BY DEF IndInv, StateTypes
  <2>3. /\ runs' = [runs EXCEPT ![e] = @ + 1] /\ gone' = gone \ {e} /\ UNCHANGED table
    BY <1>11, <2>1 DEF ReprocessEnqueues
  <2>4. CASE f = e
    BY <2>2, <2>3, <2>4, DlqAssumption DEF WasKept
  <2>5. CASE f # e
    BY <2>2, <2>3, <2>5 DEF WasKept, Entities
  <2> QED  BY <2>4, <2>5
<1>12. ASSUME NEW r \in Request, DeleteRemoves(r) PROVE WasKept(f)'
  <2>1. PICK x : x = request[r].entity  OBVIOUS
  <2>2. x \in Known  BY <1>1, <1>12, <2>1 DEF DeleteRemoves
  <2>3. /\ table' = {row \in table : row.id # x.id} /\ UNCHANGED runs /\ gone \subseteq gone'
        /\ \A row \in table : row.id = x.id => x.event \in gone'
    BY <1>12, <2>1 DEF DeleteRemoves
  <2>4. CASE Entities(f) # {}
    <3>1. PICK row \in table : row.event = f  BY <2>4 DEF Entities
    <3>2. row \in Known  BY DEF Known
    <3>3. CASE row.id = x.id
      BY <1>1, <2>2, <2>3, <3>1, <3>2, <3>3 DEF KeyTellsEvent, WasKept
    <3>4. CASE row.id # x.id
      BY <2>3, <3>1, <3>4 DEF WasKept, Entities
    <3> QED  BY <3>3, <3>4
  <2>5. CASE f \in gone \/ runs[f] > 0
    BY <2>3, <2>5 DEF WasKept
  <2> QED  BY <2>4, <2>5 DEF WasKept
<1> QED
  BY <1>5, <1>6, <1>7, <1>8, <1>9, <1>10, <1>11, <1>12 DEF Next

(* A request takes an event to put back only from a row it has found.      *)
LEMMA AskedForKeptStep == IndInv /\ AskedForKept /\ [Next]_vars => AskedForKept'
<1> SUFFICES ASSUME IndInv, AskedForKept, [Next]_vars, NEW r \in Request, NEW e,
                    request'[r].pc = "enqueue", e = request'[r].entity.event
             PROVE  WasKept(e)'
  BY DEF AskedForKept
<1>1. CASE request'[r] = request[r]
  <2>1. e \in Event  BY <1>1, HeldIsKnown, KnownType DEF IndInv, Entity
  <2>2. WasKept(e)  BY <1>1 DEF AskedForKept
  <2> QED  BY <2>1, <2>2, WasKeptStays
<1>2. CASE request'[r] # request[r]
  <2>1. Resting.pc # "enqueue"  BY DEF Resting
  <2>2. \E row \in table : ReprocessFinds(r, row)
    <3>1. \E u \in Request : \/ \E row \in table : ReprocessFinds(u, row) \/ DeleteFinds(u, row)
                            \/ ReprocessEnqueues(u) \/ ReprocessFull(u)
                            \/ ReprocessMarks(u) \/ ReprocessMarkFails(u)
                            \/ DeleteRemoves(u) \/ DeleteFails(u)
      BY <1>2 DEF Next, vars, Arrive, Take, InsertSucceeds, InsertedYetRetried, InsertFails,
                  AddFinds, AddSaves, AddRefused, AddFails
    <3>2. PICK u \in Request : \/ \E row \in table : ReprocessFinds(u, row) \/ DeleteFinds(u, row)
                               \/ ReprocessEnqueues(u) \/ ReprocessFull(u)
                               \/ ReprocessMarks(u) \/ ReprocessMarkFails(u)
                               \/ DeleteRemoves(u) \/ DeleteFails(u)
      BY <3>1
    <3>3. PICK v : request' = [request EXCEPT ![u] = v]
      BY <3>2 DEF ReprocessFinds, DeleteFinds, ReprocessEnqueues, ReprocessFull, ReprocessMarks,
                  ReprocessMarkFails, DeleteRemoves, DeleteFails
    <3>4. u = r /\ request'[r] = v  BY <1>2, <3>3 DEF IndInv, StateTypes
    <3>5. request \in [Request -> RequestState]  BY DEF IndInv, StateTypes
    <3>6. CASE ReprocessEnqueues(u) \/ \E row \in table : DeleteFinds(u, row)
      BY <3>4, <3>5, <3>6 DEF ReprocessEnqueues, DeleteFinds
    <3>7. CASE \/ ReprocessFull(u) \/ ReprocessMarks(u) \/ ReprocessMarkFails(u)
               \/ DeleteRemoves(u) \/ DeleteFails(u)
      BY <2>1, <3>4, <3>5, <3>7
         DEF ReprocessFull, ReprocessMarks, ReprocessMarkFails, DeleteRemoves, DeleteFails
    <3> QED  BY <3>2, <3>4, <3>6, <3>7
  <2>3. PICK row \in table : ReprocessFinds(r, row)  BY <2>2
  <2>4. request'[r].entity = row /\ table' = table
    BY <2>3 DEF ReprocessFinds, IndInv, StateTypes
  <2>5. Entities(e)' # {}  BY <2>4 DEF Entities
  <2> QED  BY <2>5 DEF WasKept
<1> QED  BY <1>1, <1>2

(* A new arrival is live, and nothing else.                                *)
LEMMA ArriveRefines ==
  ASSUME IndInv, NEW e \in Event, Arrive(e)
  PROVE  Failed!Next
<1>1. LiveEvents' = LiveEvents \cup {e}
  BY Enqueued DEF Arrive, IndInv
<1>2. KeptEvents' = KeptEvents /\ MarkedEvents' = MarkedEvents
  BY SameEntries DEF Arrive
<1>3. Failed!Arrive(e)  BY <1>1, <1>2 DEF Failed!Arrive, Arrive
<1> QED  BY <1>3 DEF Failed!Next

(* An event that is drained goes from the buffer to the call that took it: *)
(* it is as live as before.                                                *)
LEMMA TakeRefines ==
  ASSUME IndInv, NEW w \in Worker, Take(w)
  PROVE  UNCHANGED Failed!vars
<1>1. queue \in Seq(Event) /\ queue # << >>  BY DEF IndInv, StateTypes, Take
<1>2. /\ Len(queue) \in Nat \ {0} /\ DOMAIN queue = 1 .. Len(queue)
      /\ DOMAIN queue' = 1 .. Len(queue) - 1
      /\ Head(queue) = queue[1]
      /\ \A i \in 1 .. Len(queue) - 1 : queue'[i] = queue[i + 1]
  <2>1. Len(queue) \in Nat /\ DOMAIN queue = 1 .. Len(queue)  BY <1>1, LenProperties
  <2>2. Len(queue) # 0  BY <1>1, EmptySeq
  <2>3. Tail(queue) \in Seq(Event) /\ Len(Tail(queue)) = Len(queue) - 1
        /\ \A i \in 1 .. Len(Tail(queue)) : Tail(queue)[i] = queue[i + 1]
    BY <1>1, HeadTailProperties
  <2>4. DOMAIN Tail(queue) = 1 .. Len(queue) - 1  BY <2>3, LenProperties
  <2> QED  BY <1>1, <2>1, <2>2, <2>3, <2>4 DEF Take
<1>3. ASSUME NEW e
      PROVE  (\E i \in DOMAIN queue : queue[i] = e)
               <=> (\E i \in DOMAIN queue' : queue'[i] = e) \/ e = Head(queue)
  <2>1. ASSUME NEW i \in 1 .. Len(queue), i # 1
        PROVE  i - 1 \in 1 .. Len(queue) - 1 /\ i = (i - 1) + 1
    BY <1>2, <2>1
  <2>2. ASSUME NEW i \in 1 .. Len(queue), queue[i] = e, i # 1
        PROVE  \E j \in 1 .. Len(queue) - 1 : queue'[j] = e
    <3>1. queue'[i - 1] = queue[(i - 1) + 1]  BY <1>2, <2>1, <2>2
    <3> QED  BY <2>1, <2>2, <3>1
  <2>3. \A j \in 1 .. Len(queue) - 1 : j + 1 \in 1 .. Len(queue)  BY <1>2
  <2>4. 1 \in 1 .. Len(queue)  BY <1>2
  <2> QED  BY <1>2, <2>2, <2>3, <2>4
<1>4. worker[w].pc = "idle" /\ worker'[w].pc # "idle" /\ worker'[w].event = Head(queue)
      /\ \A u \in Worker : u # w => worker'[u] = worker[u]
  BY DEF IndInv, StateTypes, Take
<1>5. \A e : (\E u \in Worker : worker'[u].pc # "idle" /\ worker'[u].event = e)
        <=> (\E u \in Worker : worker[u].pc # "idle" /\ worker[u].event = e) \/ e = Head(queue)
  BY <1>4
<1>6. \A e : Live(e)' <=> Live(e)  BY <1>3, <1>5 DEF Live
<1>7. LiveEvents' = LiveEvents  BY <1>6 DEF LiveEvents
<1>8. KeptEvents' = KeptEvents /\ MarkedEvents' = MarkedEvents
  BY SameEntries DEF Take
<1> QED  BY <1>7, <1>8 DEF Failed!vars, Take

(* The insertion's end: the event is stored and its attempt over, or the   *)
(* attempt goes on to addToDLQ, with the event stored or not.              *)
LEMMA InsertEndRefines ==
  ASSUME IndInv, NEW w \in Worker,
         InsertSucceeds(w) \/ InsertedYetRetried(w) \/ InsertFails(w)
  PROVE  [Failed!Next]_Failed!vars
<1> DEFINE f == worker[w].event
<1>1. worker[w] \in [pc : {"insert"}, event : Event]
  BY DEF IndInv, StateTypes, WorkerState, Resting, InsertSucceeds, InsertedYetRetried, InsertFails
<1>2. f \in Event /\ worker[w].pc # "idle"  BY <1>1
<1>3. KeptEvents' = KeptEvents /\ MarkedEvents' = MarkedEvents
  BY SameEntries DEF InsertSucceeds, InsertedYetRetried, InsertFails
<1>4. CASE InsertSucceeds(w)
  <2>1. Failed!AttemptEnds(f)  BY <1>2, <1>4, CallEnds DEF InsertSucceeds, IndInv
  <2>2. Failed!Store(f)  BY <1>3, <1>4, <2>1 DEF Failed!Store, InsertSucceeds
  <2> QED  BY <1>2, <2>2 DEF Failed!Next
<1>5. ASSUME InsertedYetRetried(w) \/ InsertFails(w) PROVE LiveEvents' = LiveEvents
  <2>1. [worker[w] EXCEPT !.pc = "find"] = [pc |-> "find", event |-> f]  BY <1>1
  <2>2. worker' = [worker EXCEPT ![w] = [pc |-> "find", event |-> f]] /\ UNCHANGED queue
    BY <1>5, <2>1 DEF InsertedYetRetried, InsertFails
  <2> QED  BY <1>2, <2>2, CallGoesOn DEF IndInv
<1>6. CASE InsertedYetRetried(w)
  <2>1. f \in LiveEvents  BY <1>2 DEF LiveEvents, Live
  <2>2. Failed!AttemptEnds(f)  BY <1>5, <1>6, <2>1 DEF Failed!AttemptEnds
  <2>3. Failed!Store(f)  BY <1>3, <1>6, <2>2 DEF Failed!Store, InsertedYetRetried
  <2> QED  BY <1>2, <2>3 DEF Failed!Next
<1>7. CASE InsertFails(w)
  BY <1>3, <1>5, <1>7 DEF Failed!vars, InsertFails
<1> QED  BY <1>4, <1>6, <1>7

(* findOne's answer moves nothing that the abstract specification sees.    *)
LEMMA AddFindsRefines ==
  ASSUME IndInv, NEW w \in Worker, AddFinds(w)
  PROVE  UNCHANGED Failed!vars
<1>1. PICK x : worker' = [worker EXCEPT ![w] =
                 [pc |-> "save", event |-> worker[w].event, entity |-> x]]
  BY DEF AddFinds
<1>2. worker[w].pc # "idle"  BY DEF AddFinds
<1>3. LiveEvents' = LiveEvents
  BY <1>1, <1>2, CallGoesOn DEF IndInv, AddFinds
<1>4. KeptEvents' = KeptEvents /\ MarkedEvents' = MarkedEvents
  BY SameEntries DEF AddFinds
<1> QED  BY <1>3, <1>4 DEF Failed!vars, AddFinds

(* addToDLQ's end: its event is kept, was kept before, or is let go.       *)
LEMMA AddEndRefines ==
  ASSUME IndInv, NEW w \in Worker, AddSaves(w) \/ AddRefused(w) \/ AddFails(w)
  PROVE  Failed!Next
<1> DEFINE f == worker[w].event
<1>1. worker[w].pc # "idle" /\ worker' = [worker EXCEPT ![w] = Resting] /\ UNCHANGED queue
  BY DEF AddSaves, AddRefused, AddFails
<1>2. f \in Event /\ Failed!AttemptEnds(f)
  BY <1>1, CallEnds DEF IndInv
<1>3. CASE AddSaves(w)
  <2> DEFINE x == worker[w].entity
  <2>1. x \in Known /\ x.event = f
    BY <1>3, HeldIsKnown DEF IndInv, AddSaves, HoldsItsOwn
  <2>2. /\ KeptEvents' = KeptEvents \cup {f}
        /\ MarkedEvents' = IF x.reprocessed THEN MarkedEvents \cup {f}
                                            ELSE MarkedEvents \ {f}
    BY <1>2, <1>3, <2>1, SavedIsTheEntry DEF IndInv, AddSaves
  <2>3. x.reprocessed => runs[f] > 0
    BY <2>1 DEF IndInv, MarksWereEarned
  <2>4. UNCHANGED <<arrived, stored, runs>> /\ gone' = gone \ {f}
    BY <1>3 DEF AddSaves
  <2>5. Failed!Keep(f)
    BY <1>2, <2>2, <2>3, <2>4 DEF Failed!Keep
  <2> QED  BY <1>2, <2>5 DEF Failed!Next
<1>4. ASSUME AddRefused(w) \/ AddFails(w)
      PROVE  KeptEvents' = KeptEvents /\ MarkedEvents' = MarkedEvents
  BY <1>4, SameEntries DEF AddRefused, AddFails
<1>5. CASE AddRefused(w)
  <2>1. f \in KeptEvents
    BY <1>2, <1>5 DEF AddRefused, CanSave, IndInv, HoldsItsOwn, KeptEvents
  <2>2. Failed!KeptBefore(f)
    BY <1>2, <1>4, <1>5, <2>1 DEF Failed!KeptBefore, AddRefused
  <2> QED  BY <1>2, <2>2 DEF Failed!Next
<1>6. CASE AddFails(w)
  <2>1. Failed!LetGo(f)
    BY <1>2, <1>4, <1>6 DEF Failed!LetGo, AddFails
  <2> QED  BY <1>2, <2>1 DEF Failed!Next
<1> QED  BY <1>3, <1>5, <1>6

(* reprocessEvent puts an event back that it saw kept.                     *)
LEMMA ReprocessEnqueuesRefines ==
  ASSUME IndInv, AskedForKept, NEW r \in Request, ReprocessEnqueues(r)
  PROVE  Failed!Next
<1>0. PICK f : f = request[r].entity.event  OBVIOUS
<1>1. f \in Event
  BY <1>0, HeldIsKnown, KnownType DEF IndInv, ReprocessEnqueues, Entity
<1>2. f \in KeptEvents \cup gone \/ runs[f] > 0
  BY <1>0, <1>1 DEF ReprocessEnqueues, AskedForKept, WasKept, KeptEvents
<1>6. /\ queue' = Append(queue, f) /\ runs' = [runs EXCEPT ![f] = @ + 1]
      /\ gone' = gone \ {f} /\ UNCHANGED <<arrived, worker, stored, table>>
  BY <1>0 DEF ReprocessEnqueues
<1>3. LiveEvents' = LiveEvents \cup {f}
  BY <1>1, <1>6, Enqueued DEF IndInv
<1>4. KeptEvents' = KeptEvents /\ MarkedEvents' = MarkedEvents
  BY <1>6, SameEntries
<1>5. Failed!PutBack(f)
  BY <1>2, <1>3, <1>4, <1>6 DEF Failed!PutBack
<1> QED  BY <1>1, <1>5 DEF Failed!Next

(* The mark it saves was earned.                                           *)
LEMMA ReprocessMarksRefines ==
  ASSUME IndInv, MarkIsSet, NEW r \in Request, ReprocessMarks(r)
  PROVE  Failed!Next
<1> DEFINE x == request[r].entity
           f == x.event
<1>1. x \in Known  BY HeldIsKnown DEF IndInv, ReprocessMarks
<1>2. f \in Event  BY <1>1, KnownType DEF IndInv, Entity
<1>0. x.reprocessed  BY DEF ReprocessMarks, MarkIsSet
<1>3. KeptEvents' = KeptEvents \cup {f} /\ MarkedEvents' = MarkedEvents \cup {f}
  BY <1>0, <1>1, <1>2, SavedIsTheEntry DEF IndInv, ReprocessMarks
<1>4. runs[f] > 0  BY <1>0, <1>1 DEF IndInv, MarksWereEarned
<1>5. LiveEvents' = LiveEvents  BY SameLive DEF ReprocessMarks
<1>6. UNCHANGED <<arrived, stored, runs>> /\ gone' = gone \ {f}
  BY DEF ReprocessMarks
<1>7. Failed!Mark(f)
  BY <1>3, <1>4, <1>5, <1>6 DEF Failed!Mark
<1> QED  BY <1>2, <1>7 DEF Failed!Next

(* deleteDLQEvent removes the one entry of the event it saw, or nothing.   *)
LEMMA DeleteRemovesRefines ==
  ASSUME IndInv, OneEntry, NEW r \in Request, DeleteRemoves(r)
  PROVE  [Failed!Next]_Failed!vars
<1>0. PICK x, f : x = request[r].entity /\ f = x.event
  OBVIOUS
<1>1. x \in Known  BY <1>0, HeldIsKnown DEF IndInv, DeleteRemoves
<1>2. f \in Event  BY <1>0, <1>1, KnownType DEF IndInv, Entity
<1>3. LiveEvents' = LiveEvents  BY SameLive DEF DeleteRemoves
<1>4. table' = {row \in table : row.id # x.id} /\ UNCHANGED <<arrived, stored, runs>>
  BY <1>0 DEF DeleteRemoves
<1>5. CASE \E row \in table : row.id = x.id
  <2>1. PICK row \in table : row.id = x.id  BY <1>5
  <2>2. row.event = f
    BY <1>0, <1>1, <2>1 DEF Known, IndInv, KeyTellsEvent
  <2>3. table' = table \ {row}
    BY <1>0, <1>1, <1>4, <2>1, <2>2 DEF Known, IndInv, KeyTellsEvent, OneEntry
  <2>4. Entities(f)' = {}
    BY <2>1, <2>2, <2>3 DEF Entities, OneEntry
  <2>5. \A e : e # f => Entities(e)' = Entities(e)
    BY <2>2, <2>3 DEF Entities
  <2>6. KeptEvents' = KeptEvents \ {f}
    BY <2>4, <2>5 DEF KeptEvents
  <2>7. \A e \in Event : e \in MarkedEvents' <=> e \in MarkedEvents /\ e # f
    BY <2>4, <2>5 DEF MarkedEvents
  <2>8. MarkedEvents' = MarkedEvents \ {f}
    BY <2>7 DEF MarkedEvents
  <2>9. f \in KeptEvents
    BY <1>2, <2>1, <2>2 DEF KeptEvents, Entities
  <2>10. gone' = gone \cup {f}
    BY <1>0, <2>1 DEF DeleteRemoves
  <2>11. Failed!Delete(f)
    BY <1>3, <1>4, <2>6, <2>8, <2>9, <2>10 DEF Failed!Delete
  <2> QED  BY <1>2, <2>11 DEF Failed!Next
<1>6. CASE \A row \in table : row.id # x.id
  <2>1. table' = table  BY <1>4, <1>6
  <2>2. gone' = gone  BY <1>0, <1>6 DEF DeleteRemoves
  <2>3. KeptEvents' = KeptEvents /\ MarkedEvents' = MarkedEvents
    BY <2>1, SameEntries
  <2> QED  BY <1>3, <1>4, <2>2, <2>3 DEF Failed!vars
<1> QED  BY <1>5, <1>6

(* A request that only reads, or whose statement fails, shows nothing.     *)
LEMMA RequestShowsNothing ==
  ASSUME NEW r \in Request,
         \/ \E row \in table : ReprocessFinds(r, row) \/ DeleteFinds(r, row)
         \/ ReprocessFull(r) \/ ReprocessMarkFails(r) \/ DeleteFails(r)
  PROVE  UNCHANGED Failed!vars
<1>1. UNCHANGED <<arrived, queue, worker, stored, table, gone, runs>>
  BY DEF ReprocessFinds, DeleteFinds, ReprocessFull, ReprocessMarkFails, DeleteFails
<1>2. LiveEvents' = LiveEvents  BY <1>1, SameLive
<1>3. KeptEvents' = KeptEvents /\ MarkedEvents' = MarkedEvents  BY <1>1, SameEntries
<1> QED  BY <1>1, <1>2, <1>3 DEF Failed!vars

(* The three parts that the refinement adds to the invariant.              *)
LEMMA InitEntries == Init => OneEntry /\ MarkIsSet /\ AskedForKept
  BY DEF Init, OneEntry, MarkIsSet, AskedForKept, Resting

(* Nothing has arrived, is kept or marked.                                 *)
LEMMA InitRefines == Init => Failed!Init
<1> SUFFICES ASSUME Init PROVE Failed!Init
  OBVIOUS
<1>1. DOMAIN queue = {}  BY EmptySeq DEF Init
<1>2. LiveEvents = {}  BY <1>1 DEF Init, LiveEvents, Live, Resting
<1>3. KeptEvents = {} /\ MarkedEvents = {}
  BY DEF Init, KeptEvents, MarkedEvents, Entities
<1> QED  BY <1>2, <1>3 DEF Init, Failed!Init

(* Every step is one that the abstract specification knows, or one that it *)
(* does not see.                                                           *)
LEMMA StepRefines ==
  ASSUME IndInv, OneEntry, MarkIsSet, AskedForKept, [Next]_vars
  PROVE  [Failed!Next]_Failed!vars
<1>1. CASE UNCHANGED vars
  <2>1. UNCHANGED <<arrived, queue, worker, stored, table, gone, runs>>
    BY <1>1 DEF vars
  <2> QED  BY <2>1, SameLive, SameEntries DEF Failed!vars
<1>2. CASE \E e \in Event : Arrive(e)
  BY <1>2, ArriveRefines
<1>3. ASSUME NEW w \in Worker,
             \/ Take(w) \/ InsertSucceeds(w) \/ InsertedYetRetried(w) \/ InsertFails(w)
             \/ AddFinds(w) \/ AddSaves(w) \/ AddRefused(w) \/ AddFails(w)
      PROVE  [Failed!Next]_Failed!vars
  BY <1>3, TakeRefines, InsertEndRefines, AddFindsRefines, AddEndRefines
<1>4. ASSUME NEW r \in Request, NEW row \in table,
             ReprocessFinds(r, row) \/ DeleteFinds(r, row)
      PROVE  [Failed!Next]_Failed!vars
  BY <1>4, RequestShowsNothing
<1>5. ASSUME NEW r \in Request,
             \/ ReprocessEnqueues(r) \/ ReprocessFull(r)
             \/ ReprocessMarks(r) \/ ReprocessMarkFails(r)
             \/ DeleteRemoves(r) \/ DeleteFails(r)
      PROVE  [Failed!Next]_Failed!vars
  BY <1>5, ReprocessEnqueuesRefines, ReprocessMarksRefines, DeleteRemovesRefines,
     RequestShowsNothing
<1> QED  BY <1>1, <1>2, <1>3, <1>4, <1>5 DEF Next

(* A step of the abstract specification loses sight of no event, and marks *)
(* none that was not put back.                                             *)
LEMMA AccountedStep ==
  Failed!Accounted /\ runs \in [Event -> Nat] /\ [Failed!Next]_Failed!vars
    => Failed!Accounted'
<1> SUFFICES ASSUME Failed!Accounted, runs \in [Event -> Nat], [Failed!Next]_Failed!vars
             PROVE  Failed!Accounted'
  OBVIOUS
<1> USE DEF Failed!Accounted
<1>1. CASE UNCHANGED Failed!vars
  <2>1. /\ UNCHANGED <<arrived, stored, gone, runs>>
        /\ LiveEvents' = LiveEvents /\ KeptEvents' = KeptEvents
        /\ MarkedEvents' = MarkedEvents
    BY <1>1 DEF Failed!vars
  <2> QED  BY <2>1
<1>2. ASSUME NEW e \in Event, Failed!Arrive(e) PROVE Failed!Accounted'
  BY <1>2 DEF Failed!Arrive
<1>3. ASSUME NEW e \in Event,
             Failed!Store(e) \/ Failed!KeptBefore(e) \/ Failed!LetGo(e)
      PROVE  Failed!Accounted'
  BY <1>3 DEF Failed!AttemptEnds, Failed!Store, Failed!KeptBefore, Failed!LetGo
<1>4. ASSUME NEW e \in Event, Failed!Keep(e) PROVE Failed!Accounted'
  BY <1>4 DEF Failed!AttemptEnds, Failed!Keep
<1>5. ASSUME NEW e \in Event, Failed!PutBack(e) PROVE Failed!Accounted'
  <2>1. \A x \in Event : runs[x] > 0 => runs'[x] > 0
    BY <1>5 DEF Failed!PutBack
  <2>2. MarkedEvents \subseteq Event  BY DEF MarkedEvents
  <2> QED  BY <1>5, <2>1, <2>2 DEF Failed!PutBack
<1>6. ASSUME NEW e \in Event, Failed!Mark(e) \/ Failed!Delete(e)
      PROVE  Failed!Accounted'
  BY <1>6 DEF Failed!Mark, Failed!Delete
<1> QED  BY <1>1, <1>2, <1>3, <1>4, <1>5, <1>6 DEF Failed!Next

--------------------------------------------------------------------------------
(* The theorems                                                            *)

(* The invariant holds throughout, whatever the workers and the            *)
(* administrators do.                                                      *)
THEOREM DlqInvariance == Spec => []IndInv
<1> QED  BY InitIndInv, StepIndInv, PTL DEF Spec

(* The buffer, the calls, the table and the histories keep their types:    *)
(* among them, what a call writes back is an entity of the bounded keys.   *)
THEOREM DlqTypeCorrect == Spec => []TypeOK
<1>1. IndInv => TypeOK
  BY DEF IndInv, StateTypes, TypeOK, WorkerState, RequestState, Resting
<1> QED  BY <1>1, DlqInvariance, PTL

(* An event at its last attempt is live, stored or kept, or was knowingly  *)
(* let go: no interleaving of addToDLQ, reprocessEvent and deleteDLQEvent, *)
(* with their entities held across awaits, makes one vanish.               *)
THEOREM FailedEventsNeverVanish == Spec => []NoEventVanishes
<1> QED  BY DlqInvariance, PTL DEF IndInv

(* The service implements what FailedEvents promises: each step of calls   *)
(* and requests that hold entities across their awaits amounts, for each   *)
(* event, to a step that keeps, marks, deletes or puts back what was there *)
(* to be kept, marked, deleted or put back.                                *)
THEOREM DlqKeepsPromise == Spec => ImplementsFailedEvents
<1>1. Init => IndInv /\ OneEntry /\ MarkIsSet /\ AskedForKept /\ Failed!Init
  BY InitIndInv, InitEntries, InitRefines
<1>2. IndInv /\ OneEntry /\ MarkIsSet /\ AskedForKept /\ [Next]_vars
        => /\ IndInv' /\ OneEntry' /\ MarkIsSet' /\ AskedForKept'
           /\ [Failed!Next]_Failed!vars
  BY StepIndInv, OneEntryStep, MarkIsSetStep, AskedForKeptStep, StepRefines
<1> QED  BY <1>1, <1>2, PTL DEF Spec, ImplementsFailedEvents, Failed!Spec

(* What follows from that promise: every event that arrived is live,       *)
(* stored, kept or knowingly let go, and a mark belongs to an entry whose  *)
(* event was put back.                                                     *)
THEOREM FailedEventsAccounted == Spec => []Failed!Accounted
<1>1. Failed!Init => Failed!Accounted
  BY DEF Failed!Init, Failed!Accounted
<1>2. IndInv => runs \in [Event -> Nat]
  BY DlqAssumption DEF IndInv, StateTypes
<1>3. IndInv /\ Failed!Accounted /\ [Failed!Next]_Failed!vars => Failed!Accounted'
  BY <1>2, AccountedStep
<1> QED
  BY <1>1, <1>3, DlqInvariance, DlqKeepsPromise, PTL DEF ImplementsFailedEvents, Failed!Spec

================================================================================

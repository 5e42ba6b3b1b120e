----------------------------- MODULE BatchPipeline -----------------------------
(***************************************************************************)
(* The way of an event from POST /events to the events table:              *)
(* EventService.ingest, the event buffer, BatchWorkerService.process,      *)
(* TypeOrmEventRepository.batchInsert with its fall-back to individual     *)
(* inserts, retryFailed and the dead letter queue.                         *)
(*                                                                         *)
(* setInterval starts a process() call at every tick, whether or not the   *)
(* previous one has ended, so several calls share the buffer and the       *)
(* database; they interleave at every await (a database answer).  What a   *)
(* call does between two awaits is one action.                             *)
(*                                                                         *)
(* Abstractions.  The buffer is the bounded channel that EventBuffer       *)
(* implements (BoundedFifo).  An eventId is the pair of the client's event *)
(* and a generation: a regenerated id is a new generation, never equal to  *)
(* another id (48 random bits).  A table is the set of its unique ids.     *)
(* The circuit breaker's rejection is one of the reasons for which a       *)
(* transaction fails without effect.  addToDLQ is one step: nothing else   *)
(* in this module touches the id it looks up.  An administrator's          *)
(* reprocessEvent, which may put a dead letter back into the buffer, is    *)
(* DeadLetterQueue's: this module follows an event from its 202 to where   *)
(* the program itself lets go of it.  The collector's counters are left    *)
(* out: no step reads them.                                                *)
(***************************************************************************)
EXTENDS Naturals, Sequences, FiniteSets

CONSTANTS
  Source,          (* the events clients post                              *)
  Worker,          (* bound: process() calls that may be under way at once *)
  MaxSize,         (* BUFFER_MAX_SIZE                                      *)
  BatchSize,       (* min(BATCH_SIZE, BATCH_MAX_SIZE)                      *)
  MaxRetries,      (* MAX_RETRIES                                          *)
  IndividualLimit, (* inserts tried one by one after a failed batch (100)  *)
  AnswersGetLost   (* may the answer to a statement that took effect be an *)
                   (* error (connection lost after the commit)?            *)

ASSUME PipelineAssumption ==
  /\ MaxSize \in Nat \ {0}
  /\ BatchSize \in Nat \ {0}
  /\ MaxRetries \in Nat
  /\ IndividualLimit \in Nat \ {0}
  /\ AnswersGetLost \in BOOLEAN

VARIABLES
  client,    (* what each client was told last: "new", "rejected", "accepted" *)
  queue,     (* the active events of the buffer                            *)
  proc,      (* the process() calls: where each is and the batch it holds  *)
  rows,      (* eventIds in the events table                               *)
  dlq,       (* eventIds in the dead_letter_events table                   *)
  discarded, (* history: the events the code logged and let go, and why    *)
  attempts   (* history: how often each client event was part of a batch;  *)
             (* bound: not counted beyond MaxRetries + 2                   *)

vars == <<client, queue, proc, rows, dlq, discarded, attempts>>

Least(a, b) == IF a <= b THEN a ELSE b

Id(e) == <<e.src, e.gen>>

Ids(batch) == {Id(batch[i]) : i \in DOMAIN batch}

Idle == [pc |-> "idle", batch |-> << >>, at |-> 0, failed |-> 0]

Init ==
  /\ client = [s \in Source |-> "new"]
  /\ queue = << >>
  /\ proc = [w \in Worker |-> Idle]
  /\ rows = {}
  /\ dlq = {}
  /\ discarded = {}
  /\ attempts = [s \in Source |-> 0]

--------------------------------------------------------------------------------
(* The HTTP side                                                           *)

(* Faulty variant: the capacity check is off by one.                       *)
RoomForOneMore == Len(queue) <= MaxSize

HasRoom == Len(queue) < MaxSize

(* ingest(): the enriched event is enqueued and the client gets its 202.   *)
Ingest(s) ==
  /\ client[s] # "accepted"
  /\ HasRoom
  /\ queue' = Append(queue, [src |-> s, gen |-> 0, retry |-> 0])
  /\ client' = [client EXCEPT ![s] = "accepted"]
  /\ UNCHANGED <<proc, rows, dlq, discarded, attempts>>

(* ingest() on a full buffer: BufferSaturatedException, the client may     *)
(* post the event again later.                                             *)
IngestRejected(s) ==
  /\ client[s] = "new"
  /\ ~ HasRoom
  /\ client' = [client EXCEPT ![s] = "rejected"]
  /\ UNCHANGED <<queue, proc, rows, dlq, discarded, attempts>>

--------------------------------------------------------------------------------
(* Retries                                                                 *)

(* Faulty variant: the count is carried over unchanged.                    *)
SameRetryCount(e) == Least(e.retry, MaxRetries)

(* calculateRetryCount()                                                   *)
RetryCount(e) == Least(e.retry + 1, MaxRetries)

(* Faulty variants of the test below: one retry fewer, retries for ever.   *)
ExhaustedEarly(e) == RetryCount(e) + 1 >= MaxRetries
ExhaustedNever(e) == RetryCount(e) > MaxRetries

(* The event goes to the dead letter queue instead of back to the buffer.  *)
Exhausted(e) == RetryCount(e) >= MaxRetries

(* Faulty variant: every retry gets a new id.                              *)
AlwaysRegenerates(e) == TRUE

(* shouldRegenerateEventId(): only the first retry gets a new id.          *)
Regenerates(e) == RetryCount(e) = 1 /\ e.retry = 0

(* prepareRetryEvent()                                                     *)
RetryEvent(e) ==
  [src |-> e.src,
   gen |-> IF Regenerates(e) THEN e.gen + 1 ELSE e.gen,
   retry |-> RetryCount(e)]

(* retryFailed() from the k-th event of the batch on; `lost' are events    *)
(* already given up.  Events with retries left are re-enqueued, or dropped *)
(* when the buffer is full, without an await up to the first exhausted     *)
(* event, whose addToDLQ is awaited.                                       *)
RetryFrom(w, batch, k, lost) ==
  LET exhausted == {j \in k .. Len(batch) : Exhausted(batch[j])}
      stop == IF exhausted = {}
              THEN Len(batch) + 1
              ELSE CHOOSE j \in exhausted : \A i \in exhausted : j <= i
      retried == [i \in 1 .. stop - k |-> RetryEvent(batch[k + i - 1])]
      fitting == Least(Len(retried), MaxSize - Len(queue))
  IN /\ queue' = queue \o SubSeq(retried, 1, fitting)
     /\ discarded' = discarded \cup lost \cup
          {<<retried[i].src, "bufferFull">> : i \in fitting + 1 .. Len(retried)}
     /\ proc' = [proc EXCEPT ![w] =
          IF stop > Len(batch)
          THEN Idle
          ELSE [pc |-> "dlq", batch |-> batch, at |-> stop, failed |-> 0]]

AtDlq(w) == proc[w].batch[proc[w].at]

(* Faulty variant: the loop takes up the same event once more.             *)
DlqStoresAgain(w) ==
  /\ proc[w].pc = "dlq"
  /\ dlq' = dlq \cup {Id(AtDlq(w))}
  /\ RetryFrom(w, proc[w].batch, proc[w].at, {})
  /\ UNCHANGED <<client, rows, attempts>>

(* addToDLQ() stored the exhausted event; the loop goes on.                *)
DlqStores(w) ==
  /\ proc[w].pc = "dlq"
  /\ dlq' = dlq \cup {Id(AtDlq(w))}
  /\ RetryFrom(w, proc[w].batch, proc[w].at + 1, {})
  /\ UNCHANGED <<client, rows, attempts>>

(* addToDLQ() failed: it only logs the error, and the loop goes on.        *)
DlqFails(w) ==
  /\ proc[w].pc = "dlq"
  /\ RetryFrom(w, proc[w].batch, proc[w].at + 1, {<<AtDlq(w).src, "dlqFailed">>})
  /\ UNCHANGED <<client, rows, dlq, attempts>>

(* addToDLQ() stored the event, but the answer to its save was an error:    *)
(* it logs the event as lost although the entry is there.                  *)
DlqAnswerLost(w) ==
  /\ AnswersGetLost
  /\ proc[w].pc = "dlq"
  /\ dlq' = dlq \cup {Id(AtDlq(w))}
  /\ RetryFrom(w, proc[w].batch, proc[w].at + 1, {<<AtDlq(w).src, "dlqFailed">>})
  /\ UNCHANGED <<client, rows, attempts>>

--------------------------------------------------------------------------------
(* process(): drain, then one transaction for the whole batch              *)

(* Faulty variant: the drained events stay in the buffer.                  *)
NothingTaken(n) == queue

(* What drain(n) leaves in the buffer.                                     *)
Undrained(n) == SubSeq(queue, n + 1, Len(queue))

(* The timer fires: a process() call drains a batch and starts its         *)
(* transaction.  On an empty buffer it returns at once and changes nothing.*)
Tick(w) ==
  /\ proc[w].pc = "idle"
  /\ queue # << >>
  /\ LET n == Least(BatchSize, Len(queue))
         batch == SubSeq(queue, 1, n)
     IN /\ queue' = Undrained(n)
        /\ proc' = [proc EXCEPT ![w] =
             [pc |-> "tx", batch |-> batch, at |-> 0, failed |-> 0]]
        /\ attempts' = [s \in Source |->
             IF \E i \in 1 .. n : batch[i].src = s
             THEN Least(attempts[s] + 1, MaxRetries + 2)
             ELSE attempts[s]]
  /\ UNCHANGED <<client, rows, dlq, discarded>>

(* The events table takes a batch only if none of its ids is there.        *)
Insertable(batch) ==
  /\ Ids(batch) \cap rows = {}
  /\ Cardinality(Ids(batch)) = Len(batch)

(* All chunks inserted and committed: nothing failed, the call ends.       *)
TxCommits(w) ==
  /\ proc[w].pc = "tx"
  /\ Insertable(proc[w].batch)
  /\ rows' = rows \cup Ids(proc[w].batch)
  /\ proc' = [proc EXCEPT ![w] = Idle]
  /\ UNCHANGED <<client, queue, dlq, discarded, attempts>>

(* The call goes on with individual inserts after the transaction threw.   *)
TurnsToIndividualInserts(w) ==
  proc' = [proc EXCEPT ![w] = [@ EXCEPT !.pc = "single", !.at = 1]]

(* The transaction fails and is rolled back: a chunk violates the unique   *)
(* id, the database is unreachable, or the circuit breaker rejects it.     *)
TxFails(w) ==
  /\ proc[w].pc = "tx"
  /\ TurnsToIndividualInserts(w)
  /\ UNCHANGED <<client, queue, rows, dlq, discarded, attempts>>

(* The transaction commits but the client library reports an error.        *)
TxAnswerLost(w) ==
  /\ AnswersGetLost
  /\ proc[w].pc = "tx"
  /\ Insertable(proc[w].batch)
  /\ rows' = rows \cup Ids(proc[w].batch)
  /\ TurnsToIndividualInserts(w)
  /\ UNCHANGED <<client, queue, dlq, discarded, attempts>>

--------------------------------------------------------------------------------
(* insertEventsIndividually()                                              *)

Tried(batch) == Least(Len(batch), IndividualLimit)

(* Faulty variant: events beyond the limit are not reported.               *)
NoneUntried(batch) == 0

(* Events beyond the limit are reported failed without being tried.        *)
Untried(batch) == Len(batch) - Tried(batch)

(* The insert under way has ended; f is 1 if it was reported failed.  The  *)
(* next one starts, or the call ends, or it retries the WHOLE batch: the   *)
(* repository only reports how many events failed.                         *)
IndividualInsertEnds(w, f) ==
  LET p == proc[w]
      failed == p.failed + f
      last == p.at = Tried(p.batch)
  IN \/ /\ ~ last
        /\ proc' = [proc EXCEPT ![w] = [p EXCEPT !.at = p.at + 1, !.failed = failed]]
        /\ UNCHANGED <<queue, discarded>>
     \/ /\ last
        /\ failed + Untried(p.batch) = 0
        /\ proc' = [proc EXCEPT ![w] = Idle]
        /\ UNCHANGED <<queue, discarded>>
     \/ /\ last
        /\ failed + Untried(p.batch) > 0
        /\ RetryFrom(w, p.batch, 1, {})

IndividualInserted(w) ==
  /\ proc[w].pc = "single"
  /\ LET id == Id(proc[w].batch[proc[w].at])
     IN /\ id \notin rows
        /\ rows' = rows \cup {id}
  /\ IndividualInsertEnds(w, 0)
  /\ UNCHANGED <<client, dlq, attempts>>

(* A duplicate id, or the database cannot be reached.                      *)
IndividualFails(w) ==
  /\ proc[w].pc = "single"
  /\ IndividualInsertEnds(w, 1)
  /\ UNCHANGED <<client, rows, dlq, attempts>>

(* The row was inserted but the answer was an error.                       *)
IndividualAnswerLost(w) ==
  /\ AnswersGetLost
  /\ proc[w].pc = "single"
  /\ LET id == Id(proc[w].batch[proc[w].at])
     IN /\ id \notin rows
        /\ rows' = rows \cup {id}
  /\ IndividualInsertEnds(w, 1)
  /\ UNCHANGED <<client, dlq, attempts>>

--------------------------------------------------------------------------------

(* An await of process() call w is answered.                               *)
Answered(w) ==
  \/ TxCommits(w)
  \/ TxFails(w)
  \/ TxAnswerLost(w)
  \/ IndividualInserted(w)
  \/ IndividualFails(w)
  \/ IndividualAnswerLost(w)
  \/ DlqStores(w)
  \/ DlqFails(w)
  \/ DlqAnswerLost(w)

Next ==
  \/ \E s \in Source : Ingest(s) \/ IngestRejected(s)
  \/ \E w \in Worker : Tick(w) \/ Answered(w)

Spec == Init /\ [][Next]_vars

--------------------------------------------------------------------------------
(* Properties                                                              *)

Event ==
  [src : Source, gen : Nat, retry : 0 .. MaxRetries]

Call ==
  [pc : {"idle", "tx", "single", "dlq"}, batch : Seq(Event), at : Nat, failed : Nat]

TypeOK ==
  /\ client \in [Source -> {"new", "rejected", "accepted"}]
  /\ queue \in Seq(Event) /\ Len(queue) <= MaxSize
  /\ proc \in [Worker -> Call]
  /\ rows \subseteq Source \X Nat
  /\ dlq \subseteq Source \X Nat
  /\ discarded \subseteq Source \X {"bufferFull", "dlqFailed"}
  /\ attempts \in [Source -> Nat]

(* The positions of a call's batch it has not settled yet: all of them     *)
(* while it inserts, those from the awaited one on while it retries.       *)
Unsettled(p) == IF p.pc = "dlq" THEN p.at .. Len(p.batch) ELSE 1 .. Len(p.batch)

(* The copies of a client event the program still works on.                *)
LiveCopies(s) ==
  {<<"queue", i>> : i \in {j \in 1 .. Len(queue) : queue[j].src = s}}
    \cup UNION {{<<w, i>> : i \in {j \in Unsettled(proc[w]) : proc[w].batch[j].src = s}}
                : w \in Worker}

StoredGens(s) == {row[2] : row \in {r \in rows : r[1] = s}}

InDlq(s) == \E id \in dlq : id[1] = s

(* The buffer had no room to retry it.                                     *)
Dropped(s) == <<s, "bufferFull">> \in discarded

(* addToDLQ reported an error: the event may or may not be a dead letter.  *)
Unsure(s) == <<s, "dlqFailed">> \in discarded

GivenUp(s) == \E d \in discarded : d[1] = s

Accepted(s) == client[s] = "accepted"

(* An event that got its 202 is in the buffer or in a batch, in the events *)
(* table, in the dead letter queue, or was let go at one of the two places *)
(* that log it: re-enqueueing into a full buffer and a failed addToDLQ.    *)
(* No interleaving of process() calls has a third way to lose it.          *)
NoSilentLoss ==
  \A s \in Source : Accepted(s) =>
    \/ LiveCopies(s) # {}
    \/ StoredGens(s) # {}
    \/ InDlq(s)
    \/ GivenUp(s)

(* Overlapping process() calls never work on two copies of one event.      *)
OneLiveCopy == \A s \in Source : Cardinality(LiveCopies(s)) <= 1

(* Retrying stored events duplicates rows, but at most once: only the      *)
(* first retry changes the id, after that the unique index protects.       *)
StoredAtMostTwice == \A s \in Source : Cardinality(StoredGens(s)) <= 2

(* An event is part of at most max(1, MAX_RETRIES) batches.                *)
AttemptsBounded ==
  \A s \in Source : attempts[s] <= (IF MaxRetries = 0 THEN 1 ELSE MaxRetries)

(* The dead letter queue holds only events that used up all attempts.      *)
DlqMeansExhausted ==
  \A s \in Source : InDlq(s) =>
    attempts[s] = (IF MaxRetries = 0 THEN 1 ELSE MaxRetries)

(* The event is in the buffer or in a batch.                               *)
Held(s) ==
  \/ \E i \in 1 .. Len(queue) : queue[i].src = s
  \/ \E w \in Worker : \E i \in Unsettled(proc[w]) : proc[w].batch[i].src = s

(* What a client may rely on while retries, fall-backs and overlapping     *)
(* calls move the copies of its event about, until the program itself lets *)
(* go of it: EventFate.  process() and every answer it gets settle some    *)
(* held events, or none.                                                   *)
Fate == INSTANCE EventFate
          WITH answer <- client,
               held <- {s \in Source : Held(s)},
               stored <- rows,
               dead <- {s \in Source : InDlq(s)},
               unsure <- {s \in Source : Unsure(s)},
               dropped <- {s \in Source : Dropped(s)}

ImplementsFate == Fate!Spec

(* README.md: only the events of a batch that failed are retried, so an    *)
(* event that is in the events table never waits for a retry.              *)
StoredIsNotRetried ==
  \A i \in DOMAIN queue : StoredGens(queue[i].src) = {}

================================================================================

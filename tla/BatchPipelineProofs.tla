-------------------------- MODULE BatchPipelineProofs --------------------------
(***************************************************************************)
(* What the runs of BatchPipeline check on four events and two overlapping *)
(* process() calls, proved for any number of events and calls, and for     *)
(* every buffer size, batch size, retry limit and individual insert limit. *)
(***************************************************************************)
EXTENDS BatchPipeline, SequenceTheorems, FiniteSetTheorems, WellFoundedInduction, TLAPS

(***************************************************************************)
(* The inductive invariant.  None of the properties is inductive: each of  *)
(* them is about where the copies of an event are, and what keeps them     *)
(* true is what a copy knows about its own past.  A copy in the buffer     *)
(* carries in its retry count how many batches its event has been part of, *)
(* a copy in a batch one less; its generation says whether it was retried. *)
(***************************************************************************)

(* What holds of a copy e whose event has been part of n batches.          *)
Carries(e, n) ==
  /\ Accepted(e.src)
  /\ attempts[e.src] = n
  /\ e.retry = 0 \/ e.retry < MaxRetries
  /\ e.gen = (IF e.retry = 0 THEN 0 ELSE 1)

Traced ==
  /\ \A i \in 1 .. Len(queue) : Carries(queue[i], queue[i].retry)
  /\ \A w \in Worker : \A i \in Unsettled(proc[w]) :
       Carries(proc[w].batch[i], proc[w].batch[i].retry + 1)

(* No two of the places that hold a copy hold copies of the same event.    *)
Separate ==
  /\ \A i, j \in 1 .. Len(queue) : queue[i].src = queue[j].src => i = j
  /\ \A w \in Worker : \A i \in Unsettled(proc[w]), j \in 1 .. Len(queue) :
       proc[w].batch[i].src # queue[j].src
  /\ \A v, w \in Worker : \A i \in Unsettled(proc[v]), j \in Unsettled(proc[w]) :
       proc[v].batch[i].src = proc[w].batch[j].src => v = w /\ i = j

(* What a call's position in its batch says: an individual insert is under *)
(* way for an event within the limit, and while none was reported failed   *)
(* the ones before it are in the table; addToDLQ is awaited for an event   *)
(* that is exhausted.                                                      *)
WellPlaced(p) ==
  /\ p.pc = "idle" => p.batch = << >>
  /\ p.pc = "tx" => p.batch # << >>
  /\ p.pc = "single" =>
       /\ p.at \in 1 .. Tried(p.batch)
       /\ p.failed = 0 => \A i \in 1 .. p.at - 1 : Id(p.batch[i]) \in rows
  /\ p.pc = "dlq" => p.at \in 1 .. Len(p.batch) /\ Exhausted(p.batch[p.at])

Placed == \A w \in Worker : WellPlaced(proc[w])

(* An event that was not accepted has not been part of a batch.            *)
Untouched == \A s \in Source : ~ Accepted(s) => attempts[s] = 0

RowsOfTwoGens == rows \subseteq Source \X {0, 1}

(* It left a trace the program or its operator can find.                   *)
Recorded(s) ==
  \/ \E row \in rows : row[1] = s
  \/ InDlq(s)
  \/ GivenUp(s)

Kept == \A s \in Source : Accepted(s) => Held(s) \/ Recorded(s)

IndInv ==
  /\ TypeOK
  /\ Placed
  /\ Traced
  /\ Separate
  /\ Untouched
  /\ RowsOfTwoGens
  /\ Kept
  /\ AttemptsBounded
  /\ DlqMeansExhausted

--------------------------------------------------------------------------------
(* A nonempty set of naturals has a least element: what the CHOOSE of      *)
(* RetryFrom relies on.                                                    *)
LEMMA LeastExists ==
  ASSUME NEW S \in SUBSET Nat, S # {}
  PROVE  \E x \in S : \A y \in S : x <= y
<1>1. PICK x \in S : \A y \in S : <<y, x>> \notin OpToRel(<, Nat)
  BY WFMin, NatLessThanWellFounded, Zenon
<1>2. \A y \in S : ~ (y < x)
  BY <1>1, Zenon DEF OpToRel
<1>3. QED
  BY <1>2

(* The typing of the state, in the form the proofs below use.              *)
LEMMA StateFacts ==
  ASSUME TypeOK, Placed
  PROVE  /\ MaxSize \in Nat \ {0} /\ BatchSize \in Nat \ {0}
         /\ MaxRetries \in Nat /\ IndividualLimit \in Nat \ {0}
         /\ Len(queue) \in Nat /\ Len(queue) <= MaxSize
         /\ \A i \in 1 .. Len(queue) : queue[i] \in Event
         /\ \A w \in Worker :
              /\ proc[w] \in Call /\ proc[w].batch \in Seq(Event)
              /\ Len(proc[w].batch) \in Nat
              /\ \A i \in 1 .. Len(proc[w].batch) : proc[w].batch[i] \in Event
              /\ Unsettled(proc[w]) \subseteq 1 .. Len(proc[w].batch)
<1>1. /\ MaxSize \in Nat \ {0} /\ BatchSize \in Nat \ {0}
      /\ MaxRetries \in Nat /\ IndividualLimit \in Nat \ {0}
  BY PipelineAssumption DEF PipelineAssumption
<1>2. /\ Len(queue) \in Nat /\ Len(queue) <= MaxSize
      /\ \A i \in 1 .. Len(queue) : queue[i] \in Event
  BY LenProperties, ElementOfSeq DEF TypeOK
<1>3. ASSUME NEW w \in Worker
      PROVE  /\ proc[w] \in Call /\ proc[w].batch \in Seq(Event)
             /\ Len(proc[w].batch) \in Nat
             /\ \A i \in 1 .. Len(proc[w].batch) : proc[w].batch[i] \in Event
             /\ Unsettled(proc[w]) \subseteq 1 .. Len(proc[w].batch)
  <2>1. proc[w] \in Call
    BY DEF TypeOK
  <2>2. proc[w].batch \in Seq(Event)
    BY <2>1 DEF Call
  <2>3. /\ Len(proc[w].batch) \in Nat
        /\ \A i \in 1 .. Len(proc[w].batch) : proc[w].batch[i] \in Event
    BY <2>2, LenProperties, ElementOfSeq
  <2>4. Unsettled(proc[w]) \subseteq 1 .. Len(proc[w].batch)
    BY <2>3 DEF Unsettled, Placed, WellPlaced
  <2>5. QED
    BY <2>1, <2>2, <2>3, <2>4
<1>4. QED
  BY <1>1, <1>2, <1>3

(* A step of one call leaves the other calls where they are.               *)
LEMMA OneCallMoves ==
  ASSUME TypeOK, NEW w \in Worker, NEW q \in Call, proc' = [proc EXCEPT ![w] = q]
  PROVE  /\ proc' \in [Worker -> Call]
         /\ proc'[w] = q
         /\ \A v \in Worker : v # w => proc'[v] = proc[v]
BY DEF TypeOK

(* A retried event carries its own past: one batch more, one retry more,   *)
(* and the one new id it ever gets.                                        *)
LEMMA RetryEventCarries ==
  ASSUME NEW e \in Event, Carries(e, e.retry + 1), ~ Exhausted(e)
  PROVE  /\ RetryEvent(e) \in Event
         /\ RetryEvent(e).src = e.src
         /\ Carries(RetryEvent(e), RetryEvent(e).retry)
<1>1. /\ MaxRetries \in Nat /\ e.retry \in 0 .. MaxRetries /\ e.gen \in Nat
      /\ e = [src |-> e.src, gen |-> e.gen, retry |-> e.retry]
  BY PipelineAssumption DEF PipelineAssumption, Event
<1>2. e.retry + 1 < MaxRetries /\ RetryCount(e) = e.retry + 1
  BY <1>1 DEF Exhausted, RetryCount, Least
<1>3. Regenerates(e) <=> e.retry = 0
  BY <1>1, <1>2 DEF Regenerates
<1>4. /\ RetryEvent(e).src = e.src
      /\ RetryEvent(e).retry = e.retry + 1
      /\ RetryEvent(e).gen = (IF e.retry = 0 THEN e.gen + 1 ELSE e.gen)
      /\ RetryEvent(e) \in Event
  BY <1>1, <1>2, <1>3 DEF RetryEvent, Event
<1>5. QED
  BY <1>1, <1>2, <1>4 DEF Carries, Accepted

--------------------------------------------------------------------------------
(* The two ways in which the copies of a batch change places               *)

(* What a step of call w leaves in memory was there before: the other      *)
(* calls are untouched, and w only gives up copies or puts them back.      *)
NothingNew(w) ==
  /\ \A v \in Worker : v # w => proc'[v] = proc[v]
  /\ \A i \in Unsettled(proc'[w]) :
       i \in Unsettled(proc[w]) /\ proc'[w].batch = proc[w].batch
  /\ \A i \in 1 .. Len(queue') :
       \/ \E j \in 1 .. Len(queue) : queue'[i] = queue[j]
       \/ \E j \in Unsettled(proc[w]) : queue'[i].src = proc[w].batch[j].src

(* A call that only settles copies, and gives none back to the buffer,     *)
(* leaves every other copy what and where it was.                          *)
LEMMA SettlingKeeps ==
  ASSUME IndInv, NEW w \in Worker, NEW q \in Call,
         proc' = [proc EXCEPT ![w] = q],
         Unsettled(q) \subseteq Unsettled(proc[w]),
         q.batch = proc[w].batch \/ Unsettled(q) = {},
         queue' = queue, client' = client, attempts' = attempts
  PROVE  Traced' /\ Separate' /\ NothingNew(w)
<1>1. /\ proc' \in [Worker -> Call]
      /\ proc'[w] = q
      /\ \A v \in Worker : v # w => proc'[v] = proc[v]
  BY OneCallMoves DEF IndInv
<1>2. ASSUME NEW v \in Worker, NEW i \in Unsettled(proc'[v])
      PROVE  i \in Unsettled(proc[v]) /\ proc'[v].batch = proc[v].batch
  BY <1>1, <1>2
<1>3. Traced'
  <2>1. \A i \in 1 .. Len(queue) : Carries(queue[i], queue[i].retry)'
    BY DEF IndInv, Traced, Carries, Accepted
  <2>2. ASSUME NEW v \in Worker, NEW i \in Unsettled(proc'[v])
        PROVE  Carries(proc[v].batch[i], proc[v].batch[i].retry + 1)'
    BY <1>2, <2>2 DEF IndInv, Traced, Carries, Accepted
  <2>3. QED
    BY <1>2, <2>1, <2>2 DEF Traced, Carries, Accepted, Unsettled
<1>4. Separate'
  BY <1>2 DEF IndInv, Separate, Unsettled
<1>5. NothingNew(w)
  BY <1>1, <1>2 DEF NothingNew
<1>6. QED
  BY <1>3, <1>4, <1>5

(* What retryFailed does up to its next await: the events before the first *)
(* exhausted one go back to the buffer as far as it has room, the rest of  *)
(* them is logged as dropped, and addToDLQ is awaited for the exhausted    *)
(* one, if there is one.                                                   *)
RetrySplit(w, batch, k, lost, stop, fitting) ==
  /\ \A j \in k .. stop - 1 : ~ Exhausted(batch[j])
  /\ stop <= Len(batch) => Exhausted(batch[stop])
  /\ queue' \in Seq(Event)
  /\ Len(queue') = Len(queue) + fitting
  /\ Len(queue) + fitting <= MaxSize
  /\ \A i \in 1 .. Len(queue) : queue'[i] = queue[i]
  /\ \A i \in 1 .. fitting : queue'[Len(queue) + i] = RetryEvent(batch[k + i - 1])
  /\ discarded' = discarded \cup lost
                    \cup {<<batch[j].src, "bufferFull">> : j \in k + fitting .. stop - 1}
  /\ proc' = [proc EXCEPT ![w] =
       IF stop > Len(batch)
       THEN Idle
       ELSE [pc |-> "dlq", batch |-> batch, at |-> stop, failed |-> 0]]

(* retryFailed on the rest of a batch is such a step: the stop is the      *)
(* first exhausted event from k on, if there is one.                       *)
LEMMA RetryFromSplits ==
  ASSUME IndInv, NEW w \in Worker,
         NEW k \in 1 .. Len(proc[w].batch) + 1,
         k .. Len(proc[w].batch) \subseteq Unsettled(proc[w]),
         NEW lost, RetryFrom(w, proc[w].batch, k, lost)
  PROVE  \E stop \in k .. Len(proc[w].batch) + 1 : \E fitting \in 0 .. stop - k :
           RetrySplit(w, proc[w].batch, k, lost, stop, fitting)
<1> DEFINE batch == proc[w].batch
           exhausted == {j \in k .. Len(batch) : Exhausted(batch[j])}
           stop == IF exhausted = {}
                   THEN Len(batch) + 1
                   ELSE CHOOSE j \in exhausted : \A i \in exhausted : j <= i
           retried == [i \in 1 .. stop - k |-> RetryEvent(batch[k + i - 1])]
           fitting == Least(Len(retried), MaxSize - Len(queue))
<1>1. /\ MaxSize \in Nat /\ Len(queue) \in Nat /\ Len(queue) <= MaxSize
      /\ queue \in Seq(Event)
      /\ Len(batch) \in Nat /\ k \in Nat \ {0}
      /\ \A i \in 1 .. Len(batch) : batch[i] \in Event
  BY StateFacts DEF IndInv, TypeOK
<1>2. /\ stop \in k .. Len(batch) + 1
      /\ stop <= Len(batch) => Exhausted(batch[stop])
      /\ \A j \in k .. stop - 1 : ~ Exhausted(batch[j])
  <2>1. CASE exhausted = {}
    BY <1>1, <2>1
  <2>2. CASE exhausted # {}
    <3>1. exhausted \in SUBSET Nat
      BY <1>1
    <3>2. \E x \in exhausted : \A y \in exhausted : x <= y
      BY <2>2, <3>1, LeastExists
    <3>3. stop \in exhausted /\ \A i \in exhausted : stop <= i
      BY <2>2, <3>2
    <3> HIDE DEF stop
    <3>4. stop \in k .. Len(batch) /\ Exhausted(batch[stop])
      BY <3>3
    <3>5. ASSUME NEW j \in k .. stop - 1, Exhausted(batch[j])
          PROVE  FALSE
      BY <1>1, <3>3, <3>4, <3>5
    <3>6. QED
      BY <1>1, <3>4, <3>5
  <2>3. QED
    BY <2>1, <2>2
<1>3. /\ queue' = queue \o SubSeq(retried, 1, fitting)
      /\ discarded' = discarded \cup lost \cup
           {<<retried[i].src, "bufferFull">> : i \in fitting + 1 .. Len(retried)}
      /\ proc' = [proc EXCEPT ![w] =
           IF stop > Len(batch)
           THEN Idle
           ELSE [pc |-> "dlq", batch |-> batch, at |-> stop, failed |-> 0]]
  BY DEF RetryFrom
<1> HIDE DEF stop, fitting
<1>4. ASSUME NEW i \in 1 .. stop - k
      PROVE  RetryEvent(batch[k + i - 1]) \in Event
  <2> DEFINE j == k + i - 1
  <2>1. j \in k .. stop - 1 /\ j \in k .. Len(batch) /\ j \in 1 .. Len(batch)
    BY <1>1, <1>2
  <2>2. Carries(batch[j], batch[j].retry + 1) /\ ~ Exhausted(batch[j]) /\ batch[j] \in Event
    BY <1>1, <1>2, <2>1 DEF IndInv, Traced
  <2>3. QED
    BY <2>2, RetryEventCarries
<1>5. stop - k \in Nat
  BY <1>1, <1>2
<1>6. retried \in Seq(Event) /\ Len(retried) = stop - k
  <2>1. retried \in [1 .. stop - k -> Event]
    BY <1>4
  <2>2. retried \in Seq(Event)
    BY <1>5, <2>1, SeqDef
  <2>3. Len(retried) = stop - k
    BY <1>5, <2>2, LenProperties
  <2>4. QED
    BY <2>2, <2>3
<1>7. fitting \in 0 .. stop - k /\ Len(queue) + fitting <= MaxSize
  BY <1>1, <1>5, <1>6 DEF fitting, Least
<1> HIDE DEF retried
<1>8. /\ SubSeq(retried, 1, fitting) \in Seq(Event)
      /\ Len(SubSeq(retried, 1, fitting)) = fitting
      /\ \A i \in 1 .. fitting : SubSeq(retried, 1, fitting)[i] = retried[i]
  <2>1. \A i \in 1 .. fitting : retried[i] \in Event
    BY <1>5, <1>6, <1>7, ElementOfSeq
  <2>2. QED
    BY <1>5, <1>7, <2>1, SubSeqProperties
<1>9. /\ queue' \in Seq(Event)
      /\ Len(queue') = Len(queue) + fitting
      /\ \A i \in 1 .. Len(queue) : queue'[i] = queue[i]
      /\ \A i \in 1 .. fitting : queue'[Len(queue) + i] = retried[i]
  BY <1>1, <1>7, <1>3, <1>8, ConcatProperties
<1>10. \A i \in 1 .. stop - k : retried[i] = RetryEvent(batch[k + i - 1])
  BY DEF retried
<1>11. {<<retried[i].src, "bufferFull">> : i \in fitting + 1 .. Len(retried)}
         = {<<batch[j].src, "bufferFull">> : j \in k + fitting .. stop - 1}
  <2>1. ASSUME NEW i \in fitting + 1 .. Len(retried)
        PROVE  retried[i].src = batch[k + i - 1].src
    BY <1>1, <1>5, <1>6, <1>7, <1>10 DEF RetryEvent
  <2>2. \A i \in fitting + 1 .. Len(retried) : k + i - 1 \in k + fitting .. stop - 1
    BY <1>1, <1>2, <1>5, <1>6, <1>7
  <2>3. \A j \in k + fitting .. stop - 1 :
          j - k + 1 \in fitting + 1 .. Len(retried) /\ k + (j - k + 1) - 1 = j
    BY <1>1, <1>2, <1>5, <1>6, <1>7
  <2> DEFINE L == {<<retried[i].src, "bufferFull">> : i \in fitting + 1 .. Len(retried)}
             R == {<<batch[j].src, "bufferFull">> : j \in k + fitting .. stop - 1}
  <2>4. ASSUME NEW x \in L PROVE x \in R
    BY <2>1, <2>2
  <2>5. ASSUME NEW x \in R PROVE x \in L
    BY <2>1, <2>3
  <2> HIDE DEF L, R
  <2>6. L = R
    BY <2>4, <2>5
  <2>7. QED
    BY <2>6 DEF L, R
<1>12. RetrySplit(w, batch, k, lost, stop, fitting)
  <2>1. \A i \in 1 .. fitting : queue'[Len(queue) + i] = RetryEvent(batch[k + i - 1])
    BY <1>5, <1>7, <1>9, <1>10
  <2>2. discarded' = discarded \cup lost
          \cup {<<batch[j].src, "bufferFull">> : j \in k + fitting .. stop - 1}
    BY <1>3, <1>11
  <2>3. QED
    BY <1>2, <1>7, <1>3, <1>9, <2>1, <2>2 DEF RetrySplit
<1>13. QED
  BY <1>2, <1>7, <1>12

(* The other calls keep their places when rows are only added.             *)
LEMMA PlacedStays ==
  ASSUME TypeOK, Placed, NEW w \in Worker, NEW q \in Call,
         proc' = [proc EXCEPT ![w] = q],
         rows \subseteq rows', WellPlaced(proc[w])'
  PROVE  Placed'
<1>1. \A v \in Worker : v # w => proc'[v] = proc[v]
  BY OneCallMoves
<1>2. ASSUME NEW v \in Worker, v # w
      PROVE  WellPlaced(proc[v])'
  BY <1>1, <1>2 DEF Placed, WellPlaced
<1>3. QED
  BY <1>2 DEF Placed

(* retryFailed keeps every copy apart from the others and true to its past.*)
LEMMA RetryKeeps ==
  ASSUME IndInv, NEW w \in Worker,
         NEW k \in 1 .. Len(proc[w].batch) + 1,
         k .. Len(proc[w].batch) \subseteq Unsettled(proc[w]),
         NEW lost \in SUBSET (Source \X {"bufferFull", "dlqFailed"}),
         RetryFrom(w, proc[w].batch, k, lost),
         client' = client, attempts' = attempts, rows \subseteq rows'
  PROVE  /\ queue' \in Seq(Event) /\ Len(queue') <= MaxSize
         /\ proc' \in [Worker -> Call]
         /\ discarded' \subseteq Source \X {"bufferFull", "dlqFailed"}
         /\ Placed'
         /\ Traced'
         /\ Separate'
         /\ NothingNew(w)
<1> DEFINE batch == proc[w].batch
<1>1. /\ Len(queue) \in Nat /\ Len(batch) \in Nat /\ k \in Nat \ {0}
      /\ \A i \in 1 .. Len(queue) : queue[i] \in Event
      /\ batch \in Seq(Event)
      /\ \A i \in 1 .. Len(batch) : batch[i] \in Event
      /\ Unsettled(proc[w]) \subseteq 1 .. Len(batch)
  <2>1. TypeOK /\ Placed
    BY DEF IndInv
  <2>2. /\ Len(queue) \in Nat /\ \A i \in 1 .. Len(queue) : queue[i] \in Event
        /\ Len(batch) \in Nat /\ batch \in Seq(Event)
        /\ \A i \in 1 .. Len(batch) : batch[i] \in Event
        /\ Unsettled(proc[w]) \subseteq 1 .. Len(batch)
    BY <2>1, StateFacts
  <2>3. k \in Nat \ {0}
    BY <2>2
  <2> QED
    BY <2>2, <2>3
<1>2. PICK stop \in k .. Len(batch) + 1 :
        \E f \in 0 .. stop - k : RetrySplit(w, batch, k, lost, stop, f)
  BY RetryFromSplits
<1>3. PICK fitting \in 0 .. stop - k : RetrySplit(w, batch, k, lost, stop, fitting)
  BY <1>2
<1>4. stop \in Nat /\ fitting \in Nat /\ k + fitting <= stop /\ stop <= Len(batch) + 1
  BY <1>1
<1> DEFINE q == IF stop > Len(batch)
                THEN Idle
                ELSE [pc |-> "dlq", batch |-> batch, at |-> stop, failed |-> 0]
<1>5. q \in Call /\ proc' = [proc EXCEPT ![w] = q]
  BY <1>1, <1>3, <1>4, EmptySeq DEF RetrySplit, Idle, Call
<1>6. /\ proc' \in [Worker -> Call] /\ proc'[w] = q
      /\ \A v \in Worker : v # w => proc'[v] = proc[v]
  BY <1>5, OneCallMoves DEF IndInv
<1>7. queue' \in Seq(Event) /\ Len(queue') = Len(queue) + fitting /\ Len(queue') <= MaxSize
  BY <1>3 DEF RetrySplit
<1>8. discarded' \subseteq Source \X {"bufferFull", "dlqFailed"}
  <2>1. {<<batch[j].src, "bufferFull">> : j \in k + fitting .. stop - 1}
          \subseteq Source \X {"bufferFull", "dlqFailed"}
    <3>1. ASSUME NEW j \in k + fitting .. stop - 1
          PROVE  batch[j].src \in Source
      <4>1. j \in 1 .. Len(batch)
        BY <1>1, <1>4
      <4>2. QED
        BY <4>1, <1>1 DEF Event
    <3>2. QED
      BY <3>1
  <2>2. QED
    BY <2>1, <1>3 DEF RetrySplit, IndInv, TypeOK
<1>9. Placed'
  <2>1. WellPlaced(proc[w])'
    BY <1>1, <1>3, <1>4, <1>6 DEF WellPlaced, RetrySplit, Idle, Exhausted, RetryCount
  <2>2. QED
    BY <2>1, <1>5, PlacedStays DEF IndInv
<1>10. /\ Unsettled(q) \subseteq k .. Len(batch)
       /\ \A i \in Unsettled(q) : q.batch = batch /\ stop <= i
  BY <1>1, <1>4, EmptySeq DEF Unsettled, Idle
<1>11. \A i \in 1 .. fitting :
         /\ k + i - 1 \in k .. stop - 1
         /\ k + i - 1 \in k .. Len(batch)
         /\ k + i - 1 \in Unsettled(proc[w])
  BY <1>1, <1>4
<1>12. ASSUME NEW i \in 1 .. fitting
       PROVE  /\ queue'[Len(queue) + i] = RetryEvent(batch[k + i - 1])
              /\ RetryEvent(batch[k + i - 1]).src = batch[k + i - 1].src
              /\ Carries(queue'[Len(queue) + i], queue'[Len(queue) + i].retry)
  <2> DEFINE e == batch[k + i - 1]
  <2>1. e \in Event /\ Carries(e, e.retry + 1) /\ ~ Exhausted(e)
    BY <1>1, <1>3, <1>11 DEF RetrySplit, IndInv, Traced
  <2>2. queue'[Len(queue) + i] = RetryEvent(e)
    BY <1>3 DEF RetrySplit
  <2>3. QED
    BY <2>1, <2>2, RetryEventCarries
<1>13. \A i \in 1 .. Len(queue) : queue'[i] = queue[i]
  BY <1>3 DEF RetrySplit
<1>14. \A i \in 1 .. Len(queue') :
         i \in 1 .. Len(queue) \/ \E m \in 1 .. fitting : i = Len(queue) + m
  <2>1. ASSUME NEW i \in 1 .. Len(queue'), i \notin 1 .. Len(queue)
        PROVE  i - Len(queue) \in 1 .. fitting /\ i = Len(queue) + (i - Len(queue))
    BY <1>1, <1>4, <1>7, <2>1
  <2>2. QED
    BY <2>1
<1>15. ASSUME NEW v \in Worker, NEW i \in Unsettled(proc'[v])
       PROVE  /\ i \in Unsettled(proc[v]) /\ proc'[v].batch = proc[v].batch
              /\ v = w => stop <= i
  BY <1>6, <1>10, <1>15
<1>16. Traced'
  <2>1. ASSUME NEW i \in 1 .. Len(queue')
        PROVE  Carries(queue'[i], queue'[i].retry)
    BY <2>1, <1>12, <1>13, <1>14 DEF IndInv, Traced
  <2>2. ASSUME NEW v \in Worker, NEW i \in Unsettled(proc'[v])
        PROVE  Carries(proc'[v].batch[i], proc'[v].batch[i].retry + 1)
    BY <1>15, <2>2 DEF IndInv, Traced
  <2>3. QED
    BY <2>1, <2>2 DEF Traced, Carries, Accepted, Unsettled
<1>17. ASSUME NEW i \in 1 .. Len(queue'), i \notin 1 .. Len(queue)
       PROVE  \E j \in Unsettled(proc[w]) :
                /\ j = k + i - Len(queue) - 1 /\ j < stop
                /\ queue'[i].src = proc[w].batch[j].src
  <2> DEFINE m == i - Len(queue)
  <2>1. m \in 1 .. fitting /\ i = Len(queue) + m
    BY <1>1, <1>4, <1>7, <1>17
  <2>2. k + m - 1 \in Unsettled(proc[w]) /\ k + m - 1 < stop
    BY <2>1, <1>1, <1>4, <1>11
  <2>3. queue'[i].src = proc[w].batch[k + m - 1].src
    BY <2>1, <1>12
  <2>4. QED
    BY <2>2, <2>3, <1>1
<1>18. /\ \A i, j \in 1 .. Len(queue) : queue[i].src = queue[j].src => i = j
       /\ \A v \in Worker : \A i \in Unsettled(proc[v]), j \in 1 .. Len(queue) :
            proc[v].batch[i].src # queue[j].src
       /\ \A u, v \in Worker : \A i \in Unsettled(proc[u]), j \in Unsettled(proc[v]) :
            proc[u].batch[i].src = proc[v].batch[j].src => u = v /\ i = j
  BY DEF IndInv, Separate
<1>19. Separate'
  <2>1. ASSUME NEW i \in 1 .. Len(queue'), NEW j \in 1 .. Len(queue'),
               queue'[i].src = queue'[j].src
        PROVE  i = j
    <3>1. CASE i \in 1 .. Len(queue) /\ j \in 1 .. Len(queue)
      BY <2>1, <3>1, <1>13, <1>18
    <3>2. CASE i \in 1 .. Len(queue) /\ j \notin 1 .. Len(queue)
      BY <2>1, <3>2, <1>13, <1>17, <1>18
    <3>3. CASE i \notin 1 .. Len(queue) /\ j \in 1 .. Len(queue)
      BY <2>1, <3>3, <1>13, <1>17, <1>18
    <3>4. CASE i \notin 1 .. Len(queue) /\ j \notin 1 .. Len(queue)
      <4>1. k + i - Len(queue) - 1 = k + j - Len(queue) - 1
        BY <2>1, <3>4, <1>17, <1>18
      <4>2. i \in Int /\ j \in Int
        BY <1>7
      <4>3. QED
        BY <4>1, <4>2, <1>1
    <3>5. QED
      BY <3>1, <3>2, <3>3, <3>4
  <2>2. ASSUME NEW v \in Worker, NEW i \in Unsettled(proc'[v]), NEW j \in 1 .. Len(queue')
        PROVE  proc'[v].batch[i].src # queue'[j].src
    <3>1. /\ i \in Unsettled(proc[v]) /\ proc'[v].batch = proc[v].batch
          /\ v = w => stop <= i
      BY <2>2, <1>15
    <3>2. CASE j \in 1 .. Len(queue)
      BY <3>1, <3>2, <1>13, <1>18
    <3>3. CASE j \notin 1 .. Len(queue)
      <4>1. PICK m \in Unsettled(proc[w]) :
              m < stop /\ queue'[j].src = proc[w].batch[m].src
        BY <3>3, <1>17
      <4>2. i = m /\ v = w => FALSE
        BY <3>1, <4>1, <1>1, <1>4
      <4>3. QED
        BY <3>1, <4>1, <4>2, <1>18
    <3>4. QED
      BY <3>2, <3>3
  <2>3. ASSUME NEW u \in Worker, NEW v \in Worker,
               NEW i \in Unsettled(proc'[u]), NEW j \in Unsettled(proc'[v]),
               proc'[u].batch[i].src = proc'[v].batch[j].src
        PROVE  u = v /\ i = j
    <3>1. i \in Unsettled(proc[u]) /\ proc'[u].batch = proc[u].batch
      BY <2>3, <1>15
    <3>2. j \in Unsettled(proc[v]) /\ proc'[v].batch = proc[v].batch
      BY <2>3, <1>15
    <3>3. QED
      BY <2>3, <3>1, <3>2, <1>18
  <2>4. QED
    BY <2>1, <2>2, <2>3 DEF Separate, Unsettled
<1>20. NothingNew(w)
  BY <1>6, <1>13, <1>15, <1>17 DEF NothingNew
<1>21. QED
  BY <1>6, <1>7, <1>8, <1>9, <1>16, <1>19, <1>20

(* No copy gets lost in retryFailed: the ones it goes through are back in  *)
(* the buffer, dropped with a log line, or still in the batch.             *)
LEMMA RetryLeavesTraces ==
  ASSUME IndInv, NEW w \in Worker,
         NEW k \in 1 .. Len(proc[w].batch) + 1,
         k .. Len(proc[w].batch) \subseteq Unsettled(proc[w]),
         NEW lost, RetryFrom(w, proc[w].batch, k, lost)
  PROVE  /\ discarded \cup lost \subseteq discarded'
         /\ \A s : Held(s) =>
              \/ Held(s)' \/ GivenUp(s)'
              \/ \E i \in Unsettled(proc[w]) : i < k /\ proc[w].batch[i].src = s
<1> DEFINE batch == proc[w].batch
<1>1. /\ Len(queue) \in Nat /\ Len(batch) \in Nat /\ k \in Nat \ {0}
      /\ batch \in Seq(Event)
      /\ \A i \in 1 .. Len(batch) : batch[i] \in Event
      /\ Unsettled(proc[w]) \subseteq 1 .. Len(batch)
  <2>1. TypeOK /\ Placed
    BY DEF IndInv
  <2>2. /\ Len(queue) \in Nat /\ \A i \in 1 .. Len(queue) : queue[i] \in Event
        /\ Len(batch) \in Nat /\ batch \in Seq(Event)
        /\ \A i \in 1 .. Len(batch) : batch[i] \in Event
        /\ Unsettled(proc[w]) \subseteq 1 .. Len(batch)
    BY <2>1, StateFacts
  <2>3. k \in Nat \ {0}
    BY <2>2
  <2> QED
    BY <2>2, <2>3
<1>2. PICK stop \in k .. Len(batch) + 1 :
        \E f \in 0 .. stop - k : RetrySplit(w, batch, k, lost, stop, f)
  BY RetryFromSplits
<1>3. PICK fitting \in 0 .. stop - k : RetrySplit(w, batch, k, lost, stop, fitting)
  BY <1>2
<1>4. stop \in Nat /\ fitting \in Nat /\ k + fitting <= stop /\ stop <= Len(batch) + 1
  BY <1>1
<1> DEFINE q == IF stop > Len(batch)
                THEN Idle
                ELSE [pc |-> "dlq", batch |-> batch, at |-> stop, failed |-> 0]
<1>5. q \in Call /\ proc' = [proc EXCEPT ![w] = q]
  BY <1>1, <1>3, <1>4, EmptySeq DEF RetrySplit, Idle, Call
<1>6. /\ proc'[w] = q
      /\ \A v \in Worker : v # w => proc'[v] = proc[v]
  BY <1>5, OneCallMoves DEF IndInv
<1>7. /\ \A i \in 1 .. Len(queue) : queue'[i] = queue[i]
      /\ Len(queue') = Len(queue) + fitting
      /\ \A i \in 1 .. fitting : queue'[Len(queue) + i] = RetryEvent(batch[k + i - 1])
      /\ discarded' = discarded \cup lost
                      \cup {<<batch[j].src, "bufferFull">> : j \in k + fitting .. stop - 1}
  BY <1>3 DEF RetrySplit
<1>8. ASSUME NEW s, NEW i \in 1 .. Len(queue), queue[i].src = s
      PROVE  Held(s)'
  <2>1. i \in 1 .. Len(queue') /\ queue'[i].src = s
    BY <1>1, <1>4, <1>7, <1>8
  <2>2. QED
    BY <2>1 DEF Held
<1>9. ASSUME NEW s, NEW v \in Worker, v # w, NEW i \in Unsettled(proc[v]),
             proc[v].batch[i].src = s
      PROVE  Held(s)'
  BY <1>6, <1>9 DEF Held, Unsettled
<1>10. ASSUME NEW s, NEW i \in Unsettled(proc[w]), batch[i].src = s, ~ (i < k)
       PROVE  Held(s)' \/ GivenUp(s)'
  <2>1. i \in 1 .. Len(batch) /\ i \in Nat /\ k <= i
    BY <1>1, <1>10
  <2>2. CASE i < k + fitting
    <3> DEFINE m == i - k + 1
    <3>1. m \in 1 .. fitting /\ k + m - 1 = i
      BY <1>1, <1>4, <2>1, <2>2
    <3>2. queue'[Len(queue) + m] = RetryEvent(batch[i])
      BY <1>7, <3>1
    <3>5. queue'[Len(queue) + m].src = s
      BY <1>10, <3>2 DEF RetryEvent
    <3>3. Len(queue) + m \in 1 .. Len(queue')
      BY <1>1, <1>4, <1>7, <3>1
    <3>4. QED
      BY <3>3, <3>5 DEF Held
  <2>3. CASE k + fitting <= i /\ i < stop
    <3>1. i \in k + fitting .. stop - 1
      BY <1>1, <1>4, <2>1, <2>3
    <3>2. <<s, "bufferFull">> \in discarded'
      BY <1>7, <1>10, <3>1
    <3>3. QED
      BY <3>2 DEF GivenUp
  <2>4. CASE stop <= i
    <3>1. proc'[w] = [pc |-> "dlq", batch |-> batch, at |-> stop, failed |-> 0]
      BY <1>1, <1>4, <1>6, <2>1, <2>4
    <3>2. i \in Unsettled(proc'[w]) /\ proc'[w].batch[i].src = s
      BY <1>4, <1>10, <2>1, <2>4, <3>1 DEF Unsettled
    <3>3. QED
      BY <3>2 DEF Held, Unsettled
  <2>5. QED
    BY <1>1, <1>4, <2>1, <2>2, <2>3, <2>4
<1>11. QED
  BY <1>7, <1>8, <1>9, <1>10 DEF Held

--------------------------------------------------------------------------------
(* The steps of a call, by what they do to its copies                      *)

(* What is recorded stays recorded while the tables and the log only grow. *)
LEMMA RecordsStay ==
  ASSUME rows \subseteq rows', dlq \subseteq dlq', discarded \subseteq discarded', NEW s,
         Recorded(s)
  PROVE  Recorded(s)'
BY DEF Recorded, InDlq, GivenUp

(* A step in which call w settles some of its copies, all of them now in   *)
(* the events table, and gives none back.                                  *)
LEMMA SettlingStep ==
  ASSUME IndInv, NEW w \in Worker, NEW q \in Call,
         proc' = [proc EXCEPT ![w] = q],
         Unsettled(q) \subseteq Unsettled(proc[w]),
         q.batch = proc[w].batch \/ Unsettled(q) = {},
         \A i \in Unsettled(proc[w]) \ Unsettled(q) : Id(proc[w].batch[i]) \in rows',
         rows \subseteq rows', rows' \subseteq Source \X {0, 1},
         WellPlaced(proc[w])',
         UNCHANGED <<client, queue, dlq, discarded, attempts>>
  PROVE  IndInv' /\ NothingNew(w)
<1>1. /\ client' = client /\ queue' = queue /\ dlq' = dlq
      /\ discarded' = discarded /\ attempts' = attempts
  OBVIOUS
<1>2. /\ proc' \in [Worker -> Call] /\ proc'[w] = q
      /\ \A v \in Worker : v # w => proc'[v] = proc[v]
  BY OneCallMoves DEF IndInv
<1>3. TypeOK'
  <2>1. rows' \subseteq Source \X Nat
    OBVIOUS
  <2>2. QED
    BY <1>1, <1>2, <2>1 DEF IndInv, TypeOK
<1>4. Placed'
  BY PlacedStays DEF IndInv
<1>5. Traced' /\ Separate' /\ NothingNew(w)
  BY <1>1, SettlingKeeps
<1>6. /\ Untouched' /\ RowsOfTwoGens' /\ AttemptsBounded' /\ DlqMeansExhausted'
  BY <1>1 DEF IndInv, Untouched, Accepted, RowsOfTwoGens, AttemptsBounded,
              DlqMeansExhausted, InDlq
<1>7. ASSUME NEW s \in Source, Accepted(s)' PROVE Held(s)' \/ Recorded(s)'
  <2>1. CASE Recorded(s)
    BY <1>1, <2>1, RecordsStay
  <2>2. CASE \E i \in 1 .. Len(queue) : queue[i].src = s
    BY <1>1, <2>2 DEF Held
  <2>3. ASSUME NEW v \in Worker, v # w, NEW i \in Unsettled(proc[v]),
               proc[v].batch[i].src = s
        PROVE  Held(s)'
    BY <1>2, <2>3 DEF Held, Unsettled
  <2>4. ASSUME NEW i \in Unsettled(q), proc[w].batch[i].src = s
        PROVE  Held(s)'
    BY <1>2, <2>4 DEF Held, Unsettled
  <2>5. ASSUME NEW i \in Unsettled(proc[w]) \ Unsettled(q), proc[w].batch[i].src = s
        PROVE  Recorded(s)'
    BY <2>5 DEF Recorded, Id
  <2>6. Held(s) \/ Recorded(s)
    BY <1>1, <1>7 DEF IndInv, Kept, Accepted
  <2>7. QED
    BY <2>1, <2>2, <2>3, <2>4, <2>5, <2>6 DEF Held
<1>8. QED
  BY <1>3, <1>4, <1>5, <1>6, <1>7 DEF IndInv, Kept

(* A step in which call w goes on with retryFailed.                        *)
LEMMA RetryStep ==
  ASSUME IndInv, NEW w \in Worker,
         NEW k \in 1 .. Len(proc[w].batch) + 1,
         k .. Len(proc[w].batch) \subseteq Unsettled(proc[w]),
         NEW lost \in SUBSET (Source \X {"bufferFull", "dlqFailed"}),
         RetryFrom(w, proc[w].batch, k, lost),
         \A s \in Source : \A i \in Unsettled(proc[w]) :
           i < k /\ proc[w].batch[i].src = s => Recorded(s)',
         rows \subseteq rows', rows' \subseteq Source \X {0, 1},
         dlq \subseteq dlq', dlq' \subseteq Source \X Nat, DlqMeansExhausted',
         UNCHANGED <<client, attempts>>
  PROVE  IndInv' /\ NothingNew(w)
<1>1. client' = client /\ attempts' = attempts
  OBVIOUS
<1>2. /\ queue' \in Seq(Event) /\ Len(queue') <= MaxSize
      /\ proc' \in [Worker -> Call]
      /\ discarded' \subseteq Source \X {"bufferFull", "dlqFailed"}
      /\ Placed' /\ Traced' /\ Separate' /\ NothingNew(w)
  BY <1>1, RetryKeeps
<1>3. TypeOK'
  <2>1. rows' \subseteq Source \X Nat
    OBVIOUS
  <2>2. QED
    BY <1>1, <1>2, <2>1 DEF IndInv, TypeOK
<1>4. /\ Untouched' /\ RowsOfTwoGens' /\ AttemptsBounded'
  BY <1>1 DEF IndInv, Untouched, Accepted, RowsOfTwoGens, AttemptsBounded
<1>5. /\ discarded \subseteq discarded'
      /\ \A s : Held(s) =>
           \/ Held(s)' \/ GivenUp(s)'
           \/ \E i \in Unsettled(proc[w]) : i < k /\ proc[w].batch[i].src = s
  BY RetryLeavesTraces
<1>6. ASSUME NEW s \in Source, Accepted(s)' PROVE Held(s)' \/ Recorded(s)'
  <2>1. CASE Recorded(s)
    BY <1>5, <2>1, RecordsStay
  <2>2. CASE Held(s)
    BY <1>5, <2>2 DEF Recorded
  <2>3. QED
    BY <1>1, <1>6, <2>1, <2>2 DEF IndInv, Kept, Accepted
<1>7. QED
  BY <1>2, <1>3, <1>4, <1>6 DEF IndInv, Kept

(* When the service starts nothing is held anywhere.                       *)
LEMMA InitIndInv == Init => IndInv
<1> SUFFICES ASSUME Init PROVE IndInv
  OBVIOUS
<1>1. MaxSize \in Nat \ {0} /\ MaxRetries \in Nat
  BY PipelineAssumption DEF PipelineAssumption
<1>2. Idle \in Call /\ Unsettled(Idle) = {}
  BY EmptySeq DEF Idle, Call, Unsettled
<1>3. queue \in Seq(Event) /\ Len(queue) = 0
  BY EmptySeq DEF Init
<1>4. TypeOK
  BY <1>1, <1>2, <1>3 DEF Init, TypeOK
<1>5. Placed
  BY DEF Init, Placed, WellPlaced, Idle
<1>6. Traced /\ Separate
  BY <1>2, <1>3 DEF Init, Traced, Separate
<1>7. Kept /\ Untouched /\ RowsOfTwoGens /\ AttemptsBounded /\ DlqMeansExhausted
  BY <1>1 DEF Init, Kept, Untouched, Accepted, RowsOfTwoGens, AttemptsBounded,
              DlqMeansExhausted, InDlq
<1>8. QED
  BY <1>4, <1>5, <1>6, <1>7 DEF IndInv

(* A new copy of an event nothing works on yet.                            *)
LEMMA IngestStep ==
  ASSUME IndInv, NEW s \in Source, Ingest(s)
  PROVE  IndInv'
<1> DEFINE e == [src |-> s, gen |-> 0, retry |-> 0]
<1>1. /\ ~ Accepted(s) /\ Len(queue) < MaxSize
      /\ queue' = Append(queue, e)
      /\ client' = [client EXCEPT ![s] = "accepted"]
      /\ proc' = proc /\ rows' = rows /\ dlq' = dlq
      /\ discarded' = discarded /\ attempts' = attempts
  BY DEF Ingest, HasRoom, Accepted
<1>2. /\ MaxSize \in Nat /\ MaxRetries \in Nat
      /\ Len(queue) \in Nat /\ queue \in Seq(Event)
      /\ \A i \in 1 .. Len(queue) : queue[i] \in Event
      /\ \A w \in Worker : \A i \in Unsettled(proc[w]) : proc[w].batch[i] \in Event
  BY StateFacts DEF IndInv, TypeOK
<1>3. e \in Event
  BY <1>2 DEF Event
<1>4. /\ queue' \in Seq(Event) /\ Len(queue') = Len(queue) + 1
      /\ \A i \in 1 .. Len(queue) : queue'[i] = queue[i]
      /\ queue'[Len(queue) + 1] = e
  BY <1>1, <1>2, <1>3, AppendProperties
<1>5. TypeOK'
  BY <1>1, <1>2, <1>4 DEF IndInv, TypeOK
<1>6. Placed' /\ RowsOfTwoGens' /\ AttemptsBounded' /\ DlqMeansExhausted'
  BY <1>1 DEF IndInv, Placed, WellPlaced, RowsOfTwoGens, AttemptsBounded,
              DlqMeansExhausted, InDlq
<1>7. /\ Accepted(s)'
      /\ \A r \in Source : r # s => (Accepted(r)' <=> Accepted(r))
  BY <1>1 DEF Accepted, IndInv, TypeOK
<1>8. Untouched' /\ attempts[s] = 0
  BY <1>1, <1>7 DEF IndInv, Untouched
<1>9. Traced'
  <2>1. \A x \in Event, n \in Nat : Carries(x, n) => Carries(x, n)'
    BY <1>1, <1>7 DEF Carries, Accepted, Event
  <2>2. Carries(e, 0)'
    BY <1>1, <1>7, <1>8 DEF Carries
  <2>3. \A x \in Event : x.retry \in Nat /\ x.retry + 1 \in Nat
    BY <1>2 DEF Event
  <2>4. ASSUME NEW i \in 1 .. Len(queue')
        PROVE  Carries(queue[i], queue[i].retry)'
    <3>1. CASE i \in 1 .. Len(queue)
      BY <1>2, <1>4, <2>1, <2>3, <3>1 DEF IndInv, Traced
    <3>2. CASE i = Len(queue) + 1
      BY <1>1, <1>4, <1>7, <1>8, <3>2 DEF Carries
    <3>3. QED
      BY <1>2, <1>4, <3>1, <3>2
  <2>5. ASSUME NEW w \in Worker, NEW i \in Unsettled(proc[w])
        PROVE  Carries(proc[w].batch[i], proc[w].batch[i].retry + 1)'
    BY <1>1, <1>2, <2>1, <2>3 DEF IndInv, Traced
  <2>6. QED
    BY <1>1, <2>4, <2>5 DEF Traced, Unsettled
<1>10. Separate'
  <2>1. \A i \in 1 .. Len(queue) : queue[i].src # s
    BY <1>1 DEF IndInv, Traced, Carries
  <2>2. \A w \in Worker : \A i \in Unsettled(proc[w]) : proc[w].batch[i].src # s
    BY <1>1 DEF IndInv, Traced, Carries
  <2>3. ASSUME NEW i \in 1 .. Len(queue'), i \notin 1 .. Len(queue)
        PROVE  i = Len(queue) + 1 /\ queue'[i].src = s
    BY <1>2, <1>4, <2>3
  <2>4. \A i, j \in 1 .. Len(queue') : queue'[i].src = queue'[j].src => i = j
    BY <1>4, <2>1, <2>3 DEF IndInv, Separate
  <2>5. \A w \in Worker : \A i \in Unsettled(proc[w]), j \in 1 .. Len(queue') :
          proc[w].batch[i].src # queue'[j].src
    BY <1>4, <2>2, <2>3 DEF IndInv, Separate
  <2>6. QED
    BY <1>1, <2>4, <2>5 DEF IndInv, Separate, Unsettled
<1>11. ASSUME NEW r \in Source, Accepted(r)' PROVE Held(r)' \/ Recorded(r)'
  <2>1. Len(queue) + 1 \in 1 .. Len(queue')
    BY <1>2, <1>4
  <2>2. Held(s)'
    BY <1>4, <2>1 DEF Held
  <2>3. CASE r # s
    <3>1. Held(r) \/ Recorded(r)
      BY <1>7, <1>11, <2>3 DEF IndInv, Kept
    <3>2. \A i \in 1 .. Len(queue) : i \in 1 .. Len(queue')
      BY <1>2, <1>4
    <3>3. Held(r) => Held(r)'
      BY <1>1, <1>4, <3>2 DEF Held, Unsettled
    <3>4. Recorded(r) => Recorded(r)'
      BY <1>1 DEF Recorded, InDlq, GivenUp
    <3>5. QED
      BY <3>1, <3>3, <3>4
  <2>4. QED
    BY <2>2, <2>3
<1>12. QED
  BY <1>5, <1>6, <1>8, <1>9, <1>10, <1>11 DEF IndInv, Kept

(* A rejected client has no copy, before or after.                         *)
LEMMA IngestRejectedStep ==
  ASSUME IndInv, NEW s \in Source, IngestRejected(s)
  PROVE  IndInv'
<1>1. /\ client[s] = "new" /\ client' = [client EXCEPT ![s] = "rejected"]
      /\ queue' = queue /\ proc' = proc /\ rows' = rows /\ dlq' = dlq
      /\ discarded' = discarded /\ attempts' = attempts
  BY DEF IngestRejected
<1>2. \A r \in Source : Accepted(r)' <=> Accepted(r)
  BY <1>1 DEF IndInv, TypeOK, Accepted
<1>3. /\ \A i \in 1 .. Len(queue) : queue[i] \in Event
      /\ \A w \in Worker : \A i \in Unsettled(proc[w]) : proc[w].batch[i] \in Event
  BY StateFacts DEF IndInv
<1>4. TypeOK' /\ Placed' /\ RowsOfTwoGens' /\ AttemptsBounded' /\ DlqMeansExhausted'
  BY <1>1 DEF IndInv, TypeOK, Placed, WellPlaced, RowsOfTwoGens, AttemptsBounded,
              DlqMeansExhausted, InDlq
<1>5. Untouched' /\ Kept'
  BY <1>1, <1>2 DEF IndInv, Untouched, Kept, Held, Unsettled, Recorded, InDlq, GivenUp
<1>6. Traced'
  <2>1. \A x \in Event : \A n : Carries(x, n) => Carries(x, n)'
    BY <1>1, <1>2 DEF Carries, Event
  <2>2. ASSUME NEW i \in 1 .. Len(queue)
        PROVE  Carries(queue[i], queue[i].retry)'
    BY <1>1, <1>2, <1>3, <2>1 DEF IndInv, Traced
  <2>3. ASSUME NEW w \in Worker, NEW i \in Unsettled(proc[w])
        PROVE  Carries(proc[w].batch[i], proc[w].batch[i].retry + 1)'
    BY <1>1, <1>2, <1>3, <2>1 DEF IndInv, Traced
  <2>4. QED
    BY <1>1, <2>2, <2>3 DEF Traced, Unsettled
<1>7. Separate'
  BY <1>1 DEF IndInv, Separate, Unsettled
<1>8. QED
  BY <1>4, <1>5, <1>6, <1>7 DEF IndInv

(* drain moves the front of the buffer, copy by copy, into the batch, and  *)
(* counts one batch more for exactly the events it moves.                  *)
LEMMA TickStep ==
  ASSUME IndInv, NEW w \in Worker, Tick(w)
  PROVE  IndInv'
<1> DEFINE n == Least(BatchSize, Len(queue))
           batch == SubSeq(queue, 1, n)
           q == [pc |-> "tx", batch |-> batch, at |-> 0, failed |-> 0]
           Drained(s) == \E i \in 1 .. n : queue[i].src = s
<1>1. /\ MaxSize \in Nat /\ BatchSize \in Nat \ {0} /\ MaxRetries \in Nat
      /\ Len(queue) \in Nat /\ Len(queue) <= MaxSize /\ queue \in Seq(Event)
      /\ \A i \in 1 .. Len(queue) : queue[i] \in Event
      /\ \A v \in Worker : \A i \in Unsettled(proc[v]) : proc[v].batch[i] \in Event
  BY StateFacts DEF IndInv, TypeOK
<1>2. /\ proc[w].pc = "idle" /\ queue # << >>
      /\ queue' = SubSeq(queue, n + 1, Len(queue))
      /\ proc' = [proc EXCEPT ![w] = q]
      /\ attempts' = [s \in Source |->
           IF \E i \in 1 .. n : batch[i].src = s
           THEN Least(attempts[s] + 1, MaxRetries + 2)
           ELSE attempts[s]]
      /\ client' = client /\ rows' = rows /\ dlq' = dlq /\ discarded' = discarded
  BY DEF Tick, Undrained
<1>3. n \in 1 .. Len(queue)
  BY <1>1, <1>2, EmptySeq DEF Least
<1> HIDE DEF n
<1>4. /\ batch \in Seq(Event) /\ Len(batch) = n
      /\ \A i \in 1 .. n : batch[i] = queue[i]
  <2>1. \A i \in 1 .. n : queue[i] \in Event
    BY <1>1, <1>3
  <2>2. QED
    BY <1>1, <1>3, <2>1, SubSeqProperties
<1>5. /\ queue' \in Seq(Event) /\ Len(queue') = Len(queue) - n
      /\ \A i \in 1 .. Len(queue) - n : n + i \in 1 .. Len(queue) /\ queue'[i] = queue[n + i]
  <2>1. \A i \in n + 1 .. Len(queue) : queue[i] \in Event
    BY <1>1, <1>3
  <2>2. /\ SubSeq(queue, n + 1, Len(queue)) \in Seq(Event)
        /\ Len(SubSeq(queue, n + 1, Len(queue))) = Len(queue) - n
        /\ \A i \in 1 .. Len(queue) - n : SubSeq(queue, n + 1, Len(queue))[i] = queue[n + i]
    BY <1>1, <1>3, <2>1, SubSeqProperties
  <2>3. QED
    BY <1>1, <1>2, <1>3, <2>2
<1> HIDE DEF batch
<1>6. q \in Call
  BY <1>4 DEF Call
<1>7. /\ proc' \in [Worker -> Call] /\ proc'[w] = q
      /\ \A v \in Worker : v # w => proc'[v] = proc[v]
  BY <1>2, <1>6, OneCallMoves DEF IndInv
<1>8. Unsettled(proc[w]) = {} /\ Unsettled(q) = 1 .. n
  BY <1>2, <1>4, EmptySeq DEF IndInv, Placed, WellPlaced, Unsettled
<1>9. /\ \A s \in Source : Drained(s) => attempts'[s] = Least(attempts[s] + 1, MaxRetries + 2)
      /\ \A s \in Source : ~ Drained(s) => attempts'[s] = attempts[s]
  BY <1>2, <1>4
<1>10. attempts \in [Source -> Nat] /\ attempts' \in [Source -> Nat]
  <2>1. attempts \in [Source -> Nat]
    BY DEF IndInv, TypeOK
  <2>2. \A s \in Source : Least(attempts[s] + 1, MaxRetries + 2) \in Nat
    BY <1>1, <2>1 DEF Least
  <2>3. QED
    BY <1>2, <2>1, <2>2
<1>11. TypeOK'
  BY <1>1, <1>2, <1>3, <1>5, <1>7, <1>10 DEF IndInv, TypeOK
<1>12. Placed'
  <2>1. q.batch # << >>
    BY <1>3, <1>4, EmptySeq
  <2>2. WellPlaced(proc[w])'
    BY <1>7, <2>1 DEF WellPlaced
  <2>3. QED
    BY <1>2, <1>6, <2>2, PlacedStays DEF IndInv
<1>13. ASSUME NEW i \in 1 .. n
       PROVE  /\ queue[i] \in Event
              /\ Accepted(queue[i].src)
              /\ attempts[queue[i].src] = queue[i].retry
              /\ attempts'[queue[i].src] = queue[i].retry + 1
              /\ queue[i].retry = 0 \/ queue[i].retry < MaxRetries
              /\ queue[i].gen = (IF queue[i].retry = 0 THEN 0 ELSE 1)
              /\ ~ InDlq(queue[i].src)
  <2> DEFINE e == queue[i]
  <2>1. e \in Event /\ Carries(e, e.retry)
    BY <1>1, <1>3 DEF IndInv, Traced
  <2>2. /\ e.src \in Source /\ e.retry \in Nat /\ e.retry <= MaxRetries
        /\ Accepted(e.src) /\ attempts[e.src] = e.retry
        /\ e.retry = 0 \/ e.retry < MaxRetries
        /\ e.gen = (IF e.retry = 0 THEN 0 ELSE 1)
    BY <1>1, <2>1 DEF Event, Carries
  <2>3. attempts'[e.src] = e.retry + 1
    BY <1>1, <1>9, <2>2 DEF Least
  <2>4. ~ InDlq(e.src)
    BY <1>1, <2>2 DEF IndInv, DlqMeansExhausted
  <2>5. QED
    BY <2>1, <2>2, <2>3, <2>4
<1>14. \A s : Accepted(s)' <=> Accepted(s)
  BY <1>2 DEF Accepted
<1>15. ASSUME NEW e \in Event, NEW m, Carries(e, m), ~ Drained(e.src)
       PROVE  Carries(e, m)'
  BY <1>2, <1>9, <1>15 DEF Carries, Accepted, Event
<1>16. \A i, j \in 1 .. Len(queue) : queue[i].src = queue[j].src => i = j
  BY DEF IndInv, Separate
<1>17. \A i \in 1 .. Len(queue) : n < i => ~ Drained(queue[i].src)
  BY <1>1, <1>3, <1>16
<1>18. \A v \in Worker : \A i \in Unsettled(proc[v]) : ~ Drained(proc[v].batch[i].src)
  BY <1>1, <1>3 DEF IndInv, Separate
<1>19. Traced'
  <2>1. ASSUME NEW i \in 1 .. Len(queue')
        PROVE  Carries(queue[i], queue[i].retry)'
    <3>1. /\ n + i \in 1 .. Len(queue) /\ n < n + i
          /\ queue'[i] = queue[n + i]
      BY <1>1, <1>3, <1>5
    <3>2. queue'[i] \in Event /\ Carries(queue'[i], queue'[i].retry)
      BY <1>1, <3>1 DEF IndInv, Traced
    <3>3. ~ Drained(queue'[i].src)
      BY <1>17, <3>1
    <3>4. QED
      BY <1>15, <3>2, <3>3
  <2>2. ASSUME NEW v \in Worker, v # w, NEW i \in Unsettled(proc'[v])
        PROVE  Carries(proc[v].batch[i], proc[v].batch[i].retry + 1)'
    BY <1>1, <1>7, <1>15, <1>18, <2>2 DEF IndInv, Traced
  <2>3. ASSUME NEW i \in Unsettled(proc'[w])
        PROVE  Carries(proc[w].batch[i], proc[w].batch[i].retry + 1)'
    <3>1. i \in 1 .. n /\ proc'[w].batch[i] = queue[i]
      BY <1>4, <1>7, <1>8, <2>3
    <3>2. QED
      BY <1>13, <1>14, <3>1 DEF Carries
  <2>4. QED
    BY <2>1, <2>2, <2>3 DEF Traced, Unsettled
<1>20. Separate'
  <2>1. ASSUME NEW i \in 1 .. Len(queue'), NEW j \in 1 .. Len(queue'),
               queue'[i].src = queue'[j].src
        PROVE  i = j
    <3>1. /\ n + i \in 1 .. Len(queue) /\ queue'[i] = queue[n + i]
          /\ n + j \in 1 .. Len(queue) /\ queue'[j] = queue[n + j]
      BY <1>5
    <3>2. n + i = n + j
      BY <1>16, <2>1, <3>1
    <3>3. QED
      BY <1>1, <1>3, <1>5, <3>2
  <2>2. ASSUME NEW v \in Worker, NEW i \in Unsettled(proc'[v]), NEW j \in 1 .. Len(queue')
        PROVE  proc'[v].batch[i].src # queue'[j].src
    <3>1. n + j \in 1 .. Len(queue) /\ n < n + j /\ queue'[j] = queue[n + j]
      BY <1>1, <1>3, <1>5
    <3>2. CASE v = w
      <4>1. i \in 1 .. n /\ proc'[w].batch[i] = queue[i]
        BY <1>4, <1>7, <1>8, <2>2, <3>2
      <4>2. QED
        BY <1>17, <3>1, <3>2, <4>1
    <3>3. CASE v # w
      BY <1>7, <2>2, <3>1, <3>3 DEF IndInv, Separate
    <3>4. QED
      BY <3>2, <3>3
  <2>3. ASSUME NEW u \in Worker, NEW v \in Worker,
               NEW i \in Unsettled(proc'[u]), NEW j \in Unsettled(proc'[v]),
               proc'[u].batch[i].src = proc'[v].batch[j].src
        PROVE  u = v /\ i = j
    <3>1. ASSUME NEW m \in Unsettled(proc'[w])
          PROVE  m \in 1 .. n /\ m \in 1 .. Len(queue) /\ proc'[w].batch[m] = queue[m]
      BY <1>1, <1>3, <1>4, <1>7, <1>8, <3>1
    <3>2. CASE u # w /\ v # w
      BY <1>7, <2>3, <3>2 DEF IndInv, Separate
    <3>3. CASE u = w /\ v # w
      BY <1>7, <1>18, <2>3, <3>1, <3>3
    <3>4. CASE u # w /\ v = w
      BY <1>7, <1>18, <2>3, <3>1, <3>4
    <3>5. CASE u = w /\ v = w
      BY <1>16, <2>3, <3>1, <3>5
    <3>6. QED
      BY <3>2, <3>3, <3>4, <3>5
  <2>4. QED
    BY <2>1, <2>2, <2>3 DEF Separate, Unsettled
<1>21. Untouched'
  BY <1>9, <1>13, <1>14 DEF IndInv, Untouched
<1>22. RowsOfTwoGens'
  BY <1>2 DEF IndInv, RowsOfTwoGens
<1>23. AttemptsBounded'
  <2>1. ASSUME NEW s \in Source, Drained(s)
        PROVE  attempts'[s] <= (IF MaxRetries = 0 THEN 1 ELSE MaxRetries)
    BY <1>1, <1>13, <2>1 DEF Event
  <2>2. QED
    BY <1>9, <2>1 DEF IndInv, AttemptsBounded
<1>24. DlqMeansExhausted'
  <2>1. \A s : InDlq(s)' <=> InDlq(s)
    BY <1>2 DEF InDlq
  <2>2. QED
    BY <1>9, <1>13, <2>1 DEF IndInv, DlqMeansExhausted
<1>25. ASSUME NEW s \in Source, Accepted(s)' PROVE Held(s)' \/ Recorded(s)'
  <2>1. CASE Recorded(s)
    BY <1>2, <2>1 DEF Recorded, InDlq, GivenUp
  <2>2. ASSUME NEW i \in 1 .. Len(queue), queue[i].src = s
        PROVE  Held(s)'
    <3>1. CASE i <= n
      <4>1. i \in Unsettled(proc'[w]) /\ proc'[w].batch[i].src = s
        BY <1>1, <1>3, <1>4, <1>7, <1>8, <2>2, <3>1
      <4>2. QED
        BY <4>1 DEF Held, Unsettled
    <3>2. CASE n < i
      <4>1. i - n \in 1 .. Len(queue') /\ n + (i - n) = i
        BY <1>1, <1>3, <1>5, <2>2, <3>2
      <4>2. queue'[i - n].src = s
        BY <1>5, <2>2, <4>1
      <4>3. QED
        BY <4>1, <4>2 DEF Held
    <3>3. QED
      BY <1>1, <1>3, <3>1, <3>2
  <2>3. ASSUME NEW v \in Worker, NEW i \in Unsettled(proc[v]), proc[v].batch[i].src = s
        PROVE  Held(s)'
    BY <1>7, <1>8, <2>3 DEF Held, Unsettled
  <2>4. Held(s) \/ Recorded(s)
    BY <1>14, <1>25 DEF IndInv, Kept
  <2>5. QED
    BY <2>1, <2>2, <2>3, <2>4 DEF Held
<1>26. QED
  BY <1>11, <1>12, <1>19, <1>20, <1>21, <1>22, <1>23, <1>24, <1>25 DEF IndInv, Kept

(* An event of a batch gets into the table with one of two generations.    *)
LEMMA BatchIds ==
  ASSUME IndInv, NEW w \in Worker, NEW i \in Unsettled(proc[w])
  PROVE  Id(proc[w].batch[i]) \in Source \X {0, 1}
<1>1. proc[w].batch[i] \in Event
  BY StateFacts DEF IndInv
<1>2. Carries(proc[w].batch[i], proc[w].batch[i].retry + 1)
  BY DEF IndInv, Traced
<1>3. QED
  BY <1>1, <1>2 DEF Carries, Event, Id

(* The steps that end the transaction: it commits and the call ends, or    *)
(* the call turns to individual inserts, whether or not anything was       *)
(* stored.                                                                 *)
LEMMA TransactionStep ==
  ASSUME IndInv, NEW w \in Worker, TxCommits(w) \/ TxFails(w) \/ TxAnswerLost(w)
  PROVE  IndInv' /\ NothingNew(w)
<1> DEFINE batch == proc[w].batch
<1>1. /\ IndividualLimit \in Nat \ {0}
      /\ proc[w] \in Call /\ batch \in Seq(Event) /\ Len(batch) \in Nat
  BY StateFacts DEF IndInv
<1>2. /\ proc[w].pc = "tx"
      /\ UNCHANGED <<client, queue, dlq, discarded, attempts>>
      /\ rows' = rows \/ rows' = rows \cup Ids(batch)
  BY DEF TxCommits, TxFails, TxAnswerLost
<1>3. Unsettled(proc[w]) = 1 .. Len(batch) /\ Len(batch) # 0
  BY <1>1, <1>2, EmptySeq DEF Unsettled, IndInv, Placed, WellPlaced
<1>4. Ids(batch) \subseteq Source \X {0, 1}
  BY <1>1, <1>3, BatchIds, LenProperties DEF Ids
<1>5. rows \subseteq rows' /\ rows' \subseteq Source \X {0, 1}
  BY <1>2, <1>4 DEF IndInv, RowsOfTwoGens
<1>6. CASE TxCommits(w)
  <2>1. proc' = [proc EXCEPT ![w] = Idle] /\ rows' = rows \cup Ids(batch)
    BY <1>6 DEF TxCommits
  <2>2. Idle \in Call /\ Unsettled(Idle) = {}
    BY EmptySeq DEF Idle, Call, Unsettled
  <2>3. proc'[w] = Idle
    BY <2>1, <2>2, OneCallMoves DEF IndInv
  <2>4. WellPlaced(proc[w])'
    BY <2>3 DEF WellPlaced, Idle
  <2>5. \A i \in Unsettled(proc[w]) \ Unsettled(Idle) : Id(batch[i]) \in rows'
    BY <1>1, <1>3, <2>1, LenProperties DEF Ids
  <2>6. QED
    BY <1>2, <1>5, <2>1, <2>2, <2>4, <2>5, SettlingStep
<1>7. CASE TxFails(w) \/ TxAnswerLost(w)
  <2> DEFINE q == [proc[w] EXCEPT !.pc = "single", !.at = 1]
  <2>1. proc' = [proc EXCEPT ![w] = q]
    BY <1>7 DEF TxFails, TxAnswerLost, TurnsToIndividualInserts
  <2>2. /\ q \in Call /\ q.pc = "single" /\ q.at = 1 /\ q.batch = batch
    BY <1>1 DEF Call
  <2> HIDE DEF q
  <2>3. Unsettled(q) = Unsettled(proc[w])
    BY <1>3, <2>2 DEF Unsettled
  <2>4. proc'[w] = q
    BY <2>1, <2>2, OneCallMoves DEF IndInv
  <2>5. 1 \in 1 .. Tried(batch)
    BY <1>1, <1>3 DEF Tried, Least
  <2>6. WellPlaced(proc[w])'
    BY <2>2, <2>4, <2>5 DEF WellPlaced, Tried
  <2>7. QED
    BY <1>2, <1>5, <2>1, <2>2, <2>3, <2>6, SettlingStep
<1>8. QED
  BY <1>6, <1>7

(* An individual insert has ended.  Only when all inserts were reported as *)
(* done and none was left untried does the call end without a retry, and   *)
(* then every event of the batch is in the table.                          *)
LEMMA InsertEndsStep ==
  ASSUME IndInv, NEW w \in Worker, NEW f \in {0, 1},
         proc[w].pc = "single", IndividualInsertEnds(w, f),
         rows \subseteq rows', rows' \subseteq Source \X {0, 1},
         f = 0 => Id(proc[w].batch[proc[w].at]) \in rows',
         UNCHANGED <<client, dlq, attempts>>
  PROVE  IndInv' /\ NothingNew(w)
<1> DEFINE batch == proc[w].batch
           at == proc[w].at
           failed == proc[w].failed
<1>1. /\ proc[w] \in Call /\ batch \in Seq(Event) /\ Len(batch) \in Nat
      /\ at \in Nat /\ failed \in Nat /\ IndividualLimit \in Nat \ {0}
  BY StateFacts DEF IndInv, Call
<1>2. /\ Unsettled(proc[w]) = 1 .. Len(batch)
      /\ at \in 1 .. Tried(batch)
      /\ failed = 0 => \A i \in 1 .. at - 1 : Id(batch[i]) \in rows
  BY DEF Unsettled, IndInv, Placed, WellPlaced
<1>3. Tried(batch) \in 1 .. Len(batch)
  BY <1>1, <1>2 DEF Tried, Least
<1>4. CASE /\ at # Tried(batch)
           /\ proc' = [proc EXCEPT ![w] = [proc[w] EXCEPT !.at = at + 1, !.failed = failed + f]]
           /\ UNCHANGED <<queue, discarded>>
  <2> DEFINE q == [proc[w] EXCEPT !.at = at + 1, !.failed = failed + f]
  <2>1. proc' = [proc EXCEPT ![w] = q]
    BY <1>4
  <2>9. at + 1 \in Nat /\ failed + f \in Nat
    BY <1>1
  <2>2. /\ q \in Call /\ q.pc = "single" /\ q.at = at + 1
        /\ q.failed = failed + f /\ q.batch = batch
    BY <1>1, <2>9 DEF Call
  <2> HIDE DEF q
  <2>3. Unsettled(q) = Unsettled(proc[w])
    BY <1>2, <2>2 DEF Unsettled
  <2>4. proc'[w] = q
    BY <2>1, <2>2, OneCallMoves DEF IndInv
  <2>5. at + 1 \in 1 .. Tried(batch)
    BY <1>1, <1>2, <1>3, <1>4
  <2>6. failed + f = 0 => \A i \in 1 .. (at + 1) - 1 : Id(batch[i]) \in rows'
    <3>1. SUFFICES ASSUME failed + f = 0, NEW i \in 1 .. at
                   PROVE  Id(batch[i]) \in rows'
      BY <1>1
    <3>2. failed = 0 /\ f = 0
      BY <1>1, <3>1
    <3>3. CASE i = at
      BY <3>2, <3>3
    <3>4. CASE i \in 1 .. at - 1
      BY <1>2, <3>2, <3>4
    <3>5. QED
      BY <1>1, <3>3, <3>4
  <2>7. WellPlaced(proc[w])'
    BY <2>2, <2>4, <2>5, <2>6 DEF WellPlaced
  <2>8. QED
    BY <1>4, <2>1, <2>2, <2>3, <2>7, SettlingStep
<1>5. CASE /\ at = Tried(batch)
           /\ failed + f + Untried(batch) = 0
           /\ proc' = [proc EXCEPT ![w] = Idle]
           /\ UNCHANGED <<queue, discarded>>
  <2>1. Idle \in Call /\ Unsettled(Idle) = {}
    BY EmptySeq DEF Idle, Call, Unsettled
  <2>2. proc'[w] = Idle
    BY <1>5, <2>1, OneCallMoves DEF IndInv
  <2>3. WellPlaced(proc[w])'
    BY <2>2 DEF WellPlaced, Idle
  <2>4. failed = 0 /\ f = 0 /\ at = Len(batch)
    BY <1>1, <1>3, <1>5 DEF Untried
  <2>5. \A i \in Unsettled(proc[w]) \ Unsettled(Idle) : Id(batch[i]) \in rows'
    BY <1>1, <1>2, <2>4
  <2>6. QED
    BY <1>5, <2>1, <2>3, <2>5, SettlingStep
<1>6. CASE RetryFrom(w, batch, 1, {})
  <2>1. 1 \in 1 .. Len(batch) + 1 /\ 1 .. Len(batch) \subseteq Unsettled(proc[w])
    BY <1>1, <1>2
  <2>2. \A i \in Unsettled(proc[w]) : ~ (i < 1)
    BY <1>1, <1>2
  <2>3. dlq' \subseteq Source \X Nat /\ DlqMeansExhausted'
    BY DEF IndInv, TypeOK, DlqMeansExhausted, InDlq
  <2>4. {} \in SUBSET (Source \X {"bufferFull", "dlqFailed"}) /\ dlq \subseteq dlq'
    OBVIOUS
  <2>5. ASSUME NEW s \in Source, NEW i \in Unsettled(proc[w]), i < 1, batch[i].src = s
        PROVE  Recorded(s)'
    BY <2>2, <2>5
  <2>6. UNCHANGED <<client, attempts>>
    OBVIOUS
  <2> HIDE DEF batch
  <2>7. QED
    BY <1>6, <2>1, <2>3, <2>4, <2>5, <2>6, RetryStep DEF batch
<1>7. QED
  BY <1>4, <1>5, <1>6 DEF IndividualInsertEnds

(* An individual insert ends, with or without its row, with or without its *)
(* answer.                                                                 *)
LEMMA IndividualStep ==
  ASSUME IndInv, NEW w \in Worker,
         IndividualInserted(w) \/ IndividualFails(w) \/ IndividualAnswerLost(w)
  PROVE  IndInv' /\ NothingNew(w)
<1> DEFINE id == Id(proc[w].batch[proc[w].at])
<1>1. /\ proc[w].pc = "single" /\ UNCHANGED <<client, dlq, attempts>>
      /\ rows' = rows \/ rows' = rows \cup {id}
  BY DEF IndividualInserted, IndividualFails, IndividualAnswerLost
<1>2. id \in Source \X {0, 1}
  <2>1. /\ proc[w].batch \in Seq(Event) /\ Len(proc[w].batch) \in Nat
        /\ IndividualLimit \in Nat
    BY StateFacts DEF IndInv
  <2>2. proc[w].at \in 1 .. Tried(proc[w].batch)
    BY <1>1 DEF IndInv, Placed, WellPlaced
  <2>3. proc[w].at \in Unsettled(proc[w])
    BY <1>1, <2>1, <2>2 DEF Tried, Least, Unsettled
  <2>4. QED
    BY <2>3, BatchIds
<1>3. rows \subseteq rows' /\ rows' \subseteq Source \X {0, 1}
  BY <1>1, <1>2 DEF IndInv, RowsOfTwoGens
<1>4. CASE IndividualInserted(w)
  <2>1. IndividualInsertEnds(w, 0) /\ id \in rows'
    BY <1>4 DEF IndividualInserted
  <2>2. QED
    BY <1>1, <1>3, <2>1, InsertEndsStep
<1>5. CASE IndividualFails(w) \/ IndividualAnswerLost(w)
  <2>1. IndividualInsertEnds(w, 1)
    BY <1>5 DEF IndividualFails, IndividualAnswerLost
  <2>2. QED
    BY <1>1, <1>3, <2>1, InsertEndsStep
<1>6. QED
  BY <1>4, <1>5

(* The attempt after which a retry count is exhausted is the last one.     *)
LEMMA LastAttempt ==
  ASSUME NEW r \in Nat, r = 0 \/ r < MaxRetries, Least(r + 1, MaxRetries) >= MaxRetries
  PROVE  r + 1 = (IF MaxRetries = 0 THEN 1 ELSE MaxRetries)
<1>1. MaxRetries \in Nat
  BY PipelineAssumption DEF PipelineAssumption
<1>2. CASE MaxRetries = 0
  BY <1>2
<1>3. CASE MaxRetries # 0
  BY <1>1, <1>3 DEF Least
<1>4. QED
  BY <1>2, <1>3

(* addToDLQ was answered: the exhausted event is in the dead letter queue  *)
(* or its loss is logged, or both, and the loop goes on behind it.         *)
LEMMA DlqStep ==
  ASSUME IndInv, NEW w \in Worker, DlqStores(w) \/ DlqFails(w) \/ DlqAnswerLost(w)
  PROVE  IndInv' /\ NothingNew(w)
<1> DEFINE batch == proc[w].batch
           at == proc[w].at
<1>1. /\ MaxRetries \in Nat /\ batch \in Seq(Event) /\ Len(batch) \in Nat
      /\ \A i \in 1 .. Len(batch) : batch[i] \in Event
  BY StateFacts DEF IndInv
<1>2. proc[w].pc = "dlq" /\ UNCHANGED <<client, rows, attempts>>
  BY DEF DlqStores, DlqFails, DlqAnswerLost
<1>3. at \in 1 .. Len(batch) /\ Exhausted(batch[at])
  BY <1>2 DEF IndInv, Placed, WellPlaced
<1>4. Unsettled(proc[w]) = at .. Len(batch) /\ at \in Unsettled(proc[w])
  BY <1>1, <1>2, <1>3 DEF Unsettled
<1>5. /\ at + 1 \in 1 .. Len(batch) + 1
      /\ at + 1 .. Len(batch) \subseteq Unsettled(proc[w])
      /\ \A i \in Unsettled(proc[w]) : i < at + 1 => i = at
  BY <1>1, <1>3, <1>4
<1>6. batch[at] \in Event /\ Carries(batch[at], batch[at].retry + 1)
  BY <1>1, <1>3, <1>4 DEF IndInv, Traced
<1>7. /\ batch[at].src \in Source
      /\ attempts[batch[at].src] = (IF MaxRetries = 0 THEN 1 ELSE MaxRetries)
  <2>1. batch[at].src \in Source /\ batch[at].retry \in Nat
    BY <1>1, <1>6 DEF Event
  <2>2. Least(batch[at].retry + 1, MaxRetries) >= MaxRetries
    BY <1>3 DEF Exhausted, RetryCount
  <2>3. batch[at].retry = 0 \/ batch[at].retry < MaxRetries
    BY <1>6 DEF Carries
  <2>4. batch[at].retry + 1 = (IF MaxRetries = 0 THEN 1 ELSE MaxRetries)
    BY <2>1, <2>2, <2>3, LastAttempt
  <2>5. QED
    BY <1>6, <2>1, <2>4 DEF Carries
<1>8. Id(batch[at]) \in Source \X {0, 1}
  BY <1>4, BatchIds
<1>9. rows \subseteq rows' /\ rows' \subseteq Source \X {0, 1}
  BY <1>2 DEF IndInv, RowsOfTwoGens
<1>10. ASSUME NEW lost \in SUBSET {<<batch[at].src, "dlqFailed">>},
              dlq' = dlq \cup {Id(batch[at])}, RetryFrom(w, batch, at + 1, lost)
       PROVE  IndInv' /\ NothingNew(w)
  <2>1. dlq' = dlq \cup {Id(batch[at])} /\ RetryFrom(w, batch, at + 1, lost)
    BY <1>10
  <2>2. dlq \subseteq dlq' /\ dlq' \subseteq Source \X Nat
    BY <1>8, <2>1 DEF IndInv, TypeOK
  <2>3. DlqMeansExhausted'
    BY <1>2, <1>7, <2>1 DEF IndInv, DlqMeansExhausted, InDlq, Id
  <2>4. ASSUME NEW s \in Source, NEW i \in Unsettled(proc[w]), i < at + 1, batch[i].src = s
        PROVE  Recorded(s)'
    <3>1. Id(batch[at])[1] = s /\ Id(batch[at]) \in dlq'
      BY <1>5, <2>1, <2>4 DEF Id
    <3>2. QED
      BY <3>1 DEF Recorded, InDlq
  <2>5. lost \in SUBSET (Source \X {"bufferFull", "dlqFailed"})
    BY <1>7
  <2>6. QED
    BY <1>2, <1>5, <1>9, <2>1, <2>2, <2>3, <2>4, <2>5, RetryStep
<1>11. CASE DlqFails(w)
  <2> DEFINE lost == {<<batch[at].src, "dlqFailed">>}
  <2>1. dlq' = dlq /\ RetryFrom(w, batch, at + 1, lost)
    BY <1>11 DEF DlqFails, AtDlq
  <2>2. lost \in SUBSET (Source \X {"bufferFull", "dlqFailed"})
    BY <1>7
  <2>3. dlq' \subseteq Source \X Nat /\ DlqMeansExhausted'
    BY <1>2, <2>1 DEF IndInv, TypeOK, DlqMeansExhausted, InDlq
  <2>4. lost \subseteq discarded'
    BY <1>5, <2>1, RetryLeavesTraces
  <2>5. ASSUME NEW s \in Source, NEW i \in Unsettled(proc[w]), i < at + 1, batch[i].src = s
        PROVE  Recorded(s)'
    BY <1>5, <2>4, <2>5 DEF Recorded, GivenUp
  <2>6. QED
    BY <1>2, <1>5, <1>9, <2>1, <2>2, <2>3, <2>5, RetryStep
<1>12. CASE DlqStores(w) \/ DlqAnswerLost(w)
  <2> DEFINE lost == {<<batch[at].src, "dlqFailed">>}
  <2>1. CASE DlqStores(w)
    <3>1. dlq' = dlq \cup {Id(batch[at])} /\ RetryFrom(w, batch, at + 1, {})
      BY <2>1 DEF DlqStores, AtDlq
    <3> QED
      BY <1>10, <3>1
  <2>2. CASE DlqAnswerLost(w)
    <3>1. dlq' = dlq \cup {Id(batch[at])} /\ RetryFrom(w, batch, at + 1, lost)
      BY <2>2 DEF DlqAnswerLost, AtDlq
    <3> QED
      BY <1>10, <3>1
  <2> QED
    BY <1>12, <2>1, <2>2
<1>13. QED
  BY <1>11, <1>12

(* Whatever call w was answered.                                           *)
LEMMA AnsweredStep ==
  ASSUME IndInv, NEW w \in Worker, Answered(w)
  PROVE  IndInv' /\ NothingNew(w)
BY TransactionStep, IndividualStep, DlqStep DEF Answered

(* Every step keeps the invariant: ingest, the timer, and each answer of   *)
(* the database and of addToDLQ.                                           *)
LEMMA StepIndInv == IndInv /\ [Next]_vars => IndInv'
<1> SUFFICES ASSUME IndInv, [Next]_vars PROVE IndInv'
  OBVIOUS
<1>1. ASSUME NEW s \in Source, Ingest(s) \/ IngestRejected(s)
      PROVE  IndInv'
  BY <1>1, IngestStep, IngestRejectedStep
<1>2. ASSUME NEW w \in Worker, Tick(w)
      PROVE  IndInv'
  BY <1>2, TickStep
<1>3. ASSUME NEW w \in Worker, Answered(w)
      PROVE  IndInv'
  BY <1>3, AnsweredStep
<1>4. CASE UNCHANGED vars
  BY <1>4 DEF vars, IndInv, TypeOK, Placed, WellPlaced, Traced, Separate, Carries, Accepted,
              Unsettled, Untouched, RowsOfTwoGens, Kept, Held, Recorded, InDlq, GivenUp,
              AttemptsBounded, DlqMeansExhausted
<1>5. QED
  BY <1>1, <1>2, <1>3, <1>4 DEF Next

--------------------------------------------------------------------------------
(* What the invariant says about the places the properties count           *)

(* A copy that is held is a live copy.                                     *)
LEMMA HeldIsLive ==
  ASSUME NEW s, Held(s)
  PROVE  LiveCopies(s) # {}
<1>1. CASE \E i \in 1 .. Len(queue) : queue[i].src = s
  BY <1>1 DEF LiveCopies
<1>2. ASSUME NEW w \in Worker, NEW i \in Unsettled(proc[w]), proc[w].batch[i].src = s
      PROVE  LiveCopies(s) # {}
  <2> DEFINE C == {<<w, j>> : j \in {m \in Unsettled(proc[w]) : proc[w].batch[m].src = s}}
  <2>1. <<w, i>> \in C
    BY <1>2
  <2>2. C \subseteq LiveCopies(s)
    BY DEF LiveCopies
  <2>3. QED
    BY <2>1, <2>2
<1>3. QED
  BY <1>1, <1>2 DEF Held

(* Held means in the queue or in the unsettled part of a batch, which is   *)
(* where NoSilentLoss looks.                                               *)
LEMMA KeptIsNoSilentLoss == Kept => NoSilentLoss
<1> SUFFICES ASSUME Kept, NEW s \in Source, Accepted(s)
             PROVE  \/ LiveCopies(s) # {} \/ StoredGens(s) # {}
                    \/ InDlq(s) \/ GivenUp(s)
  BY DEF NoSilentLoss
<1>1. Held(s) \/ Recorded(s)
  BY DEF Kept
<1>2. ASSUME NEW row \in rows, row[1] = s
      PROVE  StoredGens(s) # {}
  BY <1>2 DEF StoredGens
<1>3. QED
  BY <1>1, <1>2, HeldIsLive DEF Recorded

(* A set in which any two elements are the same has at most one.           *)
LEMMA AtMostOne ==
  ASSUME NEW S, \A x, y \in S : x = y
  PROVE  Cardinality(S) <= 1
<1>1. CASE S = {}
  BY <1>1, FS_EmptySet
<1>2. CASE S # {}
  <2>1. PICK x \in S : TRUE
    BY <1>2
  <2>2. S = {x}
    BY <2>1
  <2>3. QED
    BY <2>2, FS_Singleton
<1>3. QED
  BY <1>1, <1>2

(* If any two places with copies of one event are the same place, there is *)
(* one copy at most.                                                       *)
LEMMA SeparateIsOneLiveCopy == IndInv => OneLiveCopy
<1> SUFFICES ASSUME IndInv, NEW s \in Source
             PROVE  Cardinality(LiveCopies(s)) <= 1
  BY DEF OneLiveCopy
<1> DEFINE InQueue(c) == \E i \in 1 .. Len(queue) : c = <<"queue", i>> /\ queue[i].src = s
           InBatch(c) == \E w \in Worker : \E i \in Unsettled(proc[w]) :
                           c = <<w, i>> /\ proc[w].batch[i].src = s
<1>1. \A c \in LiveCopies(s) : InQueue(c) \/ InBatch(c)
  BY DEF LiveCopies
<1>2. ASSUME NEW c, NEW d, InQueue(c), InQueue(d)
      PROVE  c = d
  BY <1>2 DEF IndInv, Separate
<1>3. ASSUME NEW c, NEW d, InQueue(c), InBatch(d)
      PROVE  FALSE
  BY <1>3 DEF IndInv, Separate
<1>4. ASSUME NEW c, NEW d, InBatch(c), InBatch(d)
      PROVE  c = d
  BY <1>4 DEF IndInv, Separate
<1>5. \A c, d \in LiveCopies(s) : c = d
  BY <1>1, <1>2, <1>3, <1>4
<1>6. QED
  BY <1>5, AtMostOne

(* Rows of two generations are two rows.                                   *)
LEMMA TwoGensIsStoredAtMostTwice == RowsOfTwoGens => StoredAtMostTwice
<1> SUFFICES ASSUME RowsOfTwoGens, NEW s \in Source
             PROVE  Cardinality(StoredGens(s)) <= 2
  BY DEF StoredAtMostTwice
<1>1. StoredGens(s) \in SUBSET {0, 1}
  BY DEF RowsOfTwoGens, StoredGens
<1>2. IsFiniteSet({0}) /\ Cardinality({0}) = 1
  BY FS_Singleton
<1>3. IsFiniteSet({0} \cup {1}) /\ Cardinality({0} \cup {1}) = 2
  BY <1>2, FS_AddElement
<1>4. {0, 1} = {0} \cup {1}
  OBVIOUS
<1>5. IsFiniteSet({0, 1}) /\ Cardinality({0, 1}) = 2
  BY <1>3, <1>4
<1>6. Cardinality(StoredGens(s)) <= Cardinality({0, 1})
  BY <1>1, <1>5, FS_Subset
<1>7. QED
  BY <1>5, <1>6

--------------------------------------------------------------------------------
(* The theorems                                                            *)

(* The inductive invariant holds in every reachable state, whatever the    *)
(* interleaving of the process() calls and the answers of the database.    *)
THEOREM PipelineInvariance == Spec => []IndInv
BY InitIndInv, StepIndInv, PTL DEF Spec

(* Every reachable state has the shape the code's types promise, and the   *)
(* buffer never holds more than BUFFER_MAX_SIZE events, retries included.  *)
THEOREM TypeCorrect == Spec => []TypeOK
<1>1. IndInv => TypeOK
  BY DEF IndInv
<1>2. QED
  BY <1>1, PipelineInvariance, PTL

(* An event that got its 202 is in the buffer or a batch, in the events    *)
(* table, in the dead letter queue, or its loss was logged: for any number *)
(* of overlapping process() calls and any failures of the database.        *)
THEOREM NoAcceptedEventVanishes == Spec => []NoSilentLoss
<1>1. IndInv => NoSilentLoss
  BY KeptIsNoSilentLoss DEF IndInv
<1>2. QED
  BY <1>1, PipelineInvariance, PTL

(* drain and retryFailed never let two process() calls, or a call and the  *)
(* buffer, work on copies of the same event.                               *)
THEOREM CallsNeverShareAnEvent == Spec => []OneLiveCopy
BY SeparateIsOneLiveCopy, PipelineInvariance, PTL

(* Because only the first retry regenerates the eventId, an event is in    *)
(* the events table at most twice.                                         *)
THEOREM AtMostOneDuplicate == Spec => []StoredAtMostTwice
<1>1. IndInv => StoredAtMostTwice
  BY TwoGensIsStoredAtMostTwice DEF IndInv
<1>2. QED
  BY <1>1, PipelineInvariance, PTL

(* The retry count bounds how many batches an event is part of.            *)
THEOREM RetriesEnd == Spec => []AttemptsBounded
<1>1. IndInv => AttemptsBounded
  BY DEF IndInv
<1>2. QED
  BY <1>1, PipelineInvariance, PTL

(* Only an event that used up every attempt is put in the dead letter      *)
(* queue.                                                                  *)
THEOREM DlqOnlyAfterLastAttempt == Spec => []DlqMeansExhausted
<1>1. IndInv => DlqMeansExhausted
  BY DEF IndInv
<1>2. QED
  BY <1>1, PipelineInvariance, PTL

--------------------------------------------------------------------------------
(* The pipeline keeps the promise of EventFate                             *)

(* Where the copies are after retryFailed went on from the k-th event: the *)
(* copies before it are gone, and each event it dropped is held nowhere.   *)
LEMMA RetryEnds ==
  ASSUME IndInv, NEW w \in Worker,
         NEW k \in 1 .. Len(proc[w].batch) + 1,
         k .. Len(proc[w].batch) \subseteq Unsettled(proc[w]),
         NEW given, RetryFrom(w, proc[w].batch, k, given)
  PROVE  /\ \A s : \A i \in Unsettled(proc[w]) :
              i < k /\ proc[w].batch[i].src = s => ~ Held(s)'
         /\ \E N \in SUBSET (k .. Len(proc[w].batch)) :
              /\ discarded' = discarded \cup given
                                \cup {<<proc[w].batch[j].src, "bufferFull">> : j \in N}
              /\ \A s : \A j \in N : proc[w].batch[j].src = s => ~ Held(s)'
<1> DEFINE batch == proc[w].batch
<1>1. /\ Len(queue) \in Nat /\ Len(batch) \in Nat
      /\ batch \in Seq(Event)
      /\ Unsettled(proc[w]) \subseteq 1 .. Len(batch)
  BY StateFacts DEF IndInv
<1>2. k \in Nat \ {0}
  BY <1>1
<1>3. PICK stop \in k .. Len(batch) + 1 :
        \E f \in 0 .. stop - k : RetrySplit(w, batch, k, given, stop, f)
  BY RetryFromSplits
<1>4. PICK fitting \in 0 .. stop - k : RetrySplit(w, batch, k, given, stop, fitting)
  BY <1>3
<1>5. stop \in Nat /\ fitting \in Nat /\ k + fitting <= stop /\ stop <= Len(batch) + 1
  BY <1>1, <1>2
<1> DEFINE q == IF stop > Len(batch)
                THEN Idle
                ELSE [pc |-> "dlq", batch |-> batch, at |-> stop, failed |-> 0]
           Gone(i) == i < k \/ i \in k + fitting .. stop - 1
<1>6. q \in Call /\ proc' = [proc EXCEPT ![w] = q]
  BY <1>1, <1>2, <1>4, <1>5, EmptySeq DEF RetrySplit, Idle, Call
<1>7. /\ proc'[w] = q
      /\ \A v \in Worker : v # w => proc'[v] = proc[v]
  BY <1>6, OneCallMoves DEF IndInv
<1>8. \A i \in Unsettled(q) : q.batch = batch /\ stop <= i /\ i \in 1 .. Len(batch)
  BY <1>1, <1>2, <1>5, EmptySeq DEF Unsettled, Idle
<1> HIDE DEF q
<1>9. /\ Len(queue') = Len(queue) + fitting
      /\ \A i \in 1 .. Len(queue) : queue'[i] = queue[i]
      /\ \A i \in 1 .. fitting : queue'[Len(queue) + i] = RetryEvent(batch[k + i - 1])
      /\ discarded' = discarded \cup given
                        \cup {<<batch[j].src, "bufferFull">> : j \in k + fitting .. stop - 1}
  BY <1>4 DEF RetrySplit
<1>10. ASSUME NEW s, NEW i \in Unsettled(proc[w]), Gone(i), batch[i].src = s
       PROVE  ~ Held(s)'
  <2>1. i \in Nat /\ i \in 1 .. Len(batch)
    BY <1>1, <1>10
  <2>2. ASSUME NEW j \in 1 .. Len(queue'), queue'[j].src = s
        PROVE  FALSE
    <3>1. CASE j \in 1 .. Len(queue)
      BY <1>9, <1>10, <2>2, <3>1 DEF IndInv, Separate
    <3>2. CASE j \notin 1 .. Len(queue)
      <4> DEFINE m == j - Len(queue)
      <4>1. m \in 1 .. fitting /\ Len(queue) + m = j
        BY <1>1, <1>5, <1>9, <2>2, <3>2
      <4>2. /\ k + m - 1 \in k .. Len(batch)
            /\ k + m - 1 < k + fitting /\ k <= k + m - 1
        BY <1>1, <1>2, <1>5, <4>1
      <4>3. k + m - 1 # i
        BY <1>2, <1>5, <1>10, <2>1, <4>2
      <4> HIDE DEF m
      <4>4. queue'[Len(queue) + m] = RetryEvent(batch[k + m - 1])
        BY <1>9, <4>1
      <4>5. queue'[j].src = batch[k + m - 1].src
        BY <4>1, <4>4 DEF RetryEvent
      <4>6. k + m - 1 \in Unsettled(proc[w])
        BY <4>2
      <4>7. batch[k + m - 1].src # batch[i].src
        BY <4>3, <4>6 DEF IndInv, Separate
      <4> QED
        BY <1>10, <2>2, <4>5, <4>7
    <3> QED
      BY <3>1, <3>2
  <2>3. ASSUME NEW v \in Worker, v # w, NEW j \in Unsettled(proc'[v]),
               proc'[v].batch[j].src = s
        PROVE  FALSE
    <3>1. proc'[v] = proc[v]
      BY <1>7, <2>3
    <3>2. j \in Unsettled(proc[v]) /\ proc[v].batch[j].src = s
      BY <2>3, <3>1
    <3> QED
      BY <1>10, <2>3, <3>2 DEF IndInv, Separate
  <2>4. ASSUME NEW j \in Unsettled(proc'[w]), proc'[w].batch[j].src = s
        PROVE  FALSE
    <3>1. j \in Unsettled(q) /\ q.batch = batch
      BY <1>7, <1>8, <2>4
    <3>2. j \in Nat /\ stop <= j /\ j <= Len(batch)
      BY <1>1, <1>5, <1>8, <3>1
    <3>5. j \in k .. Len(batch) /\ j # i
      BY <1>1, <1>2, <1>5, <1>10, <2>1, <3>2
    <3>3. j \in Unsettled(proc[w])
      BY <3>5
    <3>4. batch[j].src = batch[i].src
      BY <1>7, <1>10, <2>4, <3>1
    <3> QED
      BY <3>3, <3>4, <3>5 DEF IndInv, Separate
  <2> QED
    BY <2>2, <2>3, <2>4 DEF Held
<1>11. \A s : \A i \in Unsettled(proc[w]) : i < k /\ batch[i].src = s => ~ Held(s)'
  BY <1>10
<1>12. k + fitting .. stop - 1 \subseteq k .. Len(batch)
  BY <1>1, <1>2, <1>5
<1>13. \A s : \A j \in k + fitting .. stop - 1 : batch[j].src = s => ~ Held(s)'
  BY <1>10, <1>12
<1> QED
  BY <1>9, <1>11, <1>12, <1>13

(* What retryFailed newly drops was held and is not any more; besides, it  *)
(* logs only what it was told to.                                          *)
LEMMA RetryGivesUp ==
  ASSUME IndInv, NEW w \in Worker,
         NEW k \in 1 .. Len(proc[w].batch) + 1,
         k .. Len(proc[w].batch) \subseteq Unsettled(proc[w]),
         NEW given, RetryFrom(w, proc[w].batch, k, given)
  PROVE  /\ discarded \cup given \subseteq discarded'
         /\ \A s : Unsure(s)' => Unsure(s) \/ <<s, "dlqFailed">> \in given
         /\ \A s : Dropped(s)' =>
              \/ Dropped(s)
              \/ <<s, "bufferFull">> \in given
              \/ ~ Held(s)' /\ \E j \in k .. Len(proc[w].batch) : proc[w].batch[j].src = s
<1> DEFINE batch == proc[w].batch
<1>1. PICK N \in SUBSET (k .. Len(batch)) :
        /\ discarded' = discarded \cup given \cup {<<batch[j].src, "bufferFull">> : j \in N}
        /\ \A s : \A j \in N : batch[j].src = s => ~ Held(s)'
  BY RetryEnds
<1>2. ASSUME NEW s, Unsure(s)'
      PROVE  Unsure(s) \/ <<s, "dlqFailed">> \in given
  <2>1. \A j \in N : <<batch[j].src, "bufferFull">> # <<s, "dlqFailed">>
    OBVIOUS
  <2> QED
    BY <1>1, <1>2, <2>1 DEF Unsure
<1>3. ASSUME NEW s, Dropped(s)'
      PROVE  \/ Dropped(s)
             \/ <<s, "bufferFull">> \in given
             \/ ~ Held(s)' /\ \E j \in k .. Len(batch) : batch[j].src = s
  <2>1. ASSUME NEW j \in N, <<s, "bufferFull">> = <<batch[j].src, "bufferFull">>
        PROVE  ~ Held(s)' /\ \E i \in k .. Len(batch) : batch[i].src = s
    <3>1. batch[j].src = s
      BY <2>1
    <3> QED
      BY <1>1, <3>1
  <2> QED
    BY <1>1, <1>3, <2>1 DEF Dropped
<1> QED
  BY <1>1, <1>2, <1>3

(* What is held after a step of a call was held before it.                 *)
LEMMA HeldShrinks ==
  ASSUME NEW w \in Worker, NothingNew(w), NEW s, Held(s)'
  PROVE  Held(s)
<1>1. ASSUME NEW i \in 1 .. Len(queue'), queue'[i].src = s
      PROVE  Held(s)
  BY <1>1 DEF NothingNew, Held
<1>2. ASSUME NEW v \in Worker, v # w, NEW i \in Unsettled(proc'[v]), proc'[v].batch[i].src = s
      PROVE  Held(s)
  <2>1. proc'[v] = proc[v]
    BY <1>2 DEF NothingNew
  <2> QED
    BY <1>2, <2>1 DEF Held
<1>3. ASSUME NEW i \in Unsettled(proc'[w]), proc'[w].batch[i].src = s
      PROVE  Held(s)
  <2>1. i \in Unsettled(proc[w]) /\ proc'[w].batch = proc[w].batch
    BY <1>3 DEF NothingNew
  <2> QED
    BY <1>3, <2>1 DEF Held
<1> QED
  BY <1>1, <1>2, <1>3 DEF Held

(* Only accepted events are held.                                          *)
LEMMA HeldIsAccepted ==
  ASSUME IndInv, NEW s, Held(s)
  PROVE  Accepted(s)
BY DEF IndInv, Traced, Carries, Held

(* A step that tells no client anything settles held events if it only     *)
(* adds rows for them, and ends only such as are not held any more.        *)
LEMMA StepSettles ==
  ASSUME IndInv, IndInv', client' = client,
         \A s : Held(s)' => Held(s),
         rows \subseteq rows', \A row \in rows' \ rows : Held(row[1]),
         dlq \subseteq dlq', discarded \subseteq discarded',
         \A s \in Source : InDlq(s)' => InDlq(s) \/ (Held(s) /\ ~ Held(s)'),
         \A s \in Source : Unsure(s)' => Unsure(s) \/ (Held(s) /\ ~ Held(s)'),
         \A s \in Source : Dropped(s)' => Dropped(s) \/ (Held(s) /\ ~ Held(s)'),
         \A s \in Source : Dropped(s)' =>
           \/ Dropped(s)
           \/ (InDlq(s)' => InDlq(s)) /\ (Unsure(s)' => Unsure(s))
  PROVE  Fate!Settle
<1>1. \A s : /\ InDlq(s) => InDlq(s)'
             /\ Unsure(s) => Unsure(s)'
             /\ Dropped(s) => Dropped(s)'
  BY DEF InDlq, Unsure, Dropped
<1>2. rows' \subseteq Source \X Nat
  BY DEF IndInv, TypeOK
<1>3. \A row \in rows' \ rows : row[1] \in Source /\ Held(row[1])
  BY <1>2
<1>4. ASSUME NEW s \in Source, Held(s), ~ Held(s)'
      PROVE  InDlq(s)' \/ Unsure(s)' \/ Dropped(s)' \/ \E row \in rows' : row[1] = s
  <2>1. Accepted(s)'
    BY <1>4, HeldIsAccepted DEF Accepted
  <2>2. InDlq(s)' \/ GivenUp(s)' \/ \E row \in rows' : row[1] = s
    BY <1>4, <2>1 DEF IndInv, Kept, Recorded
  <2>3. ASSUME GivenUp(s)' PROVE Unsure(s)' \/ Dropped(s)'
    <3>1. PICK d \in discarded' : d[1] = s
      BY <2>3 DEF GivenUp
    <3>2. d \in Source \X {"bufferFull", "dlqFailed"}
      BY <3>1 DEF IndInv, TypeOK
    <3>3. d = <<s, "bufferFull">> \/ d = <<s, "dlqFailed">>
      BY <3>1, <3>2
    <3> QED
      BY <3>1, <3>3 DEF Unsure, Dropped
  <2> QED
    BY <2>2, <2>3
<1>5. \A s \in Source : Held(s) /\ ~ Held(s)' =>
        InDlq(s)' \/ Unsure(s)' \/ Dropped(s)' \/ Fate!HasRow(s)'
  BY <1>4 DEF Fate!HasRow
<1> QED
  BY <1>1, <1>3, <1>5 DEF Fate!Settle

(* process() takes events over from the buffer: they stay held.            *)
LEMMA TickSettles ==
  ASSUME IndInv, NEW w \in Worker, Tick(w)
  PROVE  Fate!Settle
<1> DEFINE n == Least(BatchSize, Len(queue))
           batch == SubSeq(queue, 1, n)
           q == [pc |-> "tx", batch |-> batch, at |-> 0, failed |-> 0]
<1>1. /\ BatchSize \in Nat \ {0} /\ Len(queue) \in Nat /\ queue \in Seq(Event)
      /\ \A i \in 1 .. Len(queue) : queue[i] \in Event
  BY StateFacts DEF IndInv, TypeOK
<1>2. /\ queue # << >> /\ queue' = SubSeq(queue, n + 1, Len(queue))
      /\ proc' = [proc EXCEPT ![w] = q]
      /\ client' = client /\ rows' = rows /\ dlq' = dlq /\ discarded' = discarded
  BY DEF Tick, Undrained
<1>3. n \in 1 .. Len(queue)
  BY <1>1, <1>2, EmptySeq DEF Least
<1> HIDE DEF n
<1>4. /\ batch \in Seq(Event) /\ Len(batch) = n
      /\ \A i \in 1 .. n : batch[i] = queue[i]
  <2>1. \A i \in 1 .. n : queue[i] \in Event
    BY <1>1, <1>3
  <2> QED
    BY <1>1, <1>3, <2>1, SubSeqProperties
<1>5. /\ Len(queue') = Len(queue) - n
      /\ \A i \in 1 .. Len(queue) - n : n + i \in 1 .. Len(queue) /\ queue'[i] = queue[n + i]
  <2>1. \A i \in n + 1 .. Len(queue) : queue[i] \in Event
    BY <1>1, <1>3
  <2>2. /\ Len(SubSeq(queue, n + 1, Len(queue))) = Len(queue) - n
        /\ \A i \in 1 .. Len(queue) - n : SubSeq(queue, n + 1, Len(queue))[i] = queue[n + i]
    BY <1>1, <1>3, <2>1, SubSeqProperties
  <2> QED
    BY <1>1, <1>2, <1>3, <2>2
<1> HIDE DEF batch
<1>6. q \in Call /\ Unsettled(q) = 1 .. n /\ q.batch = batch
  BY <1>4 DEF Call, Unsettled
<1> HIDE DEF q
<1>7. proc'[w] = q /\ \A v \in Worker : v # w => proc'[v] = proc[v]
  BY <1>2, <1>6, OneCallMoves DEF IndInv
<1>8. ASSUME NEW s, Held(s)' PROVE Held(s)
  <2>1. ASSUME NEW i \in 1 .. Len(queue'), queue'[i].src = s
        PROVE  Held(s)
    BY <1>5, <2>1 DEF Held
  <2>2. ASSUME NEW v \in Worker, v # w, NEW i \in Unsettled(proc'[v]),
               proc'[v].batch[i].src = s
        PROVE  Held(s)
    <3>1. proc'[v] = proc[v]
      BY <1>7, <2>2
    <3> QED
      BY <2>2, <3>1 DEF Held
  <2>3. ASSUME NEW i \in Unsettled(proc'[w]), proc'[w].batch[i].src = s
        PROVE  Held(s)
    <3>1. i \in 1 .. n /\ batch[i].src = s
      BY <1>6, <1>7, <2>3
    <3>2. i \in 1 .. Len(queue) /\ queue[i].src = s
      BY <1>1, <1>3, <1>4, <3>1
    <3> QED
      BY <3>2 DEF Held
  <2> QED
    BY <1>8, <2>1, <2>2, <2>3 DEF Held
<1>9. IndInv'
  BY TickStep
<1>10. \A s : /\ InDlq(s)' => InDlq(s)
              /\ Unsure(s)' => Unsure(s)
              /\ Dropped(s)' => Dropped(s)
  BY <1>2 DEF InDlq, Unsure, Dropped
<1> QED
  BY <1>2, <1>8, <1>9, <1>10, StepSettles

(* The end of a transaction settles what it stored.                        *)
LEMMA TransactionSettles ==
  ASSUME IndInv, NEW w \in Worker, TxCommits(w) \/ TxFails(w) \/ TxAnswerLost(w)
  PROVE  Fate!Settle
<1> DEFINE batch == proc[w].batch
<1>1. /\ proc[w].pc = "tx"
      /\ client' = client /\ dlq' = dlq /\ discarded' = discarded
      /\ rows' = rows \/ rows' = rows \cup Ids(batch)
  BY DEF TxCommits, TxFails, TxAnswerLost
<1>2. IndInv' /\ NothingNew(w)
  BY TransactionStep
<1>3. \A s : Held(s)' => Held(s)
  BY <1>2, HeldShrinks
<1>4. ASSUME NEW row \in Ids(batch) PROVE Held(row[1])
  <2>1. batch \in Seq(Event)
    BY StateFacts DEF IndInv
  <2>2. PICK i \in 1 .. Len(batch) : row = Id(batch[i])
    BY <1>4, <2>1, LenProperties DEF Ids
  <2>3. i \in Unsettled(proc[w])
    BY <1>1, <2>2 DEF Unsettled
  <2>4. row[1] = batch[i].src
    BY <2>2 DEF Id
  <2> QED
    BY <2>3, <2>4 DEF Held
<1>5. \A s : /\ InDlq(s)' => InDlq(s)
             /\ Unsure(s)' => Unsure(s)
             /\ Dropped(s)' => Dropped(s)
  BY <1>1 DEF InDlq, Unsure, Dropped
<1>6. rows \subseteq rows' /\ \A row \in rows' \ rows : Held(row[1])
  BY <1>1, <1>4
<1> QED
  BY <1>1, <1>2, <1>3, <1>5, <1>6, StepSettles

(* An individual insert settles its event, or the last one hands the whole *)
(* batch to retryFailed, which lets go of what the buffer has no room for. *)
LEMMA IndividualSettles ==
  ASSUME IndInv, NEW w \in Worker,
         IndividualInserted(w) \/ IndividualFails(w) \/ IndividualAnswerLost(w)
  PROVE  Fate!Settle
<1> DEFINE batch == proc[w].batch
           id == Id(batch[proc[w].at])
<1>1. /\ proc[w].pc = "single" /\ client' = client /\ dlq' = dlq
      /\ rows' = rows \/ rows' = rows \cup {id}
  BY DEF IndividualInserted, IndividualFails, IndividualAnswerLost
<1>2. \E f \in {0, 1} : IndividualInsertEnds(w, f)
  BY DEF IndividualInserted, IndividualFails, IndividualAnswerLost
<1>3. IndInv' /\ NothingNew(w)
  BY IndividualStep
<1>4. \A s : Held(s)' => Held(s)
  BY <1>3, HeldShrinks
<1>5. Unsettled(proc[w]) = 1 .. Len(batch) /\ Len(batch) \in Nat /\ IndividualLimit \in Nat
  BY <1>1, StateFacts DEF Unsettled, IndInv
<1>6. Held(id[1])
  <2>1. proc[w].at \in 1 .. Tried(batch)
    BY <1>1 DEF IndInv, Placed, WellPlaced
  <2>2. proc[w].at \in Unsettled(proc[w])
    BY <1>5, <2>1 DEF Tried, Least
  <2> QED
    BY <2>2 DEF Held, Id
<1>7. rows \subseteq rows' /\ \A row \in rows' \ rows : Held(row[1])
  BY <1>1, <1>6
<1>8. /\ discarded \subseteq discarded'
      /\ \A s \in Source : Unsure(s)' => Unsure(s)
      /\ \A s \in Source : Dropped(s)' => Dropped(s) \/ (Held(s) /\ ~ Held(s)')
  <2>1. CASE discarded' = discarded
    BY <2>1 DEF Unsure, Dropped
  <2>2. CASE RetryFrom(w, batch, 1, {})
    <3>1. 1 \in 1 .. Len(batch) + 1 /\ 1 .. Len(batch) \subseteq Unsettled(proc[w])
      BY <1>5
    <3>2. PICK k, given : k = 1 /\ given = {} /\ RetryFrom(w, batch, k, given)
      BY <2>2
    <3>3. /\ k \in 1 .. Len(batch) + 1
          /\ k .. Len(batch) \subseteq Unsettled(proc[w])
          /\ RetryFrom(w, batch, k, given)
      BY <3>1, <3>2
    <3>4. /\ discarded \cup given \subseteq discarded'
          /\ \A s : Unsure(s)' => Unsure(s) \/ <<s, "dlqFailed">> \in given
          /\ \A s : Dropped(s)' =>
               \/ Dropped(s)
               \/ <<s, "bufferFull">> \in given
               \/ ~ Held(s)' /\ \E j \in k .. Len(batch) : batch[j].src = s
      BY <3>3, RetryGivesUp
    <3> QED
      BY <3>2, <3>3, <3>4 DEF Held
  <2> QED
    BY <1>2, <2>1, <2>2 DEF IndividualInsertEnds
<1>9. \A s : InDlq(s)' => InDlq(s)
  BY <1>1 DEF InDlq
<1> QED
  BY <1>1, <1>3, <1>4, <1>7, <1>8, <1>9, StepSettles

(* The answer of addToDLQ settles the exhausted event one way or the other.*)
LEMMA DlqSettles ==
  ASSUME IndInv, NEW w \in Worker, DlqStores(w) \/ DlqFails(w) \/ DlqAnswerLost(w)
  PROVE  Fate!Settle
<1> DEFINE batch == proc[w].batch
           at == proc[w].at
           ended == batch[at].src
<1>1. proc[w].pc = "dlq" /\ client' = client /\ rows' = rows
  BY DEF DlqStores, DlqFails, DlqAnswerLost
<1>2. IndInv' /\ NothingNew(w)
  BY DlqStep
<1>3. \A s : Held(s)' => Held(s)
  BY <1>2, HeldShrinks
<1>4. Len(batch) \in Nat /\ at \in 1 .. Len(batch)
  BY <1>1, StateFacts DEF IndInv, Placed, WellPlaced
<1>5. /\ Unsettled(proc[w]) = at .. Len(batch) /\ at \in Unsettled(proc[w])
      /\ at + 1 \in 1 .. Len(batch) + 1
      /\ at + 1 .. Len(batch) \subseteq Unsettled(proc[w])
  BY <1>1, <1>4 DEF Unsettled
<1>6. Held(ended)
  BY <1>5 DEF Held
<1>7. PICK given : /\ RetryFrom(w, batch, at + 1, given)
                   /\ given \subseteq {<<ended, "dlqFailed">>}
                   /\ dlq' = dlq \/ dlq' = dlq \cup {Id(batch[at])}
  BY DEF DlqStores, DlqFails, DlqAnswerLost, AtDlq
<1>8. \A s : s = ended => ~ Held(s)'
  <2>1. \A s : \A i \in Unsettled(proc[w]) : i < at + 1 /\ batch[i].src = s => ~ Held(s)'
    BY <1>5, <1>7, RetryEnds
  <2>2. at < at + 1
    BY <1>4
  <2> QED
    BY <1>5, <2>1, <2>2
<1>9. /\ discarded \subseteq discarded'
      /\ \A s : Unsure(s)' => Unsure(s) \/ <<s, "dlqFailed">> \in given
      /\ \A s : Dropped(s)' =>
           \/ Dropped(s)
           \/ <<s, "bufferFull">> \in given
           \/ ~ Held(s)' /\ \E j \in at + 1 .. Len(batch) : batch[j].src = s
  <2>1. PICK k : k = at + 1
    OBVIOUS
  <2>2. /\ k \in 1 .. Len(batch) + 1
        /\ k .. Len(batch) \subseteq Unsettled(proc[w])
        /\ RetryFrom(w, batch, k, given)
    BY <1>5, <1>7, <2>1
  <2>3. /\ discarded \cup given \subseteq discarded'
        /\ \A s : Unsure(s)' => Unsure(s) \/ <<s, "dlqFailed">> \in given
        /\ \A s : Dropped(s)' =>
             \/ Dropped(s)
             \/ <<s, "bufferFull">> \in given
             \/ ~ Held(s)' /\ \E j \in k .. Len(batch) : batch[j].src = s
    BY <2>2, RetryGivesUp
  <2> QED
    BY <2>1, <2>3
<1>10. ASSUME NEW s, NEW j \in at + 1 .. Len(batch), batch[j].src = s
       PROVE  Held(s) /\ s # ended
  <2>1. j \in Unsettled(proc[w]) /\ j # at
    BY <1>4, <1>5, <1>10
  <2>2. batch[j].src # batch[at].src
    BY <1>5, <2>1 DEF IndInv, Separate
  <2> QED
    BY <1>10, <2>1, <2>2 DEF Held
<1>11. \A s : Dropped(s)' => Dropped(s) \/ (Held(s) /\ ~ Held(s)' /\ s # ended)
  <2>1. \A s : <<s, "bufferFull">> \notin given
    BY <1>7
  <2> QED
    BY <1>9, <1>10, <2>1
<1>12. \A s : Unsure(s)' => Unsure(s) \/ s = ended
  <2>1. ASSUME NEW s, <<s, "dlqFailed">> \in given PROVE s = ended
    <3>1. <<s, "dlqFailed">> = <<ended, "dlqFailed">>
      BY <1>7, <2>1
    <3> QED
      BY <3>1
  <2> QED
    BY <1>9, <2>1
<1>13. dlq \subseteq dlq' /\ \A s : InDlq(s)' => InDlq(s) \/ s = ended
  BY <1>7 DEF InDlq, Id
<1>14. \A s \in Source : InDlq(s)' => InDlq(s) \/ (Held(s) /\ ~ Held(s)')
  BY <1>6, <1>8, <1>13
<1>15. \A s \in Source : Unsure(s)' => Unsure(s) \/ (Held(s) /\ ~ Held(s)')
  BY <1>6, <1>8, <1>12
<1>16. \A s \in Source : Dropped(s)' =>
         \/ Dropped(s)
         \/ (InDlq(s)' => InDlq(s)) /\ (Unsure(s)' => Unsure(s))
  BY <1>11, <1>12, <1>13
<1>17. rows \subseteq rows' /\ \A row \in rows' \ rows : Held(row[1])
  BY <1>1
<1>18. \A s : Held(s)' => Held(s)
  BY <1>3
<1> QED
  BY <1>1, <1>2, <1>9, <1>11, <1>13, <1>14, <1>15, <1>16, <1>17, <1>18, StepSettles

(* A client that is told 202 has its event held.                           *)
LEMMA IngestIsAccepted ==
  ASSUME IndInv, NEW s \in Source, Ingest(s)
  PROVE  Fate!Accept(s)
<1>1. /\ client[s] # "accepted" /\ client' = [client EXCEPT ![s] = "accepted"]
      /\ queue' = Append(queue, [src |-> s, gen |-> 0, retry |-> 0])
      /\ proc' = proc /\ rows' = rows /\ dlq' = dlq /\ discarded' = discarded
  BY DEF Ingest
<1> DEFINE e == [src |-> s, gen |-> 0, retry |-> 0]
<1>2. queue \in Seq(Event) /\ e \in Event /\ e.src = s
  <2>1. 0 \in 0 .. MaxRetries
    BY PipelineAssumption DEF PipelineAssumption
  <2> QED
    BY <2>1 DEF IndInv, TypeOK, Event
<1> HIDE DEF e
<1>3. /\ Len(queue) \in Nat /\ Len(queue') = Len(queue) + 1
      /\ \A i \in 1 .. Len(queue) : queue'[i] = queue[i]
      /\ queue'[Len(queue) + 1] = e
  BY <1>1, <1>2, AppendProperties, LenProperties DEF e
<1>4. 1 .. Len(queue) + 1 = 1 .. Len(queue) \cup {Len(queue) + 1}
  BY <1>3
<1>5. \A r : (\E i \in 1 .. Len(queue') : queue'[i].src = r)
               <=> (\E i \in 1 .. Len(queue) : queue[i].src = r) \/ r = s
  BY <1>2, <1>3, <1>4
<1>6. \A r : Held(r)' <=> Held(r) \/ r = s
  BY <1>1, <1>5 DEF Held
<1>7. {r \in Source : Held(r)}' = {r \in Source : Held(r)} \cup {s}
  BY <1>6
<1>8. /\ {r \in Source : InDlq(r)}' = {r \in Source : InDlq(r)}
      /\ {r \in Source : Unsure(r)}' = {r \in Source : Unsure(r)}
      /\ {r \in Source : Dropped(r)}' = {r \in Source : Dropped(r)}
  BY <1>1 DEF InDlq, Unsure, Dropped
<1> QED
  BY <1>1, <1>7, <1>8 DEF Fate!Accept

(* Each step of the pipeline is one that EventFate allows.                 *)
LEMMA StepRefines == IndInv /\ [Next]_vars => [Fate!Next]_Fate!vars
<1> SUFFICES ASSUME IndInv, [Next]_vars PROVE [Fate!Next]_Fate!vars
  OBVIOUS
<1>1. ASSUME NEW s \in Source, IngestRejected(s)
      PROVE  Fate!Refuse(s)
  <2>1. /\ client[s] = "new" /\ client' = [client EXCEPT ![s] = "rejected"]
        /\ queue' = queue /\ proc' = proc /\ rows' = rows /\ dlq' = dlq
        /\ discarded' = discarded
    BY <1>1 DEF IngestRejected
  <2>2. \A r : /\ Held(r)' <=> Held(r)
               /\ InDlq(r)' <=> InDlq(r)
               /\ Unsure(r)' <=> Unsure(r)
               /\ Dropped(r)' <=> Dropped(r)
    BY <2>1 DEF Held, InDlq, Unsure, Dropped
  <2> QED
    BY <2>1, <2>2 DEF Fate!Refuse
<1>2. ASSUME NEW w \in Worker, Tick(w) \/ Answered(w)
      PROVE  Fate!Settle
  BY <1>2, TickSettles, TransactionSettles, IndividualSettles, DlqSettles DEF Answered
<1>3. CASE UNCHANGED vars
  <2>1. /\ client' = client /\ queue' = queue /\ proc' = proc /\ rows' = rows /\ dlq' = dlq
        /\ discarded' = discarded
    BY <1>3 DEF vars
  <2>2. \A r : /\ Held(r)' <=> Held(r)
               /\ InDlq(r)' <=> InDlq(r)
               /\ Unsure(r)' <=> Unsure(r)
               /\ Dropped(r)' <=> Dropped(r)
    BY <2>1 DEF Held, InDlq, Unsure, Dropped
  <2> QED
    BY <2>1, <2>2 DEF Fate!vars
<1>4. ASSUME NEW s \in Source, Ingest(s)
      PROVE  Fate!Accept(s)
  BY <1>4, IngestIsAccepted
<1> QED
  BY <1>1, <1>2, <1>3, <1>4 DEF Next, Fate!Next

(* Whatever the database answers and however process() calls overlap, the  *)
(* way of each event is one that EventFate allows: it is stored at least   *)
(* once, handed to the dead letter queue, where a failed hand-over may     *)
(* have taken effect, or dropped with a log entry; and the program does    *)
(* nothing more to it by itself.                                           *)
THEOREM PipelineKeepsPromise == Spec => ImplementsFate
<1>1. Init => Fate!Init
  <2> SUFFICES ASSUME Init PROVE Fate!Init
    OBVIOUS
  <2>1. Unsettled(Idle) = {} /\ Len(<< >>) = 0
    BY EmptySeq DEF Idle, Unsettled
  <2>2. \A s : ~ Held(s) /\ ~ InDlq(s) /\ ~ Unsure(s) /\ ~ Dropped(s)
    BY <2>1 DEF Init, Held, InDlq, Unsure, Dropped
  <2> QED
    BY <2>2 DEF Init, Fate!Init
<1> QED
  BY <1>1, StepRefines, PipelineInvariance, PTL DEF Spec, ImplementsFate, Fate!Spec

(* What a promise is good for: the ends of EventFate, shown where there is *)
(* nothing else to look at, hold of the pipeline.  An event that was       *)
(* handed to the dead letter queue, or perhaps was, or was dropped, is in  *)
(* no buffer and no batch, and one that was dropped was not handed over.   *)
THEOREM EventsEndOnce == Spec => []Fate!OneEnd
<1>1. Fate!Init => Fate!OneEnd
  BY DEF Fate!Init, Fate!OneEnd
<1>2. Fate!OneEnd /\ client \in [Source -> {"new", "rejected", "accepted"}]
        /\ [Fate!Next]_Fate!vars => Fate!OneEnd'
  <2> SUFFICES ASSUME Fate!OneEnd, client \in [Source -> {"new", "rejected", "accepted"}],
                      [Fate!Next]_Fate!vars
               PROVE  Fate!OneEnd'
    OBVIOUS
  <2> DEFINE held == {s \in Source : Held(s)}
             dead == {s \in Source : InDlq(s)}
             unsure == {s \in Source : Unsure(s)}
             dropped == {s \in Source : Dropped(s)}
             all == held \cup dead \cup unsure \cup dropped
  <2>1. /\ held \cap (dead \cup unsure \cup dropped) = {} /\ dropped \cap (dead \cup unsure) = {}
        /\ all \subseteq Source
        /\ \A s \in all : client[s] = "accepted"
    BY DEF Fate!OneEnd
  <2>2. ASSUME NEW s \in Source, Fate!Accept(s)
        PROVE  Fate!OneEnd'
    <3>1. /\ client[s] # "accepted" /\ client' = [client EXCEPT ![s] = "accepted"]
          /\ held' = held \cup {s} /\ dead' = dead /\ unsure' = unsure /\ dropped' = dropped
      BY <2>2 DEF Fate!Accept
    <3> HIDE DEF held, dead, unsure, dropped
    <3>2. \A r \in all' : client'[r] = "accepted"
      BY <2>1, <3>1
    <3>3. held' \cap (dead' \cup unsure' \cup dropped') = {} /\ dropped' \cap (dead' \cup unsure') = {}
      BY <2>1, <3>1
    <3> USE DEF held, dead, unsure, dropped
    <3> QED
      BY <3>2, <3>3 DEF Fate!OneEnd
  <2>3. ASSUME NEW s \in Source, Fate!Refuse(s)
        PROVE  Fate!OneEnd'
    <3>1. /\ client[s] = "new" /\ client' = [client EXCEPT ![s] = "rejected"]
          /\ held' = held /\ dead' = dead /\ unsure' = unsure /\ dropped' = dropped
      BY <2>3 DEF Fate!Refuse
    <3> HIDE DEF held, dead, unsure, dropped
    <3>2. \A r \in all' : client'[r] = "accepted"
      BY <2>1, <3>1
    <3>3. held' \cap (dead' \cup unsure' \cup dropped') = {} /\ dropped' \cap (dead' \cup unsure') = {}
      BY <2>1, <3>1
    <3> USE DEF held, dead, unsure, dropped
    <3> QED
      BY <3>2, <3>3 DEF Fate!OneEnd
  <2>4. CASE Fate!Settle
    <3>1. /\ held' \subseteq held
          /\ dead \subseteq dead' /\ dead' \ dead \subseteq held \ held'
          /\ unsure \subseteq unsure' /\ unsure' \ unsure \subseteq held \ held'
          /\ dropped \subseteq dropped' /\ dropped' \ dropped \subseteq held \ held'
          /\ (dropped' \ dropped) \cap ((dead' \ dead) \cup (unsure' \ unsure)) = {}
          /\ client' = client
      BY <2>4 DEF Fate!Settle
    <3> HIDE DEF held, dead, unsure, dropped
    <3>2. /\ held' \cap (dead' \cup unsure' \cup dropped') = {}
          /\ dropped' \cap (dead' \cup unsure') = {}
      BY <2>1, <3>1
    <3>3. \A r \in all' : client'[r] = "accepted"
      BY <2>1, <3>1
    <3> USE DEF held, dead, unsure, dropped
    <3> QED
      BY <3>2, <3>3 DEF Fate!OneEnd
  <2>5. CASE UNCHANGED Fate!vars
    <3>1. /\ held' = held /\ dead' = dead /\ unsure' = unsure /\ dropped' = dropped
          /\ client' = client
      BY <2>5 DEF Fate!vars
    <3> HIDE DEF held, dead, unsure, dropped
    <3>2. /\ held' \cap (dead' \cup unsure' \cup dropped') = {}
          /\ dropped' \cap (dead' \cup unsure') = {}
          /\ \A r \in all' : client'[r] = "accepted"
      BY <2>1, <3>1
    <3> USE DEF held, dead, unsure, dropped
    <3> QED
      BY <3>2 DEF Fate!OneEnd
  <2> QED
    BY <2>2, <2>3, <2>4, <2>5 DEF Fate!Next
<1>3. TypeOK => client \in [Source -> {"new", "rejected", "accepted"}]
  BY DEF TypeOK
<1> QED
  BY <1>1, <1>2, <1>3, PipelineKeepsPromise, TypeCorrect, PTL DEF ImplementsFate, Fate!Spec

================================================================================

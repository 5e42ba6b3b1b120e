------------------------- MODULE WorkerShutdownProofs -------------------------
(***************************************************************************)
(* What a stop() that did not time out leaves behind, proved for any       *)
(* number of events and of process() calls the timer began.                *)
(***************************************************************************)
EXTENDS WorkerShutdown, BatchPipelineProofs

(***************************************************************************)
(* The inductive invariant.  CleanStopDrains is about the moment after     *)
(* stop() returned, but events can still come back into the buffer then,   *)
(* from calls under way.  So the invariant follows the calls: stop()'s own *)
(* call exists only while stop() drains, and from the moment stop() began  *)
(* the calls of the timer hold nothing but what they held then, because    *)
(* the interval is cleared.                                                *)
(***************************************************************************)
IntervalCleared == stop # "no" => ~ isRunning

OwnCallOnlyDrains == stop # "draining" => OwnCallEnded

TimerCallsExcused ==
  stop # "no" => \A w \in TimerCall : \A i \in Unsettled(proc[w]) :
                   proc[w].batch[i].src \in excused

LeftoversExcused ==
  stop = "returned" => \A i \in 1 .. Len(queue) : queue[i].src \in excused

SIndInv ==
  /\ IndInv
  /\ STypeOK
  /\ IntervalCleared
  /\ OwnCallOnlyDrains
  /\ TimerCallsExcused
  /\ LeftoversExcused

--------------------------------------------------------------------------------

(* Before start() nothing is held and stop() has not been called.          *)
LEMMA InitSIndInv == SInit => SIndInv
<1> SUFFICES ASSUME SInit PROVE SIndInv
  OBVIOUS
<1>1. IndInv
  BY InitIndInv DEF SInit
<1>2. STypeOK
  BY <1>1 DEF SInit, STypeOK, IndInv
<1>3. OwnCallEnded
  BY StopCallAssumption DEF StopCallAssumption, SInit, Init, Idle, OwnCallEnded
<1>4. QED
  BY <1>1, <1>2, <1>3 DEF SInit, SIndInv, IntervalCleared, OwnCallOnlyDrains,
                          TimerCallsExcused, LeftoversExcused

(* The pipeline below the worker takes its own steps or none.              *)
LEMMA PipelineSteps ==
  ASSUME [SNext]_allVars
  PROVE  [Next]_vars
<1>1. CASE Start
  BY <1>1 DEF Start, vars
<1>2. CASE StopBegins \/ StopGoesOn
  BY <1>2, StopCallAssumption
     DEF StopCallAssumption, StopBegins, StopGoesOn, StopFindsNothing, StopTakesBatch, Next, vars
<1>3. CASE StopTimesOut \/ TimePasses
  BY <1>3 DEF StopTimesOut, TimePasses, vars
<1>4. ASSUME NEW s \in Source, Arrives(s) \/ IsRefused(s)
      PROVE  Next
  BY <1>4 DEF Arrives, IsRefused, Next
<1>5. ASSUME NEW w \in TimerCall, TimerTick(w)
      PROVE  Next
  BY <1>5 DEF TimerTick, TimerCall, Next
<1>6. ASSUME NEW w \in Worker, CallAnswered(w)
      PROVE  Next
  BY <1>6 DEF CallAnswered, Next
<1>7. CASE UNCHANGED allVars
  BY <1>7 DEF allVars, vars
<1>8. QED
  BY <1>1, <1>2, <1>3, <1>4, <1>5, <1>6, <1>7 DEF SNext

(* A process() call that begins leaves the others where they are.          *)
LEMMA TickMovesOne ==
  ASSUME TypeOK, NEW w \in Worker, Tick(w)
  PROVE  \A v \in Worker : v # w => proc'[v] = proc[v]
BY DEF Tick, TypeOK

(* What stop() finds or takes, at its beginning and in each round.         *)
LEMMA StopRound ==
  ASSUME SIndInv, StopFindsNothing \/ StopTakesBatch, OwnCallEnded
  PROVE  /\ stop' \in {"returned", "draining"}
         /\ OwnCallOnlyDrains'
         /\ LeftoversExcused'
         /\ \A w \in TimerCall : proc'[w] = proc[w]
<1>1. StopCall \in Worker /\ TypeOK
  BY StopCallAssumption DEF StopCallAssumption, SIndInv, IndInv
<1>2. CASE StopFindsNothing
  BY <1>2, EmptySeq DEF StopFindsNothing, OwnCallOnlyDrains, OwnCallEnded, LeftoversExcused
<1>3. CASE StopTakesBatch
  BY <1>1, <1>3, TickMovesOne
     DEF StopTakesBatch, OwnCallOnlyDrains, LeftoversExcused, TimerCall
<1>4. QED
  BY <1>2, <1>3

(* Each step of start(), of the timer, of stop() and of the pipeline       *)
(* around them keeps the invariant.                                        *)
LEMMA StepSIndInv == SIndInv /\ [SNext]_allVars => SIndInv'
<1> SUFFICES ASSUME SIndInv, [SNext]_allVars PROVE SIndInv'
  OBVIOUS
<1>1. IndInv'
  BY PipelineSteps, StepIndInv DEF SIndInv
<1>2. TypeOK' /\ TypeOK /\ StopCall \in Worker
  BY <1>1, StopCallAssumption DEF StopCallAssumption, SIndInv, IndInv
<1>3. CASE Start
  <2>1. UNCHANGED <<queue, proc, stop, late, excused>> /\ stop = "no" /\ isRunning' = TRUE
    BY <1>3 DEF Start
  <2>2. QED
    BY <1>1, <1>2, <2>1 DEF SIndInv, STypeOK, IntervalCleared, OwnCallOnlyDrains, OwnCallEnded,
                            TimerCallsExcused, LeftoversExcused
<1>4. CASE StopBegins
  <2>1. stop = "no" /\ OwnCallEnded
    BY <1>4 DEF StopBegins, SIndInv, IntervalCleared, OwnCallOnlyDrains, STypeOK
  <2>2. /\ stop' \in {"returned", "draining"}
        /\ OwnCallOnlyDrains' /\ LeftoversExcused'
        /\ \A w \in TimerCall : proc'[w] = proc[w]
    BY <1>4, <2>1, StopRound DEF StopBegins
  <2>3. isRunning' = FALSE /\ late' = late /\ excused' = HeldBy(TimerCall)
    BY <1>4 DEF StopBegins
  <2>4. ASSUME NEW w \in TimerCall, NEW i \in Unsettled(proc[w])
        PROVE  proc[w].batch[i].src \in excused' /\ proc[w].batch[i].src \in Source
    <3>1. proc[w].batch[i] \in Event
      BY StateFacts DEF SIndInv, IndInv, TimerCall
    <3>2. proc[w].batch[i].src \in {proc[w].batch[j].src : j \in Unsettled(proc[w])}
      OBVIOUS
    <3>3. proc[w].batch[i].src \in HeldBy(TimerCall)
      BY <3>2 DEF HeldBy
    <3>4. QED
      BY <2>3, <3>1, <3>3 DEF Event
  <2>5. TimerCallsExcused'
    BY <2>2, <2>4 DEF TimerCallsExcused, Unsettled
  <2>6. excused' \subseteq Source
    <3>1. \A x \in HeldBy(TimerCall) : \E w \in TimerCall : \E i \in Unsettled(proc[w]) :
            x = proc[w].batch[i].src
      BY DEF HeldBy
    <3>2. QED
      BY <2>3, <2>4, <3>1
  <2>7. QED
    BY <1>1, <1>2, <2>2, <2>3, <2>5, <2>6 DEF SIndInv, STypeOK, IntervalCleared
<1>5. CASE StopGoesOn
  <2>1. stop = "draining" /\ OwnCallEnded /\ UNCHANGED <<isRunning, late, excused>>
    BY <1>5 DEF StopGoesOn
  <2>2. /\ stop' \in {"returned", "draining"}
        /\ OwnCallOnlyDrains' /\ LeftoversExcused'
        /\ \A w \in TimerCall : proc'[w] = proc[w]
    BY <1>5, <2>1, StopRound DEF StopGoesOn
  <2>3. TimerCallsExcused'
    BY <2>1, <2>2 DEF SIndInv, TimerCallsExcused, Unsettled
  <2>4. QED
    BY <1>1, <1>2, <2>1, <2>2, <2>3 DEF SIndInv, STypeOK, IntervalCleared
<1>6. CASE StopTimesOut \/ TimePasses
  <2>1. /\ stop = "draining" /\ stop' \in {"draining", "timedOut"} /\ late' \in BOOLEAN
        /\ UNCHANGED <<queue, proc, isRunning, excused>>
        /\ OwnCallEnded \/ stop' = stop
    BY <1>6 DEF StopTimesOut, TimePasses, SIndInv, STypeOK
  <2>2. STypeOK' /\ IntervalCleared' /\ LeftoversExcused'
    BY <1>2, <2>1 DEF SIndInv, STypeOK, IntervalCleared, LeftoversExcused
  <2>3. OwnCallOnlyDrains'
    BY <2>1 DEF OwnCallOnlyDrains, OwnCallEnded
  <2>4. TimerCallsExcused'
    BY <2>1 DEF SIndInv, TimerCallsExcused, Unsettled
  <2>5. QED
    BY <1>1, <2>2, <2>3, <2>4 DEF SIndInv
<1>7. ASSUME NEW s \in Source, Arrives(s) \/ IsRefused(s)
      PROVE  SIndInv'
  <2>1. UNCHANGED <<proc, isRunning, stop, late>> /\ excused \subseteq excused' /\ excused' \subseteq Source
    BY <1>7 DEF Arrives, IsRefused, Ingest, IngestRejected, SIndInv, STypeOK
  <2>2. LeftoversExcused'
    <3>1. CASE IsRefused(s)
      BY <3>1 DEF IsRefused, IngestRejected, SIndInv, LeftoversExcused
    <3>2. CASE Arrives(s)
      <4> DEFINE e == [src |-> s, gen |-> 0, retry |-> 0]
      <4>1. queue' = Append(queue, e) /\ (stop = "returned" => s \in excused')
        BY <3>2 DEF Arrives, Ingest, StopEnded
      <4>2. queue \in Seq(Event) /\ Len(queue) \in Nat /\ e \in Event
        BY StateFacts DEF SIndInv, IndInv, TypeOK, Event
      <4>3. /\ Len(queue') = Len(queue) + 1
            /\ \A i \in 1 .. Len(queue) : queue'[i] = queue[i]
            /\ queue'[Len(queue) + 1] = e
        BY <4>1, <4>2, AppendProperties
      <4>4. \A i \in 1 .. Len(queue') : i \in 1 .. Len(queue) \/ i = Len(queue) + 1
        BY <4>2, <4>3
      <4>5. QED
        BY <2>1, <4>1, <4>3, <4>4 DEF SIndInv, LeftoversExcused
    <3>3. QED
      BY <1>7, <3>1, <3>2
  <2>3. QED
    BY <1>1, <1>2, <2>1, <2>2
       DEF SIndInv, STypeOK, IntervalCleared, OwnCallOnlyDrains, OwnCallEnded, TimerCallsExcused
<1>8. ASSUME NEW w \in TimerCall, TimerTick(w)
      PROVE  SIndInv'
  <2>1. isRunning /\ UNCHANGED <<isRunning, stop, late, excused>> /\ Tick(w) /\ w \in Worker /\ w # StopCall
    BY <1>8 DEF TimerTick, IntervalIsSet, TimerCall
  <2>2. stop = "no"
    BY <2>1 DEF SIndInv, IntervalCleared
  <2>3. proc'[StopCall] = proc[StopCall]
    BY <1>2, <2>1, TickMovesOne
  <2>4. QED
    BY <1>1, <1>2, <2>1, <2>2, <2>3
       DEF SIndInv, STypeOK, IntervalCleared, OwnCallOnlyDrains, OwnCallEnded,
           TimerCallsExcused, LeftoversExcused
<1>9. ASSUME NEW w \in Worker, CallAnswered(w)
      PROVE  SIndInv'
  <2>1. Answered(w) /\ UNCHANGED <<isRunning, stop, late, excused>>
    BY <1>9 DEF CallAnswered
  <2>2. NothingNew(w)
    BY <2>1, AnsweredStep DEF SIndInv
  <2>3. proc[w].pc # "idle"
    BY <2>1 DEF Answered, TxCommits, TxFails, TxAnswerLost, IndividualInserted,
                IndividualFails, IndividualAnswerLost, DlqStores, DlqFails,
                DlqAnswerLost
  <2>4. OwnCallOnlyDrains'
    <3>1. CASE w = StopCall
      BY <2>1, <2>3, <3>1 DEF SIndInv, OwnCallOnlyDrains, OwnCallEnded
    <3>2. CASE w # StopCall
      BY <1>2, <2>1, <2>2, <3>2 DEF SIndInv, OwnCallOnlyDrains, OwnCallEnded, NothingNew
    <3>3. QED
      BY <3>1, <3>2
  <2>5. TimerCallsExcused'
    <3>1. ASSUME stop # "no", NEW v \in TimerCall, NEW i \in Unsettled(proc'[v])
          PROVE  i \in Unsettled(proc[v]) /\ proc'[v].batch = proc[v].batch
      BY <2>2, <3>1 DEF NothingNew, TimerCall
    <3>2. QED
      BY <2>1, <3>1 DEF SIndInv, TimerCallsExcused, Unsettled
  <2>6. LeftoversExcused'
    <3>1. SUFFICES ASSUME stop = "returned", NEW i \in 1 .. Len(queue')
                   PROVE  queue'[i].src \in excused
      BY <2>1 DEF LeftoversExcused
    <3>2. w \in TimerCall
      BY <2>3, <3>1 DEF SIndInv, OwnCallOnlyDrains, OwnCallEnded, TimerCall
    <3>3. ASSUME NEW j \in 1 .. Len(queue), queue'[i] = queue[j]
          PROVE  queue'[i].src \in excused
      BY <3>1, <3>3 DEF SIndInv, LeftoversExcused
    <3>4. ASSUME NEW j \in Unsettled(proc[w]), queue'[i].src = proc[w].batch[j].src
          PROVE  queue'[i].src \in excused
      BY <3>1, <3>2, <3>4 DEF SIndInv, TimerCallsExcused
    <3>5. QED
      BY <2>2, <3>3, <3>4 DEF NothingNew
  <2>7. QED
    BY <1>1, <1>2, <2>1, <2>4, <2>5, <2>6 DEF SIndInv, STypeOK, IntervalCleared
<1>10. CASE UNCHANGED allVars
  BY <1>1, <1>2, <1>10
     DEF allVars, SIndInv, STypeOK, IntervalCleared, OwnCallOnlyDrains, OwnCallEnded,
         TimerCallsExcused, LeftoversExcused
<1>11. QED
  BY <1>3, <1>4, <1>5, <1>6, <1>7, <1>8, <1>9, <1>10 DEF SNext

(* A name that stands for another event from now on is held nowhere, so    *)
(* that nothing the invariant says of copies is about it.                  *)
LEMMA NextEventSIndInv ==
  ASSUME SIndInv, NEW s \in Source, NextEvent(s)
  PROVE  SIndInv'
<1>1. /\ UNCHANGED <<queue, proc, isRunning, stop, late>>
      /\ client' = [client EXCEPT ![s] = "new"] /\ attempts' = [attempts EXCEPT ![s] = 0]
      /\ rows' = WithoutSource(rows, s) /\ dlq' = WithoutSource(dlq, s)
      /\ discarded' = WithoutSource(discarded, s) /\ excused' = excused \ {s}
  BY DEF NextEvent
<1>2. TypeOK /\ Placed /\ IndInv
  BY DEF SIndInv, IndInv
<1>3. /\ \A i \in 1 .. Len(queue) : queue[i].src \in Source \ {s}
      /\ \A w \in Worker : \A i \in Unsettled(proc[w]) : proc[w].batch[i].src \in Source \ {s}
  <2>1. LiveCopies(s) = {}
    BY DEF NextEvent
  <2>2. ASSUME NEW i \in 1 .. Len(queue) PROVE queue[i].src # s
    <3>1. queue[i].src = s => <<"queue", i>> \in LiveCopies(s)
      BY DEF LiveCopies
    <3>2. QED
      BY <2>1, <3>1
  <2>3. ASSUME NEW w \in Worker, NEW i \in Unsettled(proc[w]) PROVE proc[w].batch[i].src # s
    <3>1. proc[w].batch[i].src = s => <<w, i>> \in LiveCopies(s)
      BY DEF LiveCopies
    <3>2. QED
      BY <2>1, <3>1
  <2>4. QED
    BY <1>2, <2>2, <2>3, StateFacts DEF Event
<1>4. \A t \in Source \ {s} : /\ client'[t] = client[t] /\ attempts'[t] = attempts[t]
                              /\ Accepted(t)' = Accepted(t) /\ InDlq(t)' = InDlq(t)
                              /\ GivenUp(t)' = GivenUp(t) /\ Held(t)' = Held(t)
                              /\ \A x : <<t, x>> \in rows' <=> <<t, x>> \in rows
  BY <1>1, <1>2 DEF TypeOK, WithoutSource, Accepted, InDlq, GivenUp, Dropped, Unsure, Held, Unsettled
<1>5. client'[s] = "new" /\ attempts'[s] = 0 /\ ~ Accepted(s)' /\ ~ InDlq(s)'
  BY <1>1, <1>2 DEF TypeOK, WithoutSource, Accepted, InDlq
<1>6. TypeOK'
  BY <1>1, <1>2 DEF TypeOK, WithoutSource
<1>7. Placed'
  <2>1. SUFFICES ASSUME NEW w \in Worker PROVE WellPlaced(proc[w])'
    BY DEF Placed
  <2>2. proc' = proc /\ WellPlaced(proc[w]) /\ Len(proc[w].batch) \in Nat
    BY <1>1, <1>2, StateFacts DEF Placed
  <2>3. ASSUME proc[w].pc = "single", NEW i \in 1 .. proc[w].at - 1, Id(proc[w].batch[i]) \in rows
        PROVE  Id(proc[w].batch[i]) \in rows'
    <3>1. Tried(proc[w].batch) <= Len(proc[w].batch) /\ Tried(proc[w].batch) \in Nat
      BY <2>2, PipelineAssumption DEF PipelineAssumption, Tried, Least
    <3>2. i \in Unsettled(proc[w])
      BY <2>2, <2>3, <3>1 DEF WellPlaced, Unsettled
    <3>3. proc[w].batch[i].src \in Source \ {s}
      BY <1>3, <3>2
    <3>4. QED
      BY <1>4, <2>3, <3>3 DEF Id
  <2>4. QED
    BY <2>2, <2>3 DEF WellPlaced
<1>8. Traced' /\ Separate'
  BY <1>1, <1>2, <1>3, <1>4 DEF IndInv, Traced, Separate, Carries, Unsettled
<1>9. Untouched' /\ Kept' /\ RowsOfTwoGens'
  BY <1>1, <1>2, <1>4, <1>5 DEF IndInv, Untouched, Kept, RowsOfTwoGens, Recorded, WithoutSource
<1>10. AttemptsBounded' /\ DlqMeansExhausted'
  BY <1>2, <1>4, <1>5, PipelineAssumption
     DEF IndInv, AttemptsBounded, DlqMeansExhausted, PipelineAssumption
<1>11. TimerCallsExcused' /\ LeftoversExcused'
  BY <1>1, <1>3 DEF SIndInv, TimerCallsExcused, LeftoversExcused, TimerCall, Unsettled
<1>12. QED
  BY <1>1, <1>6, <1>7, <1>8, <1>9, <1>10, <1>11
     DEF SIndInv, IndInv, STypeOK, IntervalCleared, OwnCallOnlyDrains, OwnCallEnded

(* Once stop() has returned, a live copy is in the buffer or in a call of  *)
(* the timer.                                                              *)
LEMMA SIndInvIsCleanStop == SIndInv => CleanStopDrains
<1> SUFFICES ASSUME SIndInv, stop = "returned", NEW s \in Source, NEW c \in LiveCopies(s)
             PROVE  s \in excused
  BY DEF CleanStopDrains
<1>1. CASE \E i \in 1 .. Len(queue) : queue[i].src = s
  BY <1>1 DEF SIndInv, LeftoversExcused
<1>2. ASSUME NEW w \in Worker, NEW i \in Unsettled(proc[w]), proc[w].batch[i].src = s
      PROVE  s \in excused
  <2>1. CASE w = StopCall
    <3>1. proc[w].pc = "idle" /\ w \in Worker
      BY <2>1 DEF SIndInv, OwnCallOnlyDrains, OwnCallEnded
    <3>2. Unsettled(proc[w]) = {}
      BY <3>1, EmptySeq DEF SIndInv, IndInv, Placed, WellPlaced, Unsettled
    <3>3. QED
      BY <1>2, <3>2
  <2>2. CASE w # StopCall
    BY <1>2, <2>2 DEF SIndInv, TimerCallsExcused, TimerCall
  <2>3. QED
    BY <2>1, <2>2
<1>3. QED
  BY <1>1, <1>2 DEF LiveCopies

--------------------------------------------------------------------------------
(* The theorems                                                            *)

(* The inductive invariant holds in every state of a worker that is        *)
(* started and stopped while its calls are under way, with clients that    *)
(* may post for ever (BusySpec has all behaviours of SSpec).               *)
THEOREM ShutdownInvariance == BusySpec => []SIndInv
<1>1. SIndInv /\ [BusyNext]_allVars => SIndInv'
  BY StepSIndInv, NextEventSIndInv DEF BusyNext
<1>2. QED
  BY <1>1, InitSIndInv, PTL DEF BusySpec

(* The types of the worker's flags, on top of the pipeline's.              *)
THEOREM ShutdownTypeCorrect == BusySpec => []STypeOK
<1>1. SIndInv => STypeOK
  BY DEF SIndInv
<1>2. QED
  BY <1>1, ShutdownInvariance, PTL

(* A stop() that returned without timing out leaves in memory only events  *)
(* it does not answer for: those that arrived after it ended, and those a  *)
(* call of the timer held when it began.                                   *)
THEOREM CleanStopLeavesNothing == BusySpec => []CleanStopDrains
BY SIndInvIsCleanStop, ShutdownInvariance, PTL

(* A worker that is started and stopped keeps the promise of EventFate as  *)
(* well: stop() and its own calls only take steps of the pipeline.         *)
THEOREM ShutdownKeepsPromise == SSpec => ImplementsFate
<1>1. SInit => Init
  BY DEF SInit
<1>2. [SNext]_allVars => [Next]_vars
  BY PipelineSteps
<1>3. SSpec => Spec
  BY <1>1, <1>2, PTL DEF SSpec, Spec
<1>4. QED
  BY <1>3, PipelineKeepsPromise

================================================================================

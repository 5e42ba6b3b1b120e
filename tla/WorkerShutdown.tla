---------------------------- MODULE WorkerShutdown ----------------------------
(***************************************************************************)
(* The life of the batch worker around the pipeline: start() sets the      *)
(* timer, stop() clears it and runs process() until the buffer is empty or *)
(* the shutdown timeout has passed.                                        *)
(*                                                                         *)
(* stop() awaits only the process() calls it makes itself.  A call the     *)
(* timer began before is neither awaited nor cancelled, and the HTTP side  *)
(* accepts events all along: Nest runs onModuleDestroy before it closes    *)
(* the server.                                                             *)
(*                                                                         *)
(* Abstraction: the clock.  The timeout passes at some moment after stop() *)
(* began; the code looks at it in one place, between two batches.  Bound:  *)
(* one start() and one stop(), the calls Nest makes.                       *)
(***************************************************************************)
EXTENDS BatchPipeline

CONSTANT
  StopCall   (* the process() calls stop() makes, one after the other      *)

ASSUME StopCallAssumption == StopCall \in Worker

VARIABLES
  isRunning, (* the worker's flag; the interval is set exactly when it is  *)
  stop,      (* stop(): "no", "draining", "returned" or "timedOut"         *)
  late,      (* the shutdown timeout has passed                            *)
  excused    (* history: events stop() does not answer for: those a call   *)
             (* of the timer held when it began, and later arrivals        *)

allVars == <<client, queue, proc, rows, dlq, discarded, attempts,
             isRunning, stop, late, excused>>

TimerCall == Worker \ {StopCall}

HeldBy(calls) ==
  UNION {{proc[w].batch[i].src : i \in Unsettled(proc[w])} : w \in calls}

StopEnded == stop \in {"returned", "timedOut"}

SInit ==
  /\ Init
  /\ isRunning = FALSE
  /\ stop = "no"
  /\ late = FALSE
  /\ excused = {}

(* start(), called by onModuleInit; nothing happens if it is running.      *)
Start ==
  /\ ~ isRunning
  /\ stop = "no"
  /\ isRunning' = TRUE
  /\ UNCHANGED <<client, queue, proc, rows, dlq, discarded, attempts, stop, late, excused>>

(* Faulty variant: stop() forgets to clear the interval.                   *)
IntervalSurvives == TRUE

IntervalIsSet == isRunning

(* The interval fires: a process() call nobody waits for.                  *)
TimerTick(w) ==
  /\ IntervalIsSet
  /\ Tick(w)
  /\ UNCHANGED <<isRunning, stop, late, excused>>

(* The server listens once onModuleInit has been called, and after stop(). *)
Listening == isRunning \/ stop # "no"

(* Events keep arriving, before, during and after stop().                  *)
Arrives(s) ==
  /\ Listening
  /\ Ingest(s)
  /\ excused' = IF StopEnded THEN excused \cup {s} ELSE excused
  /\ UNCHANGED <<isRunning, stop, late>>

IsRefused(s) ==
  /\ Listening
  /\ IngestRejected(s)
  /\ UNCHANGED <<isRunning, stop, late, excused>>

(* The statement a process() call awaits is answered.                      *)
CallAnswered(w) ==
  /\ Answered(w)
  /\ UNCHANGED <<isRunning, stop, late, excused>>

(* The buffer is empty: stop() ends.                                       *)
StopFindsNothing ==
  /\ queue = << >>
  /\ stop' = "returned"
  /\ UNCHANGED <<client, queue, proc, rows, dlq, discarded, attempts>>

(* There are events: stop() begins a process() call and awaits it.         *)
StopTakesBatch ==
  /\ Tick(StopCall)
  /\ stop' = "draining"

(* stop(): clears the interval and looks at the buffer.  No time has       *)
(* passed, so the first round never times out.                             *)
StopBegins ==
  /\ isRunning
  /\ isRunning' = FALSE
  /\ excused' = HeldBy(TimerCall)
  /\ StopFindsNothing \/ StopTakesBatch
  /\ UNCHANGED late

(* shutdownTimeoutMs have passed since stop() began.                       *)
TimePasses ==
  /\ stop = "draining"
  /\ ~ late
  /\ late' = TRUE
  /\ UNCHANGED <<client, queue, proc, rows, dlq, discarded, attempts, isRunning, stop, excused>>

(* Faulty variant: the loop does not look at the clock.                    *)
NeverTooLate == FALSE

TooLate == late

(* stop()'s own process() call has ended, with or without an error.        *)
OwnCallEnded == proc[StopCall].pc = "idle"

(* The next round of the loop, one macrotask after the last one.           *)
StopGoesOn ==
  /\ stop = "draining"
  /\ OwnCallEnded
  /\ StopFindsNothing \/ (~ TooLate /\ StopTakesBatch)
  /\ UNCHANGED <<isRunning, late, excused>>

(* The timeout has passed and events are left: the loop is left.           *)
StopTimesOut ==
  /\ stop = "draining"
  /\ OwnCallEnded
  /\ queue # << >>
  /\ TooLate
  /\ stop' = "timedOut"
  /\ UNCHANGED <<client, queue, proc, rows, dlq, discarded, attempts, isRunning, late, excused>>

SNext ==
  \/ Start
  \/ StopBegins
  \/ TimePasses
  \/ StopGoesOn
  \/ StopTimesOut
  \/ \E s \in Source : Arrives(s) \/ IsRefused(s)
  \/ \E w \in TimerCall : TimerTick(w)
  \/ \E w \in Worker : CallAnswered(w)

(* The worker is started, an interval that is set keeps firing, time       *)
(* passes, every statement is answered in the end (it returns, fails or    *)
(* loses its connection), and a loop that can go on does.  Clients owe     *)
(* nothing, and nobody has to stop the worker.                             *)
SFairness ==
  /\ WF_allVars(Start)
  /\ WF_allVars(TimePasses)
  /\ WF_allVars(StopGoesOn \/ StopTimesOut)
  /\ \A w \in TimerCall : WF_allVars(TimerTick(w))
  /\ \A w \in Worker : WF_allVars(CallAnswered(w))

SSpec == SInit /\ [][SNext]_allVars /\ SFairness

--------------------------------------------------------------------------------
(* Clients that never stop posting                                         *)

WithoutSource(pairs, s) == {p \in pairs : p[1] # s}

(* The program is done with s.  From now on s stands for an event that was *)
(* not posted yet, so that a finite Source stands for events without end.  *)
NextEvent(s) ==
  /\ Accepted(s)
  /\ LiveCopies(s) = {}
  /\ client' = [client EXCEPT ![s] = "new"]
  /\ attempts' = [attempts EXCEPT ![s] = 0]
  /\ rows' = WithoutSource(rows, s)
  /\ dlq' = WithoutSource(dlq, s)
  /\ discarded' = WithoutSource(discarded, s)
  /\ excused' = excused \ {s}
  /\ UNCHANGED <<queue, proc, isRunning, stop, late>>

BusyNext == SNext \/ \E s \in Source : NextEvent(s)

BusySpec == SInit /\ [][BusyNext]_allVars /\ SFairness

--------------------------------------------------------------------------------
(* Properties                                                              *)

STypeOK ==
  /\ TypeOK
  /\ isRunning \in BOOLEAN
  /\ stop \in {"no", "draining", "returned", "timedOut"}
  /\ late \in BOOLEAN
  /\ excused \subseteq Source

(* A stop() that did not time out leaves nothing of what it had to settle: *)
(* an event still in memory arrived afterwards or belonged to a call of    *)
(* the timer that was under way when stop() began.  It includes events     *)
(* that arrived, failed and were retried while stop() was draining.        *)
CleanStopDrains ==
  stop = "returned" => \A s \in Source : LiveCopies(s) # {} => s \in excused

(* stop() comes to an end although clients post for ever and fill the      *)
(* buffer again during each of its batches: the timeout is what ends it.   *)
StopReturns == stop = "draining" ~> StopEnded

(* Every accepted event comes to rest, in a table or knowingly given up,   *)
(* and no longer in the buffer or in a batch; only a stop() that timed out *)
(* or did not answer for the event leaves it in memory.                    *)
EventuallySettled ==
  \A s \in Source :
    Accepted(s) ~>
      \/ LiveCopies(s) = {} /\ (StoredGens(s) # {} \/ InDlq(s) \/ GivenUp(s))
      \/ stop = "timedOut"
      \/ s \in excused

================================================================================

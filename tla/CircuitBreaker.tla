----------------------------- MODULE CircuitBreaker -----------------------------
(***************************************************************************)
(* CircuitBreakerService and the repository calls that go through it.      *)
(*                                                                         *)
(* execute() looks at the state, awaits the operation, and looks at the    *)
(* state again when the operation has ended: by then other calls may have  *)
(* opened, half-opened or closed the circuit.  Three kinds of callers:     *)
(* batchInsert, which after a failure OR a refusal inserts the events one  *)
(* by one outside the breaker; deleteOldEvents; and the search, whose      *)
(* operation runs a find statement and, through a second, nested           *)
(* execute(), a count statement, and races both against a timeout.  When   *)
(* the search has ended the count may still be under way, and its outcome  *)
(* still reaches the breaker.                                              *)
(*                                                                         *)
(* Abstractions.  lastFailureTime is the time passed since (`age'), which  *)
(* stops growing at the timeout: only age >= timeout is ever asked.  A     *)
(* refused search or deletion throws before it changes anything and is not *)
(* a step.  Errors are transient (isTransientError) or not; the search's   *)
(* own timeout error matches none of the transient patterns.               *)
(***************************************************************************)
EXTENDS Integers, FiniteSets

CONSTANTS
  Insert,           (* batchInsert calls that may be under way             *)
  Purge,            (* deleteOldEvents calls                               *)
  Search,           (* findByServiceAndTimeRangeWithCount calls            *)
  FailureThreshold, (* CIRCUIT_BREAKER_FAILURE_THRESHOLD                   *)
  SuccessThreshold, (* CIRCUIT_BREAKER_SUCCESS_THRESHOLD                   *)
  Timeout,          (* CIRCUIT_BREAKER_TIMEOUT_MS, in clock ticks          *)
  MaxFailureCount   (* bound: no transient failures beyond this count      *)

Call == Insert \cup Purge \cup Search

ASSUME BreakerAssumption ==
  /\ FailureThreshold \in Nat \ {0}
  /\ SuccessThreshold \in Nat \ {0}
  /\ Timeout \in Nat \ {0}
  /\ MaxFailureCount \in Nat
  /\ Insert \cap Search = {} /\ Purge \cap Search = {} /\ Insert \cap Purge = {}

VARIABLES
  breaker, (* state, failureCount, successCount, age of the last failure   *)
  pc,      (* where each call is                                           *)
  find,    (* the find statement of each search                            *)
  count,   (* the count statement of each search                           *)
  probes   (* history: calls admitted since the circuit became HALF_OPEN   *)

vars == <<breaker, pc, find, count, probes>>

(* lastFailureTime is null.                                                *)
Never == -1

Closed == [state |-> "CLOSED", failureCount |-> 0, successCount |-> 0, age |-> Never]

Init ==
  /\ breaker = Closed
  /\ pc = [c \in Call |-> "idle"]
  /\ find = [c \in Search |-> "none"]
  /\ count = [c \in Search |-> "none"]
  /\ probes = {}

--------------------------------------------------------------------------------
(* The breaker's own functions, from its state to its state                *)

(* The circuit has been open long enough to try the database again.        *)
MayTry(b) == b.age # Never /\ b.age >= Timeout

Admits(b) == b.state # "OPEN" \/ MayTry(b)

(* What execute() does to the state before it runs the operation.          *)
Admitted(b) ==
  IF b.state = "OPEN"
  THEN [b EXCEPT !.state = "HALF_OPEN", !.successCount = 0]
  ELSE b

(* Faulty variant: successes that arrive in any state count as probes.     *)
OnSuccessInAnyState(b) ==
  IF b.state = "CLOSED"
  THEN [b EXCEPT !.failureCount = 0]
  ELSE IF b.successCount + 1 >= SuccessThreshold
       THEN [b EXCEPT !.failureCount = 0, !.state = "CLOSED", !.successCount = 0]
       ELSE [b EXCEPT !.failureCount = 0, !.successCount = @ + 1]

(* Faulty variant: a success forgives one failure instead of all of them.  *)
OnSuccessForgivesOne(b) ==
  IF b.state # "HALF_OPEN"
  THEN [b EXCEPT !.failureCount = @ - 1]
  ELSE IF b.successCount + 1 >= SuccessThreshold
       THEN [b EXCEPT !.failureCount = 0, !.state = "CLOSED", !.successCount = 0]
       ELSE [b EXCEPT !.failureCount = @ - 1, !.successCount = @ + 1]

(* Faulty variant: both counters start over at a success.                  *)
OnSuccessStartsOver(b) ==
  IF b.state = "HALF_OPEN" /\ SuccessThreshold = 1
  THEN [b EXCEPT !.failureCount = 0, !.state = "CLOSED", !.successCount = 0]
  ELSE [b EXCEPT !.failureCount = 0, !.successCount = 0]

(* onSuccess()                                                             *)
OnSuccess(b) ==
  IF b.state # "HALF_OPEN"
  THEN [b EXCEPT !.failureCount = 0]
  ELSE IF b.successCount + 1 >= SuccessThreshold
       THEN [b EXCEPT !.failureCount = 0, !.state = "CLOSED", !.successCount = 0]
       ELSE [b EXCEPT !.failureCount = 0, !.successCount = @ + 1]

(* Faulty variant: the circuit opens one failure late.                     *)
OnFailureLate(b) ==
  LET counted == [b EXCEPT !.failureCount = @ + 1, !.age = 0]
  IN IF b.state = "HALF_OPEN"
     THEN [counted EXCEPT !.state = "OPEN", !.successCount = 0]
     ELSE IF b.failureCount >= FailureThreshold
          THEN [counted EXCEPT !.state = "OPEN"]
          ELSE counted

(* onFailure()                                                             *)
OnFailure(b) ==
  LET counted == [b EXCEPT !.failureCount = @ + 1, !.age = 0]
  IN IF b.state = "HALF_OPEN"
     THEN [counted EXCEPT !.state = "OPEN", !.successCount = 0]
     ELSE IF counted.failureCount >= FailureThreshold
          THEN [counted EXCEPT !.state = "OPEN"]
          ELSE counted

(* The catch block of execute(): only transient errors count.              *)
OnError(b, transient) == IF transient THEN OnFailure(b) ELSE b

--------------------------------------------------------------------------------
(* Calls of any kind                                                       *)

(* The clock moves.                                                        *)
Tick ==
  /\ breaker.age \in 0 .. Timeout - 1
  /\ breaker' = [breaker EXCEPT !.age = @ + 1]
  /\ UNCHANGED <<pc, find, count, probes>>

(* reset(), which no code calls; the service offers it to administrators.  *)
Reset ==
  /\ breaker' = Closed
  /\ UNCHANGED <<pc, find, count, probes>>

(* execute() lets call c in; a search starts both its statements, the      *)
(* count through an execute() of its own, which finds the same state.      *)
Begin(c) ==
  /\ pc[c] = "idle"
  /\ Admits(breaker)
  /\ breaker' = Admitted(breaker)
  /\ pc' = [pc EXCEPT ![c] = "running"]
  /\ probes' = CASE breaker.state = "OPEN" -> {c}
                 [] breaker.state = "HALF_OPEN" -> probes \cup {c}
                 [] OTHER -> {}
  /\ IF c \in Search
     THEN /\ find' = [find EXCEPT ![c] = "pending"]
          /\ count' = [count EXCEPT ![c] = "pending"]
     ELSE UNCHANGED <<find, count>>

(* The environment fails only within the bound; a search may count twice.  *)
WithinBound(transient) == transient => breaker.failureCount + 2 <= MaxFailureCount

--------------------------------------------------------------------------------
(* batchInsert and deleteOldEvents                                         *)

(* A refused batchInsert falls through to individual inserts.              *)
InsertRefused(c) ==
  /\ c \in Insert
  /\ pc[c] = "idle"
  /\ ~ Admits(breaker)
  /\ pc' = [pc EXCEPT ![c] = "individual"]
  /\ UNCHANGED <<breaker, find, count, probes>>

Succeeds(c) ==
  /\ c \in Insert \cup Purge
  /\ pc[c] = "running"
  /\ breaker' = OnSuccess(breaker)
  /\ pc' = [pc EXCEPT ![c] = "idle"]
  /\ probes' = probes \ {c}
  /\ UNCHANGED <<find, count>>

Fails(c, transient) ==
  /\ c \in Insert \cup Purge
  /\ pc[c] = "running"
  /\ WithinBound(transient)
  /\ breaker' = OnError(breaker, transient)
  /\ pc' = [pc EXCEPT ![c] = IF c \in Insert THEN "individual" ELSE "idle"]
  /\ probes' = probes \ {c}
  /\ UNCHANGED <<find, count>>

(* The individual inserts end, well or badly, unseen by the breaker.       *)
IndividualInsertsEnd(c) ==
  /\ pc[c] = "individual"
  /\ pc' = [pc EXCEPT ![c] = "idle"]
  /\ UNCHANGED <<breaker, find, count, probes>>

--------------------------------------------------------------------------------
(* The search                                                              *)

(* The outer execute() of search c ends, and with it the call, unless the  *)
(* count it started is still under way.                                    *)
SearchEnds(c, countPending) ==
  /\ pc' = [pc EXCEPT ![c] = IF countPending THEN "orphaned" ELSE "idle"]
  /\ find' = [find EXCEPT ![c] = "none"]
  /\ count' = [count EXCEPT ![c] = IF countPending THEN "pending" ELSE "none"]
  /\ probes' = IF countPending THEN probes ELSE probes \ {c}

FindReturns(c) ==
  /\ c \in Search
  /\ pc[c] = "running" /\ find[c] = "pending"
  /\ \/ /\ count[c] = "pending"
        /\ find' = [find EXCEPT ![c] = "ok"]
        /\ UNCHANGED <<breaker, pc, count, probes>>
     \/ /\ count[c] = "ok"
        /\ breaker' = OnSuccess(breaker)
        /\ SearchEnds(c, FALSE)

FindFails(c, transient) ==
  /\ c \in Search
  /\ pc[c] = "running" /\ find[c] = "pending"
  /\ WithinBound(transient)
  /\ breaker' = OnError(breaker, transient)
  /\ SearchEnds(c, count[c] = "pending")

(* The nested execute() succeeds, and the outer one with it if the find    *)
(* has returned; an orphaned count only concerns the nested one.           *)
CountReturns(c) ==
  /\ c \in Search
  /\ count[c] = "pending"
  /\ \/ /\ pc[c] = "running" /\ find[c] = "pending"
        /\ breaker' = OnSuccess(breaker)
        /\ count' = [count EXCEPT ![c] = "ok"]
        /\ UNCHANGED <<pc, find, probes>>
     \/ /\ pc[c] = "running" /\ find[c] = "ok"
        /\ breaker' = OnSuccess(OnSuccess(breaker))
        /\ SearchEnds(c, FALSE)
     \/ /\ pc[c] = "orphaned"
        /\ breaker' = OnSuccess(breaker)
        /\ SearchEnds(c, FALSE)

(* The nested execute() counts the error, and the outer one counts the     *)
(* same error again if it is still waiting.                                *)
CountFails(c, transient) ==
  /\ c \in Search
  /\ count[c] = "pending"
  /\ WithinBound(transient)
  /\ breaker' = IF pc[c] = "running"
                THEN OnError(OnError(breaker, transient), transient)
                ELSE OnError(breaker, transient)
  /\ SearchEnds(c, FALSE)

(* 'Query timeout exceeded': an error that is not transient.               *)
SearchTimesOut(c) ==
  /\ c \in Search
  /\ pc[c] = "running"
  /\ SearchEnds(c, count[c] = "pending")
  /\ UNCHANGED breaker

--------------------------------------------------------------------------------

(* An operation that went through the breaker ends well.                   *)
GoodAnswer(c) == Succeeds(c) \/ FindReturns(c) \/ CountReturns(c)

BadAnswer(c) ==
  \/ \E transient \in BOOLEAN :
       Fails(c, transient) \/ FindFails(c, transient) \/ CountFails(c, transient)
  \/ SearchTimesOut(c)

Answer(c) == GoodAnswer(c) \/ BadAnswer(c) \/ IndividualInsertsEnd(c)

Next ==
  \/ Tick
  \/ Reset
  \/ \E c \in Call : Begin(c) \/ InsertRefused(c) \/ Answer(c)

(* Time passes, statements are answered, and there is always a next batch  *)
(* to insert: the worker's timer fires as long as events arrive.           *)
Fairness ==
  /\ WF_vars(Tick)
  /\ \A c \in Call : WF_vars(Answer(c))
  /\ \A c \in Insert : WF_vars(Begin(c))

Spec == Init /\ [][Next]_vars

FairSpec == Spec /\ Fairness

--------------------------------------------------------------------------------
(* Properties                                                              *)

Breaker ==
  [state : {"CLOSED", "OPEN", "HALF_OPEN"}, failureCount : Nat, successCount : Nat,
   age : {Never} \cup 0 .. Timeout]

TypeOK ==
  /\ breaker \in Breaker
  /\ pc \in [Call -> {"idle", "running", "individual", "orphaned"}]
  /\ find \in [Search -> {"none", "pending", "ok"}]
  /\ count \in [Search -> {"none", "pending", "ok"}]
  /\ probes \subseteq Call

(* The counters fit the state however late the answers come: a closed      *)
(* circuit is below its failure threshold, a half-open one below its       *)
(* success threshold, no success is carried into another state, and one    *)
(* that opened knows when: execute() tests lastFailureTime for null and    *)
(* would refuse for ever if it were.                                       *)
CountersFitState ==
  /\ breaker.state = "CLOSED" => breaker.failureCount < FailureThreshold
  /\ breaker.state = "HALF_OPEN" => breaker.successCount < SuccessThreshold
  /\ breaker.state # "HALF_OPEN" => breaker.successCount = 0
  /\ breaker.state # "CLOSED" => breaker.age # Never

(* Every change of state has its cause, whenever the answers arrive: only  *)
(* a call that comes when the timeout has passed ends OPEN, so that no     *)
(* success that was under way when the circuit opened does; only a failed  *)
(* statement opens the circuit; and only a success closes it, in HALF_OPEN,*)
(* where that of a call admitted long before counts like a probe's.        *)
ChangesHaveCauses ==
  [][\/ breaker'.state = breaker.state
     \/ Reset
     \/ /\ breaker.state = "OPEN" /\ breaker'.state = "HALF_OPEN"
        /\ breaker.age = Timeout
        /\ \E c \in Call : Begin(c)
     \/ /\ breaker.state # "OPEN" /\ breaker'.state = "OPEN"
        /\ \E c \in Call : BadAnswer(c)
     \/ /\ breaker.state = "HALF_OPEN" /\ breaker'.state = "CLOSED"
        /\ \E c \in Call : GoodAnswer(c)]_vars

(* Once statements fail no more, the circuit closes, and it does so again  *)
(* and again should it be opened by what was already counted.              *)
Recovers ==
  (<>[][\A c \in Call : ~ BadAnswer(c)]_vars) => []<>(breaker.state = "CLOSED")

(* docs/DIAGRAMAS_UML.md: a half-open circuit allows one test request and  *)
(* closes when it succeeds.  So what closes it is the success of the only  *)
(* call it let in, not of one among many or of one admitted long before.   *)
TestRequestCloses ==
  [][breaker.state = "HALF_OPEN" /\ breaker'.state = "CLOSED" /\ ~ Reset
       => \E c \in Call : probes = {c} /\ GoodAnswer(c)]_vars

================================================================================

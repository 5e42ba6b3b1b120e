-------------------------- MODULE CircuitBreakerProofs --------------------------
(***************************************************************************)
(* For every number of callers, every threshold and every timeout: the     *)
(* breaker's counters fit its state, an open circuit knows when it was     *)
(* opened, and every change of state has its cause.                        *)
(*                                                                         *)
(* No caller is ever mentioned in the inductive invariant.  The argument   *)
(* is that each of the breaker's own functions takes a good breaker to a   *)
(* good breaker whatever the state in which it is applied, so it does not  *)
(* matter which answers arrive late.                                       *)
(***************************************************************************)
EXTENDS CircuitBreaker, TLAPS

(* TypeOK's and CountersFitState's demands on a breaker b.                 *)
GoodBreaker(b) ==
  /\ b \in Breaker
  /\ b.state = "CLOSED" => b.failureCount < FailureThreshold
  /\ b.state = "HALF_OPEN" => b.successCount < SuccessThreshold
  /\ b.state # "HALF_OPEN" => b.successCount = 0
  /\ b.state # "CLOSED" => b.age # Never

(* ChangesHaveCauses' demand on a step.                                    *)
HasCause ==
  \/ breaker'.state = breaker.state
  \/ Reset
  \/ /\ breaker.state = "OPEN" /\ breaker'.state = "HALF_OPEN"
     /\ breaker.age = Timeout
     /\ \E c \in Call : Begin(c)
  \/ /\ breaker.state # "OPEN" /\ breaker'.state = "OPEN"
     /\ \E c \in Call : BadAnswer(c)
  \/ /\ breaker.state = "HALF_OPEN" /\ breaker'.state = "CLOSED"
     /\ \E c \in Call : GoodAnswer(c)

--------------------------------------------------------------------------------
(* The breaker's functions                                                 *)

(* The types of a good breaker's fields and of their new values.           *)
LEMMA FieldTypes ==
  ASSUME NEW b \in Breaker
  PROVE  /\ b.state \in {"CLOSED", "OPEN", "HALF_OPEN"}
         /\ b.failureCount \in Nat /\ b.failureCount + 1 \in Nat
         /\ b.successCount \in Nat /\ b.successCount + 1 \in Nat
         /\ b.age \in {Never} \cup 0 .. Timeout
         /\ 0 \in Nat
         /\ 0 \in 0 .. Timeout /\ 0 # Never
         /\ 0 < FailureThreshold /\ 0 < SuccessThreshold
BY BreakerAssumption DEF Breaker, Never

(* Letting a call in keeps a breaker good and moves OPEN to HALF_OPEN only *)
(* when the timeout has passed.                                            *)
LEMMA AdmittedIsGood ==
  ASSUME NEW b, GoodBreaker(b), Admits(b)
  PROVE  /\ GoodBreaker(Admitted(b))
         /\ \/ Admitted(b).state = b.state
            \/ b.state = "OPEN" /\ Admitted(b).state = "HALF_OPEN" /\ b.age = Timeout
<1>0. b \in Breaker
  BY DEF GoodBreaker
<1>1. CASE b.state = "OPEN"
  <2> DEFINE c == [b EXCEPT !.state = "HALF_OPEN", !.successCount = 0]
  <2>1. Admitted(b) = c
    BY <1>1 DEF Admitted
  <2>2. b.age = Timeout
    BY <1>1, BreakerAssumption, SMT DEF GoodBreaker, Breaker, Admits, MayTry, Never
  <2>3. c \in Breaker
    BY <1>0, FieldTypes, Zenon DEF Breaker
  <2>4. c.state = "HALF_OPEN" /\ c.successCount = 0 /\ c.age = b.age
    BY <1>0, SMT DEF Breaker
  <2>5. GoodBreaker(c)
    BY <1>0, <1>1, <2>3, <2>4, FieldTypes DEF GoodBreaker
  <2> QED BY <1>1, <2>1, <2>2, <2>4, <2>5
<1>2. CASE b.state # "OPEN"
  BY <1>2 DEF Admitted
<1> QED BY <1>1, <1>2

(* A success, in whatever state it arrives, keeps a breaker good, and only *)
(* closes a half-open circuit.                                             *)
LEMMA OnSuccessIsGood ==
  ASSUME NEW b, GoodBreaker(b)
  PROVE  /\ GoodBreaker(OnSuccess(b))
         /\ \/ OnSuccess(b).state = b.state
            \/ b.state = "HALF_OPEN" /\ OnSuccess(b).state = "CLOSED"
<1>0. b \in Breaker
  BY DEF GoodBreaker
<1>1. CASE b.state # "HALF_OPEN"
  <2> DEFINE c == [b EXCEPT !.failureCount = 0]
  <2>1. OnSuccess(b) = c
    BY <1>1 DEF OnSuccess
  <2>2. c \in Breaker
    BY <1>0, FieldTypes, Zenon DEF Breaker
  <2>3. /\ c.state = b.state /\ c.failureCount = 0
        /\ c.successCount = b.successCount /\ c.age = b.age
    BY <1>0, SMT DEF Breaker
  <2>4. GoodBreaker(c)
    BY <1>0, <2>2, <2>3, FieldTypes DEF GoodBreaker
  <2> QED BY <2>1, <2>3, <2>4
<1>2. CASE b.state = "HALF_OPEN" /\ b.successCount + 1 >= SuccessThreshold
  <2> DEFINE c == [b EXCEPT !.failureCount = 0, !.state = "CLOSED", !.successCount = 0]
  <2>1. OnSuccess(b) = c
    BY <1>2 DEF OnSuccess
  <2>2. c \in Breaker
    BY <1>0, FieldTypes, Zenon DEF Breaker
  <2>3. c.state = "CLOSED" /\ c.failureCount = 0 /\ c.successCount = 0
    BY <1>0, SMT DEF Breaker
  <2>4. GoodBreaker(c)
    BY <1>0, <2>2, <2>3, FieldTypes DEF GoodBreaker
  <2> QED BY <1>2, <2>1, <2>3, <2>4
<1>3. CASE b.state = "HALF_OPEN" /\ ~ (b.successCount + 1 >= SuccessThreshold)
  <2> DEFINE c == [b EXCEPT !.failureCount = 0, !.successCount = b.successCount + 1]
  <2>1. OnSuccess(b) = c
    BY <1>3 DEF OnSuccess
  <2>2. c \in Breaker
    BY <1>0, FieldTypes, Zenon DEF Breaker
  <2>3. c.state = "HALF_OPEN" /\ c.successCount = b.successCount + 1 /\ c.age = b.age
    BY <1>0, <1>3, SMT DEF Breaker
  <2>4. c.successCount < SuccessThreshold
    BY <1>0, <1>3, <2>3, FieldTypes, BreakerAssumption, SMT
  <2>5. GoodBreaker(c)
    BY <1>3, <2>2, <2>3, <2>4 DEF GoodBreaker
  <2> QED BY <1>3, <2>1, <2>3, <2>5
<1> QED BY <1>1, <1>2, <1>3

(* An error, in whatever state it arrives, keeps a breaker good, and only  *)
(* ever opens a circuit.                                                   *)
LEMMA OnErrorIsGood ==
  ASSUME NEW b, NEW transient \in BOOLEAN, GoodBreaker(b)
  PROVE  /\ GoodBreaker(OnError(b, transient))
         /\ OnError(b, transient).state \in {b.state, "OPEN"}
<1>0. b \in Breaker
  BY DEF GoodBreaker
<1> DEFINE counted == [b EXCEPT !.failureCount = b.failureCount + 1, !.age = 0]
<1>1. counted \in Breaker
  BY <1>0, FieldTypes, Zenon DEF Breaker
<1>2. /\ counted.state = b.state /\ counted.age = 0
      /\ counted.failureCount = b.failureCount + 1
      /\ counted.successCount = b.successCount
  BY <1>0, SMT DEF Breaker
<1>3. OnFailure(b) = IF b.state = "HALF_OPEN"
                     THEN [counted EXCEPT !.state = "OPEN", !.successCount = 0]
                     ELSE IF counted.failureCount >= FailureThreshold
                          THEN [counted EXCEPT !.state = "OPEN"]
                          ELSE counted
  BY DEF OnFailure
<1> HIDE DEF counted
<1>4. CASE ~ transient
  BY <1>4 DEF OnError
<1>5. CASE transient /\ b.state = "HALF_OPEN"
  <2> DEFINE c == [counted EXCEPT !.state = "OPEN", !.successCount = 0]
  <2>1. OnError(b, transient) = c
    BY <1>3, <1>5 DEF OnError
  <2>2. c \in Breaker
    BY <1>1, FieldTypes, Zenon DEF Breaker
  <2>3. c.state = "OPEN" /\ c.successCount = 0 /\ c.age = 0
    BY <1>1, <1>2, SMT DEF Breaker
  <2>4. GoodBreaker(c)
    BY <1>0, <2>2, <2>3, FieldTypes DEF GoodBreaker
  <2> QED BY <2>1, <2>3, <2>4
<1>6. CASE /\ transient /\ b.state # "HALF_OPEN"
           /\ counted.failureCount >= FailureThreshold
  <2> DEFINE c == [counted EXCEPT !.state = "OPEN"]
  <2>1. OnError(b, transient) = c
    BY <1>3, <1>6 DEF OnError
  <2>2. c \in Breaker
    BY <1>1, FieldTypes, Zenon DEF Breaker
  <2>3. c.state = "OPEN" /\ c.successCount = b.successCount /\ c.age = 0
    BY <1>1, <1>2, SMT DEF Breaker
  <2>4. GoodBreaker(c)
    BY <1>0, <1>6, <2>2, <2>3, FieldTypes DEF GoodBreaker
  <2> QED BY <2>1, <2>3, <2>4
<1>7. CASE /\ transient /\ b.state # "HALF_OPEN"
           /\ ~ (counted.failureCount >= FailureThreshold)
  <2>1. OnError(b, transient) = counted
    BY <1>3, <1>7 DEF OnError
  <2>2. counted.failureCount < FailureThreshold
    BY <1>0, <1>2, <1>7, FieldTypes, BreakerAssumption, SMT
  <2>3. GoodBreaker(counted)
    BY <1>0, <1>1, <1>2, <1>7, <2>2, FieldTypes DEF GoodBreaker
  <2> QED BY <1>2, <2>1, <2>3
<1> QED BY <1>4, <1>5, <1>6, <1>7

--------------------------------------------------------------------------------
(* Steps                                                                   *)

(* A success may be counted twice in one step, an error too.               *)
LEMMA AnswersCounted ==
  ASSUME NEW c \in Call
  PROVE  /\ GoodAnswer(c) => \/ UNCHANGED breaker
                             \/ breaker' = OnSuccess(breaker)
                             \/ breaker' = OnSuccess(OnSuccess(breaker))
         /\ BadAnswer(c) => \/ UNCHANGED breaker
                            \/ \E transient \in BOOLEAN :
                                 \/ breaker' = OnError(breaker, transient)
                                 \/ breaker' = OnError(OnError(breaker, transient), transient)
<1>1. ASSUME GoodAnswer(c)
      PROVE  \/ UNCHANGED breaker
             \/ breaker' = OnSuccess(breaker)
             \/ breaker' = OnSuccess(OnSuccess(breaker))
  BY <1>1 DEF GoodAnswer, Succeeds, FindReturns, CountReturns
<1>2. ASSUME NEW transient \in BOOLEAN,
             Fails(c, transient) \/ FindFails(c, transient) \/ CountFails(c, transient)
      PROVE  \/ breaker' = OnError(breaker, transient)
             \/ breaker' = OnError(OnError(breaker, transient), transient)
  BY <1>2, Zenon DEF Fails, FindFails, CountFails
<1>3. SearchTimesOut(c) => UNCHANGED breaker
  BY DEF SearchTimesOut
<1> QED BY <1>1, <1>2, <1>3, Zenon DEF BadAnswer

(* Every step takes a good breaker to a good one, and has a cause for what *)
(* it changes.                                                             *)
LEMMA BreakerStep ==
  ASSUME GoodBreaker(breaker), [Next]_vars
  PROVE  GoodBreaker(breaker') /\ HasCause
<1>0. breaker.state \in {"CLOSED", "OPEN", "HALF_OPEN"}
  BY DEF GoodBreaker, Breaker
<1>1. CASE Tick
  BY <1>1, BreakerAssumption, SMT DEF Tick, GoodBreaker, Breaker, HasCause, Never
<1>2. CASE Reset
  <2>1. GoodBreaker(breaker')
    BY <1>2, BreakerAssumption, SMT DEF Reset, Closed, GoodBreaker, Breaker, Never
  <2> QED BY <1>2, <2>1, Zenon DEF HasCause
<1>3. ASSUME NEW c \in Call, Begin(c)
      PROVE  GoodBreaker(breaker') /\ HasCause
  <2>1. Admits(breaker) /\ breaker' = Admitted(breaker)
    BY <1>3 DEF Begin
  <2> QED BY <1>3, <2>1, AdmittedIsGood, Zenon DEF HasCause
<1>4. CASE UNCHANGED breaker
  BY <1>4 DEF HasCause
<1>5. ASSUME NEW c \in Call, GoodAnswer(c)
      PROVE  GoodBreaker(breaker') /\ HasCause
  <2> DEFINE once == OnSuccess(breaker)
             twice == OnSuccess(once)
  <2>1. /\ GoodBreaker(once)
        /\ \/ once.state = breaker.state
           \/ breaker.state = "HALF_OPEN" /\ once.state = "CLOSED"
    BY OnSuccessIsGood
  <2>2. /\ GoodBreaker(twice)
        /\ \/ twice.state = once.state
           \/ once.state = "HALF_OPEN" /\ twice.state = "CLOSED"
    BY <2>1, OnSuccessIsGood
  <2> HIDE DEF once, twice
  <2>3. UNCHANGED breaker \/ breaker' = once \/ breaker' = twice
    BY <1>5, AnswersCounted DEF once, twice
  <2>4. GoodBreaker(breaker')
    BY <2>1, <2>2, <2>3
  <2>5. \/ breaker'.state = breaker.state
        \/ breaker.state = "HALF_OPEN" /\ breaker'.state = "CLOSED"
    BY <2>1, <2>2, <2>3
  <2> QED BY <1>5, <2>4, <2>5, Zenon DEF HasCause
<1>6. ASSUME NEW c \in Call, BadAnswer(c)
      PROVE  GoodBreaker(breaker') /\ HasCause
  <2>1. CASE UNCHANGED breaker
    BY <2>1, <1>4
  <2>2. ASSUME NEW transient \in BOOLEAN,
               \/ breaker' = OnError(breaker, transient)
               \/ breaker' = OnError(OnError(breaker, transient), transient)
        PROVE  GoodBreaker(breaker') /\ breaker'.state \in {breaker.state, "OPEN"}
    <3> DEFINE once == OnError(breaker, transient)
    <3>1. GoodBreaker(once) /\ once.state \in {breaker.state, "OPEN"}
      BY OnErrorIsGood
    <3>2. /\ GoodBreaker(OnError(once, transient))
          /\ OnError(once, transient).state \in {once.state, "OPEN"}
      BY <3>1, OnErrorIsGood
    <3> QED BY <2>2, <3>1, <3>2
  <2>3. GoodBreaker(breaker') /\ breaker'.state \in {breaker.state, "OPEN"}
    BY <1>6, <2>1, <2>2, AnswersCounted
  <2> QED BY <1>6, <2>3, Zenon DEF HasCause
<1>7. ASSUME NEW c \in Call, InsertRefused(c) \/ IndividualInsertsEnd(c)
      PROVE  UNCHANGED breaker
  BY <1>7 DEF InsertRefused, IndividualInsertsEnd
<1>8. CASE UNCHANGED vars
  BY <1>8, <1>4 DEF vars
<1> QED
  BY <1>1, <1>2, <1>3, <1>4, <1>5, <1>6, <1>7, <1>8, Zenon DEF Next, Answer

(* The calls' own variables keep their types.                              *)
CallsTyped ==
  /\ pc \in [Call -> {"idle", "running", "individual", "orphaned"}]
  /\ find \in [Search -> {"none", "pending", "ok"}]
  /\ count \in [Search -> {"none", "pending", "ok"}]
  /\ probes \subseteq Call

(* Whatever a call does, or the breaker for it, the calls' variables stay  *)
(* in their types.                                                         *)
LEMMA CallsStep ==
  ASSUME CallsTyped, [Next]_vars
  PROVE  CallsTyped'
<1> USE DEF CallsTyped
<1>1. CASE Tick
  BY <1>1 DEF Tick
<1>2. CASE Reset
  BY <1>2 DEF Reset
<1>3. ASSUME NEW c \in Call, Begin(c)
      PROVE  CallsTyped'
  BY <1>3 DEF Begin
<1>4. ASSUME NEW c \in Call, InsertRefused(c)
      PROVE  CallsTyped'
  BY <1>4 DEF InsertRefused
<1>5. ASSUME NEW c \in Call, Succeeds(c)
      PROVE  CallsTyped'
  BY <1>5 DEF Succeeds
<1>6. ASSUME NEW c \in Call, NEW transient \in BOOLEAN, Fails(c, transient)
      PROVE  CallsTyped'
  BY <1>6 DEF Fails
<1>7. ASSUME NEW c \in Call, IndividualInsertsEnd(c)
      PROVE  CallsTyped'
  BY <1>7 DEF IndividualInsertsEnd
<1>8. ASSUME NEW c \in Call, NEW pending \in BOOLEAN, SearchEnds(c, pending)
      PROVE  CallsTyped'
  BY <1>8 DEF SearchEnds
<1>9. ASSUME NEW c \in Call, FindReturns(c)
      PROVE  CallsTyped'
  BY <1>9, <1>8 DEF FindReturns
<1>10. ASSUME NEW c \in Call, NEW transient \in BOOLEAN, FindFails(c, transient)
       PROVE  CallsTyped'
  BY <1>10, <1>8 DEF FindFails
<1>11. ASSUME NEW c \in Call, CountReturns(c)
       PROVE  CallsTyped'
  BY <1>11, <1>8 DEF CountReturns
<1>12. ASSUME NEW c \in Call, NEW transient \in BOOLEAN, CountFails(c, transient)
       PROVE  CallsTyped'
  BY <1>12, <1>8 DEF CountFails
<1>13. ASSUME NEW c \in Call, SearchTimesOut(c)
       PROVE  CallsTyped'
  BY <1>13, <1>8 DEF SearchTimesOut
<1>14. CASE UNCHANGED vars
  BY <1>14 DEF vars
<1> QED
  BY <1>1, <1>2, <1>3, <1>4, <1>5, <1>6, <1>7, <1>9, <1>10, <1>11, <1>12, <1>13, <1>14
     DEF Next, Answer, GoodAnswer, BadAnswer

--------------------------------------------------------------------------------
(* The inductive invariant                                                 *)

IndInv == GoodBreaker(breaker) /\ CallsTyped

(* A new breaker is closed, its counters are zero and no call is under     *)
(* way.                                                                    *)
LEMMA InitEstablishes == Init => IndInv
BY BreakerAssumption, SMT DEF Init, IndInv, GoodBreaker, CallsTyped, Breaker, Closed, Never

(* No call, tick or reset, in whatever order their answers come, leaves    *)
(* the invariant.                                                          *)
LEMMA StepPreserves == IndInv /\ [Next]_vars => IndInv'
BY BreakerStep, CallsStep DEF IndInv, GoodBreaker

(* The breaker is good and its callers are typed for ever, also when       *)
(* answers come after the state they were asked in has passed.             *)
THEOREM Invariance == Spec => []IndInv
BY InitEstablishes, StepPreserves, PTL DEF Spec

(* The breaker, its callers and its history keep their types.              *)
THEOREM TypeCorrect == Spec => []TypeOK
<1>1. IndInv => TypeOK
  BY DEF IndInv, GoodBreaker, CallsTyped, TypeOK
<1> QED BY <1>1, Invariance, PTL

(* Late answers never leave a counter that does not fit the state, nor an  *)
(* open circuit that cannot tell for how long.                             *)
THEOREM CountersAlwaysFit == Spec => []CountersFitState
<1>1. IndInv => CountersFitState
  BY DEF IndInv, GoodBreaker, CountersFitState
<1> QED BY <1>1, Invariance, PTL

(* No late answer changes the state by itself: only a call after the       *)
(* timeout ends OPEN, only a failed statement opens the circuit, only a    *)
(* success closes a half-open one.                                         *)
THEOREM CausesAlwaysKnown == Spec => ChangesHaveCauses
<1>1. IndInv /\ [Next]_vars => [HasCause]_vars
  BY BreakerStep, Zenon DEF IndInv
<1>2. Spec => [][HasCause]_vars
  BY <1>1, Invariance, PTL DEF Spec
<1> QED BY <1>2, Zenon DEF ChangesHaveCauses, HasCause

================================================================================

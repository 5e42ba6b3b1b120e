---------------------------- MODULE MonitoringProofs ----------------------------
(***************************************************************************)
(* Proofs about what the monitoring is told: readiness (ServiceHealth),    *)
(* business metrics (BusinessMetrics), and the joint verdict               *)
(* (HealthReports).  The three services share no variable; each has its    *)
(* own invariant.                                                          *)
(***************************************************************************)
EXTENDS ServiceHealth, BusinessMetrics, HealthReports, FiniteSetTheorems, TLAPS

--------------------------------------------------------------------------------
(* ServiceHealth: two instances                                            *)

(* The invariant is the type invariant.  Every step keeps it.              *)
LEMMA HealthStep == HealthTypeOK /\ [HealthNext]_healthVars => HealthTypeOK'
<1> SUFFICES ASSUME HealthTypeOK, [HealthNext]_healthVars PROVE HealthTypeOK'
  OBVIOUS
<1> USE DEF HealthTypeOK, Instance
<1>1. CASE UNCHANGED healthVars
  BY <1>1 DEF healthVars
<1>2. CASE ProcessStarts
  BY <1>2 DEF ProcessStarts, Fresh
<1>3. CASE ServerListens
  BY <1>3 DEF ServerListens
<1>4. CASE SignalReady
  BY <1>4 DEF SignalReady, Bootstrap
<1>5. CASE UncaughtException
  BY <1>5 DEF UncaughtException, NotReadySignalled, ErrorHandler
<1>6. CASE \E critical \in BOOLEAN : UnhandledRejection(critical)
  <2>1. CASE UNCHANGED <<phase, exitTimer, health>>
    BY <2>1
  <2>2. CASE NotReadySignalled /\ UNCHANGED <<phase, exitTimer>>
    BY <2>2 DEF NotReadySignalled, ErrorHandler
  <2> QED  BY <1>6, <2>1, <2>2 DEF UnhandledRejection
<1>7. CASE AppCloses
  BY <1>7 DEF AppCloses
<1>8. CASE ProcessEnds
  BY <1>8 DEF ProcessEnds
<1> QED  BY <1>1, <1>2, <1>3, <1>4, <1>5, <1>6, <1>7, <1>8 DEF HealthNext

(* The phases of the process and both instances of HealthService keep      *)
(* their types.                                                            *)
THEOREM HealthTypeCorrect == HealthSpec => []HealthTypeOK
<1>1. HealthInit => HealthTypeOK
  <2>1. Fresh \in [Instance -> [isReady : BOOLEAN, isShuttingDown : BOOLEAN]]
    BY DEF Fresh, Instance
  <2> QED  BY <2>1 DEF HealthInit, HealthTypeOK
<1> QED  BY <1>1, HealthStep, PTL DEF HealthSpec

--------------------------------------------------------------------------------
(* BusinessMetrics: how old the numbers may be                             *)

CallRecord == [pc : {"none", "querying"}, since : Nat, pending : SUBSET Query, describes : Nat]
AnswerRecord == [source : {"none", "cache", "queries", "stale", "empty"}, age : Nat, behind : Nat]
Result == [describes : 0 .. MaxClock, since : 0 .. MaxClock]

MetricsTypes ==
  /\ clock \in 0 .. MaxClock
  /\ cache = {} \/ \E r \in Result : cache = {r}
  /\ call \in [Caller -> CallRecord]
  /\ answer \in [Caller -> AnswerRecord]
  /\ newest \in -1 .. MaxClock

(* A recomputation is not older than MaxDuration, and what it has gathered *)
(* describes no moment before it began.                                    *)
CallsAreRecent ==
  \A c \in Caller : call[c].pc = "querying" =>
    /\ call[c].since <= clock /\ clock <= call[c].since + MaxDuration
    /\ call[c].since <= call[c].describes

(* A cached result describes a moment at most MaxDuration before it was    *)
(* cached, and at most as far behind what was last shown: nothing younger  *)
(* than the end of its own recomputation was shown before it replaced it.  *)
CacheIsRecent ==
  \A r \in cache :
    /\ r.describes <= r.since /\ r.since <= clock
    /\ r.since <= r.describes + MaxDuration
    /\ newest <= r.describes + MaxDuration

(* Nothing was shown that is not cached in some version.                   *)
ShownIsCached == cache = {} => newest = -1

MetricsIndInv ==
  /\ MetricsTypes
  /\ newest <= clock
  /\ CallsAreRecent
  /\ CacheIsRecent
  /\ ShownIsCached
  /\ FreshWhileQueriesSucceed
  /\ NeverFarBehind

(* The bounds, as the provers need them.                                   *)
LEMMA Durations ==
  /\ CacheTtl \in Nat /\ CacheTtl > 0
  /\ MaxDuration \in Nat /\ MaxDuration > 0
  /\ MaxClock \in Nat /\ MaxClock > 0
  BY BusinessMetricsAssumption

(* An answer that is at most MaxDuration behind the newest and, if it      *)
(* counts as fresh, young enough, keeps the promises about answers.        *)
LEMMA AnswersStep ==
  ASSUME MetricsIndInv, NEW c \in Caller, NEW source \in {"cache", "queries", "stale"},
         NEW moment \in 0 .. MaxClock, Answers(c, source, moment),
         moment <= clock, newest <= moment + MaxDuration,
         source # "stale" => clock < moment + CacheTtl + MaxDuration
  PROVE  /\ answer' \in [Caller -> AnswerRecord]
         /\ newest' = IF newest > moment THEN newest ELSE moment
         /\ \A d \in Caller : /\ answer'[d].source \in {"cache", "queries"}
                                   => answer'[d].age < CacheTtl + MaxDuration
                              /\ answer'[d].behind <= MaxDuration
<1> DEFINE behind == IF newest > moment THEN newest - moment ELSE 0
           new == [source |-> source, age |-> clock - moment, behind |-> behind]
<1>1. clock \in 0 .. MaxClock /\ newest \in -1 .. MaxClock /\ answer \in [Caller -> AnswerRecord]
  BY DEF MetricsIndInv, MetricsTypes
<1>2. behind \in Nat /\ behind <= MaxDuration /\ clock - moment \in Nat
  BY <1>1, Durations
<1>3. source # "stale" => clock - moment < CacheTtl + MaxDuration
  BY <1>1, Durations
<1> HIDE DEF behind
<1>4. new \in AnswerRecord  BY <1>2 DEF AnswerRecord
<1>5. answer' = [answer EXCEPT ![c] = new]  BY DEF Answers, behind
<1>6. new.source = source /\ new.age = clock - moment /\ new.behind = behind
  OBVIOUS
<1> HIDE DEF new
<1>7. newest' = IF newest > moment THEN newest ELSE moment  BY DEF Answers
<1>8. ASSUME NEW d \in Caller
      PROVE  /\ answer'[d].source \in {"cache", "queries"} => answer'[d].age < CacheTtl + MaxDuration
             /\ answer'[d].behind <= MaxDuration
  <2>1. CASE d = c
    BY <2>1, <1>1, <1>2, <1>3, <1>5, <1>6
  <2>2. CASE d # c
    BY <2>2, <1>1, <1>5 DEF MetricsIndInv, FreshWhileQueriesSucceed, NeverFarBehind
  <2> QED  BY <2>1, <2>2
<1> QED  BY <1>1, <1>4, <1>5, <1>7, <1>8

(* A cached result that is shown leaves everything but answers as it was.  *)
LEMMA ShowCached ==
  ASSUME MetricsIndInv, NEW c \in Caller, NEW source \in {"cache", "stale"},
         NEW r \in cache, Answers(c, source, r.describes),
         source = "cache" => clock - r.since < CacheTtl
  PROVE  /\ answer' \in [Caller -> AnswerRecord]
         /\ newest' \in -1 .. clock
         /\ newest' <= r.describes + MaxDuration
         /\ \A d \in Caller : /\ answer'[d].source \in {"cache", "queries"}
                                   => answer'[d].age < CacheTtl + MaxDuration
                              /\ answer'[d].behind <= MaxDuration
<1>1. clock \in 0 .. MaxClock /\ newest \in -1 .. MaxClock /\ newest <= clock
  BY DEF MetricsIndInv, MetricsTypes
<1>2. r.describes \in 0 .. MaxClock /\ r.since \in 0 .. MaxClock
  BY DEF MetricsIndInv, MetricsTypes, Result
<1>3. /\ r.describes <= r.since /\ r.since <= clock
      /\ r.since <= r.describes + MaxDuration
      /\ newest <= r.describes + MaxDuration
  BY DEF MetricsIndInv, CacheIsRecent
<1>4. source # "stale" => clock < r.describes + CacheTtl + MaxDuration
  BY <1>1, <1>2, <1>3, Durations
<1>5. r.describes <= clock  BY <1>1, <1>2, <1>3
<1>6. /\ answer' \in [Caller -> AnswerRecord]
      /\ newest' = IF newest > r.describes THEN newest ELSE r.describes
      /\ \A d \in Caller : /\ answer'[d].source \in {"cache", "queries"}
                                   => answer'[d].age < CacheTtl + MaxDuration
                           /\ answer'[d].behind <= MaxDuration
  BY <1>2, <1>3, <1>4, <1>5, AnswersStep
<1>7. newest' \in -1 .. clock /\ newest' <= r.describes + MaxDuration
  BY <1>1, <1>2, <1>3, <1>5, <1>6, Durations
<1> QED  BY <1>6, <1>7

(* With answers of that kind the rest of the invariant is about the clock, *)
(* the cache and the calls.                                                *)
LEMMA MetricsInitIndInv == MetricsInit => MetricsIndInv
<1> SUFFICES ASSUME MetricsInit PROVE MetricsIndInv
  OBVIOUS
<1>1. NotCalled \in CallRecord /\ NotCalled.pc = "none"  BY DEF NotCalled, CallRecord
<1>2. [source |-> "none", age |-> 0, behind |-> 0] \in AnswerRecord  BY DEF AnswerRecord
<1>3. MetricsTypes
  BY <1>1, <1>2, Durations DEF MetricsInit, MetricsTypes
<1> QED  BY <1>1, <1>3, Durations DEF MetricsInit, MetricsIndInv, CallsAreRecent, CacheIsRecent,
           ShownIsCached, FreshWhileQueriesSucceed, NeverFarBehind

(* Time passes: no further than the queries under way allow.               *)
LEMMA ClockTicksStep ==
  ASSUME MetricsIndInv, ClockTicks
  PROVE  MetricsIndInv'
<1>1. /\ clock \in Nat /\ clock < MaxClock /\ clock' = clock + 1 /\ clock' \in 0 .. MaxClock
      /\ UNCHANGED <<cache, call, answer, newest>>
  BY Durations DEF MetricsIndInv, MetricsTypes, ClockTicks
<1>2. MetricsTypes'  BY <1>1 DEF MetricsIndInv, MetricsTypes
<1>3. newest' <= clock'  BY <1>1 DEF MetricsIndInv, MetricsTypes
<1>4. CallsAreRecent'
  <2> SUFFICES ASSUME NEW c \in Caller, call[c].pc = "querying"
               PROVE  /\ call[c].since <= clock' /\ clock' <= call[c].since + MaxDuration
                      /\ call[c].since <= call[c].describes
    BY <1>1 DEF CallsAreRecent
  <2>1. call[c].since \in Nat  BY DEF MetricsIndInv, MetricsTypes, CallRecord
  <2>2. clock < call[c].since + MaxDuration  BY DEF ClockTicks
  <2> QED  BY <1>1, <2>1, <2>2, Durations DEF MetricsIndInv, CallsAreRecent
<1>5. CacheIsRecent'
  <2> SUFFICES ASSUME NEW r \in cache
               PROVE  /\ r.describes <= r.since /\ r.since <= clock'
                      /\ r.since <= r.describes + MaxDuration
                      /\ newest <= r.describes + MaxDuration
    BY <1>1 DEF CacheIsRecent
  <2>1. r.since \in Nat  BY DEF MetricsIndInv, MetricsTypes, Result
  <2> QED  BY <1>1, <2>1 DEF MetricsIndInv, CacheIsRecent
<1>6. ShownIsCached' /\ FreshWhileQueriesSucceed' /\ NeverFarBehind'
  BY <1>1 DEF MetricsIndInv, ShownIsCached, FreshWhileQueriesSucceed, NeverFarBehind
<1> QED  BY <1>2, <1>3, <1>4, <1>5, <1>6 DEF MetricsIndInv

(* A hit: a valid result is shown.                                         *)
LEMMA CacheHitStep ==
  ASSUME MetricsIndInv, NEW c \in Caller, CacheHit(c)
  PROVE  MetricsIndInv'
<1>1. PICK r \in cache : clock - r.since < CacheTtl /\ Answers(c, "cache", r.describes)
  BY DEF CacheHit, Valid
<1>2. UNCHANGED <<clock, cache, call>>  BY DEF CacheHit
<1>3. /\ answer' \in [Caller -> AnswerRecord]
      /\ newest' \in -1 .. clock /\ newest' <= r.describes + MaxDuration
      /\ \A d \in Caller : /\ answer'[d].source \in {"cache", "queries"}
                                   => answer'[d].age < CacheTtl + MaxDuration
                           /\ answer'[d].behind <= MaxDuration
  BY <1>1, ShowCached
<1>4. cache = {r}  BY <1>1 DEF MetricsIndInv, MetricsTypes
<1>5. MetricsTypes' /\ newest' <= clock'
  <2>1. newest' \in -1 .. MaxClock /\ newest' <= clock
    BY <1>3, Durations DEF MetricsIndInv, MetricsTypes
  <2> QED  BY <1>2, <1>3, <2>1 DEF MetricsIndInv, MetricsTypes
<1>6. CallsAreRecent'  BY <1>2 DEF MetricsIndInv, CallsAreRecent
<1>7. CacheIsRecent' /\ ShownIsCached'
  BY <1>2, <1>3, <1>4 DEF MetricsIndInv, CacheIsRecent, ShownIsCached
<1>8. FreshWhileQueriesSucceed' /\ NeverFarBehind'
  BY <1>3 DEF FreshWhileQueriesSucceed, NeverFarBehind
<1> QED  BY <1>5, <1>6, <1>7, <1>8 DEF MetricsIndInv

(* A failure: the old result is shown, or zeroes if nothing ever was.      *)
LEMMA RecomputeFailsStep ==
  ASSUME MetricsIndInv, NEW c \in Caller, RecomputeFails(c)
  PROVE  MetricsIndInv'
<1>1. NotCalled \in CallRecord /\ NotCalled.pc = "none"  BY DEF NotCalled, CallRecord
<1>2. UNCHANGED <<clock, cache>> /\ call' = [call EXCEPT ![c] = NotCalled] /\ Fallback(c)
  BY DEF RecomputeFails
<1>3. /\ answer' \in [Caller -> AnswerRecord]
      /\ newest' \in -1 .. clock
      /\ \A r \in cache : newest' <= r.describes + MaxDuration
      /\ cache = {} => newest' = -1
      /\ \A d \in Caller : /\ answer'[d].source \in {"cache", "queries"}
                                   => answer'[d].age < CacheTtl + MaxDuration
                           /\ answer'[d].behind <= MaxDuration
  <2>1. CASE cache = {}
    <3>1. newest = -1 /\ newest' = newest
      BY <1>2, <2>1 DEF MetricsIndInv, ShownIsCached, Fallback, AnswersZeroes
    <3>2. answer' = [answer EXCEPT ![c] = [source |-> "empty", age |-> 0, behind |-> 0]]
      BY <1>2, <2>1, <3>1 DEF Fallback, AnswersZeroes
    <3>3. [source |-> "empty", age |-> 0, behind |-> 0] \in AnswerRecord  BY DEF AnswerRecord
    <3> QED
      BY <2>1, <3>1, <3>2, <3>3, Durations
      DEF MetricsIndInv, MetricsTypes, FreshWhileQueriesSucceed, NeverFarBehind
  <2>2. CASE cache # {}
    <3>1. PICK r \in cache : Answers(c, "stale", r.describes)
      BY <1>2, <2>2 DEF Fallback
    <3>2. cache = {r}  BY <3>1 DEF MetricsIndInv, MetricsTypes
    <3> QED  BY <3>1, <3>2, ShowCached
  <2> QED  BY <2>1, <2>2
<1>4. MetricsTypes' /\ newest' <= clock'
  <2>1. newest' \in -1 .. MaxClock /\ newest' <= clock
    BY <1>3, Durations DEF MetricsIndInv, MetricsTypes
  <2> QED  BY <1>1, <1>2, <1>3, <2>1 DEF MetricsIndInv, MetricsTypes
<1>5. CallsAreRecent'
  BY <1>1, <1>2 DEF MetricsIndInv, MetricsTypes, CallsAreRecent
<1>6. CacheIsRecent' /\ ShownIsCached'
  BY <1>2, <1>3 DEF MetricsIndInv, CacheIsRecent, ShownIsCached
<1>7. FreshWhileQueriesSucceed' /\ NeverFarBehind'
  BY <1>3 DEF FreshWhileQueriesSucceed, NeverFarBehind
<1> QED  BY <1>4, <1>5, <1>6, <1>7 DEF MetricsIndInv

(* A recomputation starts, or gets one more answer: it stays recent.       *)
LEMMA CallMovesStep ==
  ASSUME MetricsIndInv, NEW c \in Caller,
         Recompute(c) \/ \E q \in Query : QueryAnswered(c, q)
  PROVE  MetricsIndInv'
<1>1. clock \in Nat /\ call \in [Caller -> CallRecord] /\ call[c] \in CallRecord
  BY DEF MetricsIndInv, MetricsTypes
<1>2. UNCHANGED <<clock, cache, answer, newest>>  BY DEF Recompute, QueryAnswered
<1>3. PICK new \in CallRecord :
        /\ call' = [call EXCEPT ![c] = new]
        /\ new.since <= clock /\ clock <= new.since + MaxDuration
        /\ new.since <= new.describes
  <2>1. CASE Recompute(c)
    <3> DEFINE new == [pc |-> "querying", since |-> clock, pending |-> Query,
                       describes |-> clock + MaxDuration]
    <3>1. new \in CallRecord /\ new.since = clock /\ new.describes = clock + MaxDuration
      BY <1>1, Durations DEF CallRecord
    <3>2. call' = [call EXCEPT ![c] = new]  BY <2>1 DEF Recompute
    <3> HIDE DEF new
    <3>3. new.since <= clock /\ clock <= new.since + MaxDuration /\ new.since <= new.describes
      BY <1>1, <3>1, Durations
    <3> QED  BY <3>1, <3>2, <3>3
  <2>2. CASE \E q \in Query : QueryAnswered(c, q)
    <3>1. PICK q \in Query : QueryAnswered(c, q)  BY <2>2
    <3>2. PICK moment \in call[c].since .. clock :
            call' = [call EXCEPT ![c] =
              [pc |-> "querying", since |-> call[c].since, pending |-> call[c].pending \ {q},
               describes |-> Earlier(call[c].describes, moment)]]
      BY <3>1 DEF QueryAnswered
    <3> DEFINE new == [pc |-> "querying", since |-> call[c].since,
                       pending |-> call[c].pending \ {q},
                       describes |-> Earlier(call[c].describes, moment)]
    <3>3. /\ call[c].since \in Nat /\ call[c].describes \in Nat /\ call[c].pending \in SUBSET Query
          /\ call[c].pc \in {"none", "querying"}
      BY <1>1 DEF CallRecord
    <3>4. Earlier(call[c].describes, moment) \in Nat
      BY <1>1, <3>2, <3>3 DEF Earlier
    <3>5. new \in CallRecord /\ new.since = call[c].since
          /\ new.describes = Earlier(call[c].describes, moment)
      BY <1>1, <3>3, <3>4 DEF CallRecord
    <3>6. call[c].pc = "querying"  BY <3>1 DEF QueryAnswered
    <3>7. /\ call[c].since <= clock /\ clock <= call[c].since + MaxDuration
          /\ call[c].since <= call[c].describes
      BY <3>6 DEF MetricsIndInv, CallsAreRecent
    <3>8. call[c].since <= Earlier(call[c].describes, moment)
      BY <1>1, <3>2, <3>3, <3>7 DEF Earlier
    <3>9. call' = [call EXCEPT ![c] = new]  BY <3>2
    <3> HIDE DEF new
    <3> QED  BY <3>5, <3>7, <3>8, <3>9
  <2> QED  BY <2>1, <2>2
<1>4. MetricsTypes' /\ newest' <= clock'
  BY <1>1, <1>2, <1>3 DEF MetricsIndInv, MetricsTypes
<1>5. CallsAreRecent'
  BY <1>1, <1>2, <1>3 DEF MetricsIndInv, CallsAreRecent
<1>6. /\ CacheIsRecent' /\ ShownIsCached'
      /\ FreshWhileQueriesSucceed' /\ NeverFarBehind'
  BY <1>2 DEF MetricsIndInv, CacheIsRecent, ShownIsCached, FreshWhileQueriesSucceed, NeverFarBehind
<1> QED  BY <1>4, <1>5, <1>6 DEF MetricsIndInv

(* A recomputation ends and replaces the cache, with whatever it found:    *)
(* nothing shown so far is more than MaxDuration younger.                  *)
LEMMA RecomputedStep ==
  ASSUME MetricsIndInv, NEW c \in Caller, NEW q \in Query, Recomputed(c, q)
  PROVE  MetricsIndInv'
<1>1. /\ clock \in 0 .. MaxClock /\ newest \in -1 .. MaxClock /\ newest <= clock
      /\ call \in [Caller -> CallRecord]
      /\ call[c].since \in Nat /\ call[c].describes \in Nat /\ call[c].pc = "querying"
  BY DEF MetricsIndInv, MetricsTypes, CallRecord, Recomputed
<1>2. /\ call[c].since <= clock /\ clock <= call[c].since + MaxDuration
      /\ call[c].since <= call[c].describes
  BY <1>1 DEF MetricsIndInv, CallsAreRecent
<1>3. PICK moment \in call[c].since .. clock :
        /\ cache' = {[describes |-> Earlier(call[c].describes, moment), since |-> clock]}
        /\ Answers(c, "queries", Earlier(call[c].describes, moment))
  BY DEF Recomputed
<1> DEFINE m == Earlier(call[c].describes, moment)
           new == [describes |-> m, since |-> clock]
<1>4. m \in 0 .. MaxClock /\ call[c].since <= m /\ m <= clock
  <2>1. moment \in Nat /\ call[c].since <= moment /\ moment <= clock
        /\ clock \in Nat /\ clock <= MaxClock
    BY <1>1, <1>3
  <2>2. m \in Nat /\ call[c].since <= m /\ m <= moment
    BY <1>1, <1>2, <2>1 DEF Earlier
  <2> HIDE DEF m
  <2> QED  BY <1>1, <2>1, <2>2, Durations
<1> HIDE DEF m
<1>5. clock <= m + MaxDuration /\ newest <= m + MaxDuration /\ clock < m + CacheTtl + MaxDuration
  BY <1>1, <1>2, <1>4, Durations
<1>6. Answers(c, "queries", m)  BY <1>3 DEF m
<1>7. /\ answer' \in [Caller -> AnswerRecord]
      /\ newest' = IF newest > m THEN newest ELSE m
      /\ \A d \in Caller : /\ answer'[d].source \in {"cache", "queries"}
                                   => answer'[d].age < CacheTtl + MaxDuration
                           /\ answer'[d].behind <= MaxDuration
  BY <1>4, <1>5, <1>6, AnswersStep
<1>8. newest' \in -1 .. MaxClock /\ newest' <= clock /\ newest' <= m + MaxDuration
  BY <1>1, <1>4, <1>5, <1>7, Durations
<1>9. cache' = {new}  BY <1>3 DEF m
<1>10. new \in Result /\ new.describes = m /\ new.since = clock
  BY <1>1, <1>4 DEF Result
<1> HIDE DEF new
<1>11. NotCalled \in CallRecord /\ NotCalled.pc = "none"  BY DEF NotCalled, CallRecord
<1>12. call' = [call EXCEPT ![c] = NotCalled] /\ UNCHANGED clock  BY DEF Recomputed
<1>13. MetricsTypes' /\ newest' <= clock'
  BY <1>1, <1>7, <1>8, <1>9, <1>10, <1>11, <1>12 DEF MetricsTypes
<1>14. CallsAreRecent'
  BY <1>1, <1>11, <1>12 DEF MetricsIndInv, CallsAreRecent
<1>15. CacheIsRecent' /\ ShownIsCached'
  <2>1. /\ new.describes <= new.since /\ new.since <= clock'
        /\ new.since <= new.describes + MaxDuration
        /\ newest' <= new.describes + MaxDuration
    BY <1>1, <1>4, <1>5, <1>8, <1>10, <1>12
  <2> QED  BY <1>9, <2>1 DEF CacheIsRecent, ShownIsCached
<1>16. FreshWhileQueriesSucceed' /\ NeverFarBehind'
  BY <1>7 DEF FreshWhileQueriesSucceed, NeverFarBehind
<1> QED  BY <1>13, <1>14, <1>15, <1>16 DEF MetricsIndInv

(* Every step keeps the invariant; invalidateCache() starts it anew.       *)
LEMMA MetricsStep == MetricsIndInv /\ [MetricsNext]_metricsVars => MetricsIndInv'
<1> SUFFICES ASSUME MetricsIndInv, [MetricsNext]_metricsVars PROVE MetricsIndInv'
  OBVIOUS
<1>1. CASE UNCHANGED metricsVars
  BY <1>1 DEF metricsVars, MetricsIndInv, MetricsTypes, CallsAreRecent, CacheIsRecent,
              ShownIsCached, FreshWhileQueriesSucceed, NeverFarBehind
<1>2. CASE ClockTicks
  BY <1>2, ClockTicksStep
<1>3. CASE InvalidateCache
  <2>1. cache' = {} /\ newest' = -1 /\ UNCHANGED <<clock, call, answer>>
    BY <1>3 DEF InvalidateCache
  <2>2. MetricsTypes' /\ newest' <= clock'
    BY <2>1, Durations DEF MetricsIndInv, MetricsTypes
  <2>3. CallsAreRecent' /\ FreshWhileQueriesSucceed' /\ NeverFarBehind'
    BY <2>1 DEF MetricsIndInv, CallsAreRecent, FreshWhileQueriesSucceed, NeverFarBehind
  <2> QED  BY <2>1, <2>2, <2>3 DEF MetricsIndInv, CacheIsRecent, ShownIsCached
<1>4. ASSUME NEW c \in Caller, CacheHit(c) \/ RecomputeFails(c)
      PROVE  MetricsIndInv'
  BY <1>4, CacheHitStep, RecomputeFailsStep
<1>5. ASSUME NEW c \in Caller, Recompute(c) \/ \E q \in Query : QueryAnswered(c, q)
      PROVE  MetricsIndInv'
  BY <1>5, CallMovesStep
<1>6. ASSUME NEW c \in Caller, NEW q \in Query, Recomputed(c, q)
      PROVE  MetricsIndInv'
  BY <1>6, RecomputedStep
<1> QED  BY <1>1, <1>2, <1>3, <1>4, <1>5, <1>6 DEF MetricsNext

(* The invariant holds, however recomputations overlap and fail.           *)
LEMMA MetricsInvariance == MetricsSpec => []MetricsIndInv
<1> QED  BY MetricsInitIndInv, MetricsStep, PTL DEF MetricsSpec

(* The cache, the recomputations and the answers keep their types.         *)
THEOREM MetricsTypeCorrect == MetricsSpec => []MetricsTypeOK
<1>1. MetricsIndInv => MetricsTypeOK
  <2> SUFFICES ASSUME MetricsIndInv PROVE MetricsTypeOK
    OBVIOUS
  <2>1. cache \subseteq Result /\ Cardinality(cache) <= 1
    <3>1. CASE cache = {}  BY <3>1, FS_EmptySet
    <3>2. ASSUME NEW r \in Result, cache = {r}
          PROVE  cache \subseteq Result /\ Cardinality(cache) <= 1
      <4>1. Cardinality({r}) = 1  BY FS_Singleton
      <4>2. Cardinality(cache) = 1  BY <3>2, <4>1
      <4> QED  BY <3>2, <4>2
    <3> QED  BY <3>1, <3>2 DEF MetricsIndInv, MetricsTypes
  <2> QED
    BY <2>1 DEF MetricsIndInv, MetricsTypes, MetricsTypeOK, Result, CallRecord, AnswerRecord
<1> QED  BY <1>1, MetricsInvariance, PTL

(* "Cached for 1 minute" means: as long as the queries succeed, no number  *)
(* is older than the time to live plus one recomputation.                  *)
THEOREM NumbersStayFresh == MetricsSpec => []FreshWhileQueriesSucceed
<1> QED  BY MetricsInvariance, PTL DEF MetricsIndInv

(* Overlapping recomputations, late ones that replace younger results, and *)
(* failures that fall back on the cache never set a gauge back by more     *)
(* than one recomputation, and never to zeroes.                            *)
THEOREM NumbersNeverFarBehind == MetricsSpec => []NeverFarBehind
<1> QED  BY MetricsInvariance, PTL DEF MetricsIndInv

--------------------------------------------------------------------------------
(* HealthReports: the verdict                                              *)

Status == {"healthy", "warning", "unhealthy", "critical"}

RequestRecord ==
  {NoRequest}
    \cup [pc : {"asking", "waiting"}, statuses : SUBSET Status, steady : SUBSET Component, worst : 0 .. 2]
    \cup [pc : {"answered"}, verdict : Status, atLeast : 0 .. 2, atMost : 0 .. 2]

ReportsTypes ==
  /\ load \in Load
  /\ circuit \in {"CLOSED", "OPEN", "HALF_OPEN"}
  /\ database \in {"healthy", "warning", "unhealthy"}
  /\ changes \in 0 .. MaxChanges
  /\ request \in RequestRecord

(* While a request is under way the statuses gathered are no worse than    *)
(* the worst there was, which covers what there is now, and no better than *)
(* any component already read that has been steady since.                  *)
GatheredInBetween ==
  request.pc \in {"asking", "waiting"} =>
    /\ Rank(OverallHealth(request.statuses)) <= request.worst
    /\ Worst <= request.worst
    /\ \A c \in request.steady : c # "database" \/ request.pc = "waiting"
         => Severity(c) <= Rank(OverallHealth(request.statuses))

ReportsIndInv == ReportsTypes /\ GatheredInBetween /\ VerdictInBetween

(* The statuses and their ranks.                                           *)
LEMMA Ranks ==
  /\ \A s : Rank(s) \in 0 .. 2
  /\ Rank("critical") = 2 /\ Rank("warning") = 1 /\ Rank("unhealthy") = 1 /\ Rank("healthy") = 0
  /\ \A S : OverallHealth(S) \in {"critical", "warning", "healthy"}
  BY DEF Rank, OverallHealth

(* The joint verdict is as bad as the worst of the statuses, and no worse. *)
LEMMA OverallIsWorst ==
  ASSUME NEW S \in SUBSET Status
  PROVE  /\ \A s \in S : Rank(s) <= Rank(OverallHealth(S))
         /\ \/ \E s \in S : Rank(s) = Rank(OverallHealth(S))
            \/ Rank(OverallHealth(S)) = 0
<1>1. CASE "critical" \in S
  <2>1. OverallHealth(S) = "critical"  BY <1>1 DEF OverallHealth
  <2> QED  BY <1>1, <2>1, Ranks
<1>2. CASE "critical" \notin S /\ ("warning" \in S \/ "unhealthy" \in S)
  <2>1. OverallHealth(S) = "warning"  BY <1>2 DEF OverallHealth, Status
  <2>2. \A s \in S : Rank(s) <= 1  BY <1>2, Ranks DEF Status
  <2> QED  BY <1>2, <2>1, <2>2, Ranks
<1>3. CASE "critical" \notin S /\ "warning" \notin S /\ "unhealthy" \notin S
  <2>1. OverallHealth(S) = "healthy"  BY <1>3 DEF OverallHealth, Status
  <2>2. \A s \in S : Rank(s) = 0  BY <1>3, Ranks DEF Status
  <2> QED  BY <2>1, <2>2, Ranks
<1> QED  BY <1>1, <1>2, <1>3

(* How bad each component is, and which status says so.                    *)
LEMMA Severities ==
  /\ BufferStatus(load) \in {"critical", "warning", "healthy"}
  /\ Severity("buffer") = Rank(BufferStatus(load))
  /\ Severity("circuit") = IF circuit = "OPEN" THEN 2 ELSE 0
  /\ Severity("database") = Rank(database)
  /\ \A c \in Component : Severity(c) \in 0 .. 2
<1>1. BufferStatus(load) \in {"critical", "warning", "healthy"}
  BY DEF BufferStatus
<1>2. /\ Severity("buffer") = Rank(BufferStatus(load))
      /\ Severity("circuit") = IF circuit = "OPEN" THEN 2 ELSE 0
      /\ Severity("database") = Rank(database)
  BY DEF Severity
<1> QED  BY <1>1, <1>2, Ranks DEF Component

(* Among three ranks there is a greatest, and CHOOSE finds it.             *)
LEMMA GreatestOfThree ==
  ASSUME NEW S \in SUBSET (0 .. 2), S # {}
  PROVE  \E m \in S : \A s \in S : s <= m
<1>1. CASE 2 \in S
  BY <1>1
<1>2. CASE 2 \notin S /\ 1 \in S
  BY <1>2
<1>3. CASE 2 \notin S /\ 1 \notin S
  <2>1. \A s \in S : s = 0  BY <1>3
  <2>2. 0 \in S  BY <2>1
  <2> QED  BY <2>1, <2>2
<1> QED  BY <1>1, <1>2, <1>3

(* Worst is the greatest severity there is.                                *)
GreatestIsWorst ==
  /\ Worst \in 0 .. 2
  /\ \A c \in Component : Severity(c) <= Worst
  /\ \E c \in Component : Severity(c) = Worst

(* Finitely many severities have a greatest one, which is the one chosen.  *)
LEMMA WorstIsGreatest == GreatestIsWorst
<1> DEFINE S == {Severity(c) : c \in Component}
<1>1. S \in SUBSET (0 .. 2) /\ S # {}  BY Severities DEF Component
<1>2. \E m \in S : \A s \in S : s <= m
  <2> HIDE DEF S
  <2> QED  BY <1>1, GreatestOfThree
<1>3. \E m \in S : \A c \in Component : Severity(c) <= m
  BY <1>2
<1>4. Worst \in S /\ \A c \in Component : Severity(c) <= Worst
  BY <1>3 DEF Worst
<1> QED  BY <1>1, <1>4 DEF GreatestIsWorst

(* A component changes: it is no longer steady, and the others are as bad  *)
(* as they were; the worst moment is remembered.                           *)
LEMMA ComponentChangesStep ==
  ASSUME ReportsIndInv, BufferChanges \/ CircuitChanges \/ DatabaseChanges
  PROVE  ReportsIndInv'
<1>1. PICK component \in Component :
        /\ Changes(component)
        /\ \A c \in Component \ {component} : Severity(c)' = Severity(c)
  <2>1. CASE BufferChanges
    BY <2>1 DEF BufferChanges, Severity, Component
  <2>2. CASE CircuitChanges
    BY <2>2 DEF CircuitChanges, Severity, Component
  <2>3. CASE DatabaseChanges
    BY <2>3 DEF DatabaseChanges, Severity, Component
  <2> QED  BY <2>1, <2>2, <2>3
<1>2. /\ load' \in Load /\ circuit' \in {"CLOSED", "OPEN", "HALF_OPEN"}
      /\ database' \in {"healthy", "warning", "unhealthy"}
  BY DEF ReportsIndInv, ReportsTypes, BufferChanges, CircuitChanges, DatabaseChanges
<1>3. /\ changes \in Nat /\ changes' = changes + 1 /\ changes' \in 0 .. MaxChanges
  BY <1>1, ReportsAssumption DEF Changes, ReportsIndInv, ReportsTypes
<1>4. Worst' \in 0 .. 2 /\ \A c \in Component : Severity(c)' <= Worst'
  <2>1. GreatestIsWorst'  BY WorstIsGreatest, PTL
  <2> QED  BY <2>1 DEF GreatestIsWorst
<1>5. CASE request.pc \in {"none", "answered"}
  <2>1. request' = request  BY <1>1, <1>5 DEF Changes
  <2>2. ReportsTypes'
    BY <1>2, <1>3, <2>1 DEF ReportsIndInv, ReportsTypes
  <2>3. GatheredInBetween'  BY <1>5, <2>1 DEF GatheredInBetween
  <2>4. VerdictInBetween'  BY <2>1 DEF ReportsIndInv, VerdictInBetween
  <2> QED  BY <2>2, <2>3, <2>4 DEF ReportsIndInv
<1>6. CASE request.pc \notin {"none", "answered"}
  <2>1. request \in [pc : {"asking", "waiting"}, statuses : SUBSET Status,
                     steady : SUBSET Component, worst : 0 .. 2]
    BY <1>6 DEF ReportsIndInv, ReportsTypes, RequestRecord, NoRequest
  <2> DEFINE worst == IF Worst' > request.worst THEN Worst' ELSE request.worst
             new == [pc |-> request.pc, statuses |-> request.statuses,
                     steady |-> request.steady \ {component}, worst |-> worst]
  <2>2. worst \in 0 .. 2 /\ Worst' <= worst /\ request.worst <= worst
    BY <1>4, <2>1
  <2>3. request' = new  BY <1>1, <1>6 DEF Changes
  <2> HIDE DEF worst
  <2>4. /\ new \in RequestRecord /\ new.pc = request.pc /\ new.statuses = request.statuses
        /\ new.steady = request.steady \ {component} /\ new.worst = worst
    BY <2>1, <2>2 DEF RequestRecord
  <2> HIDE DEF new
  <2>5. ReportsTypes'
    BY <1>2, <1>3, <2>3, <2>4 DEF ReportsTypes
  <2>6. Rank(OverallHealth(request.statuses)) \in 0 .. 2  BY Ranks
  <2>7. request.pc \in {"asking", "waiting"}  BY <2>1
  <2>8. /\ Rank(OverallHealth(request.statuses)) <= request.worst
        /\ \A c \in request.steady : c # "database" \/ request.pc = "waiting"
              => Severity(c) <= Rank(OverallHealth(request.statuses))
    BY <2>7 DEF ReportsIndInv, GatheredInBetween
  <2>9. Rank(OverallHealth(request.statuses)) <= worst
    BY <2>1, <2>2, <2>6, <2>8
  <2>10. \A c \in request.steady \ {component} : c # "database" \/ request.pc = "waiting"
              => Severity(c)' <= Rank(OverallHealth(request.statuses))
    BY <1>1, <2>1, <2>8
  <2>11. GatheredInBetween'
    BY <2>2, <2>3, <2>4, <2>9, <2>10 DEF GatheredInBetween
  <2>12. VerdictInBetween'
    BY <2>3, <2>4, <2>7 DEF VerdictInBetween
  <2> QED  BY <2>5, <2>11, <2>12 DEF ReportsIndInv
<1> QED  BY <1>5, <1>6

(* A request starts: the buffer and the circuit are read at once.          *)
LEMMA DetailedStartsStep ==
  ASSUME ReportsIndInv, DetailedStarts
  PROVE  ReportsIndInv'
<1> DEFINE S == {BufferStatus(load)} \cup CircuitStatus(circuit)
           new == [pc |-> "asking", statuses |-> S, steady |-> Component, worst |-> Worst]
<1>1. S \in SUBSET Status
  BY Severities DEF Status, CircuitStatus
<1>2. Worst \in 0 .. 2 /\ \A c \in Component : Severity(c) <= Worst
  BY WorstIsGreatest DEF GreatestIsWorst
<1>3. \A s \in S : Rank(s) <= Worst
  BY <1>2, Severities, Ranks DEF CircuitStatus, Component
<1>4. /\ Severity("buffer") <= Rank(OverallHealth(S))
      /\ Severity("circuit") <= Rank(OverallHealth(S))
  <2>1. \A s \in S : Rank(s) <= Rank(OverallHealth(S))  BY <1>1, OverallIsWorst
  <2>2. Rank(OverallHealth(S)) \in 0 .. 2  BY Ranks
  <2>3. BufferStatus(load) \in S /\ (circuit = "OPEN" => "critical" \in S)
    BY DEF CircuitStatus
  <2> HIDE DEF S
  <2> QED  BY <2>1, <2>2, <2>3, Severities, Ranks
<1> HIDE DEF S
<1>5. Rank(OverallHealth(S)) <= Worst
  BY <1>1, <1>2, <1>3, OverallIsWorst
<1>6. /\ new \in RequestRecord /\ new.pc = "asking" /\ new.statuses = S
      /\ new.steady = Component /\ new.worst = Worst
  BY <1>1, <1>2 DEF RequestRecord
<1>7. request' = new /\ UNCHANGED <<load, circuit, database, changes>>
  BY DEF DetailedStarts, S
<1> HIDE DEF new
<1>8. ReportsTypes'  BY <1>6, <1>7 DEF ReportsIndInv, ReportsTypes
<1>9. Worst' = Worst /\ \A c \in Component : Severity(c)' = Severity(c)
  BY <1>7 DEF Worst, Severity
<1>10. GatheredInBetween'
  BY <1>2, <1>4, <1>5, <1>6, <1>7, <1>9 DEF GatheredInBetween, Component
<1>11. VerdictInBetween'  BY <1>6, <1>7 DEF VerdictInBetween
<1> QED  BY <1>8, <1>10, <1>11 DEF ReportsIndInv

(* The database is read later, with what is known by then.                 *)
LEMMA DatabaseAnswersStep ==
  ASSUME ReportsIndInv, DatabaseAnswers
  PROVE  ReportsIndInv'
<1>1. request \in [pc : {"asking", "waiting"}, statuses : SUBSET Status,
                   steady : SUBSET Component, worst : 0 .. 2]
  BY DEF ReportsIndInv, ReportsTypes, RequestRecord, NoRequest, DatabaseAnswers
<1> DEFINE old == request.statuses
           S == old \cup {database}
           new == [request EXCEPT !.pc = "waiting", !.statuses = S]
<1>2. request' = new
  BY DEF DatabaseAnswers
<1>3. UNCHANGED <<load, circuit, database, changes>>
  BY DEF DatabaseAnswers
<1>4. old \in SUBSET Status /\ S \in SUBSET Status
  BY <1>1 DEF ReportsIndInv, ReportsTypes, Status
<1>5. /\ new \in RequestRecord /\ new.pc = "waiting" /\ new.statuses = S
      /\ new.steady = request.steady /\ new.worst = request.worst
  BY <1>1, <1>4 DEF RequestRecord
<1> HIDE DEF new
<1>6. /\ Rank(OverallHealth(old)) <= request.worst
      /\ Worst <= request.worst
      /\ \A c \in request.steady : c # "database" => Severity(c) <= Rank(OverallHealth(old))
  BY DEF ReportsIndInv, GatheredInBetween, DatabaseAnswers
<1>7. Worst \in 0 .. 2 /\ \A c \in Component : Severity(c) <= Worst
  BY WorstIsGreatest DEF GreatestIsWorst
<1>8. Severity("database") = Rank(database) /\ \A c \in Component : Severity(c) \in 0 .. 2
  BY Severities
<1>9. /\ \A s \in S : Rank(s) <= Rank(OverallHealth(S))
      /\ \/ \E s \in S : Rank(s) = Rank(OverallHealth(S))
         \/ Rank(OverallHealth(S)) = 0
  BY <1>4, OverallIsWorst
<1>10. /\ \A s \in old : Rank(s) <= Rank(OverallHealth(old))
       /\ \/ \E s \in old : Rank(s) = Rank(OverallHealth(old))
          \/ Rank(OverallHealth(old)) = 0
  BY <1>4, OverallIsWorst
<1>11. /\ Rank(OverallHealth(S)) \in 0 .. 2 /\ Rank(OverallHealth(old)) \in 0 .. 2
       /\ \A s : Rank(s) \in 0 .. 2
  BY Ranks
<1>12. database \in S /\ old \subseteq S  OBVIOUS
<1>13. Rank(OverallHealth(old)) <= Rank(OverallHealth(S))
  BY <1>9, <1>10, <1>11, <1>12
<1>14. Rank(database) <= request.worst
  BY <1>1, <1>6, <1>7, <1>8 DEF Component
<1>15. \A s \in S : Rank(s) <= request.worst
  <2> SUFFICES ASSUME NEW s \in S PROVE Rank(s) <= request.worst
    OBVIOUS
  <2>1. CASE s \in old
    BY <2>1, <1>1, <1>6, <1>10, <1>11
  <2>2. CASE s = database
    BY <2>2, <1>14
  <2> QED  BY <2>1, <2>2
<1> HIDE DEF S, old
<1>16. Rank(OverallHealth(S)) <= request.worst
  BY <1>1, <1>9, <1>11, <1>15
<1>17. \A c \in request.steady : Severity(c) <= Rank(OverallHealth(S))
  <2> SUFFICES ASSUME NEW c \in request.steady PROVE Severity(c) <= Rank(OverallHealth(S))
    OBVIOUS
  <2>1. CASE c = "database"
    BY <2>1, <1>8, <1>9, <1>12
  <2>2. CASE c # "database"
    <3>1. c \in Component /\ Severity(c) \in 0 .. 2  BY <1>1, <1>8
    <3> QED  BY <2>2, <3>1, <1>6, <1>11, <1>13
  <2> QED  BY <2>1, <2>2
<1>18. ReportsTypes'  BY <1>2, <1>3, <1>5 DEF ReportsIndInv, ReportsTypes
<1>19. Worst' = Worst /\ \A c \in Component : Severity(c)' = Severity(c)
  BY <1>3 DEF Worst, Severity
<1>20. GatheredInBetween'
  BY <1>1, <1>2, <1>3, <1>5, <1>6, <1>16, <1>17, <1>19 DEF GatheredInBetween
<1>21. VerdictInBetween'  BY <1>2, <1>3, <1>5 DEF VerdictInBetween
<1> QED  BY <1>18, <1>20, <1>21 DEF ReportsIndInv

(* The verdict: between the worst component that was steady and the worst  *)
(* moment there was.                                                       *)
LEMMA DetailedAnsweredStep ==
  ASSUME ReportsIndInv, DetailedAnswered
  PROVE  ReportsIndInv'
<1>1. request \in [pc : {"asking", "waiting"}, statuses : SUBSET Status,
                   steady : SUBSET Component, worst : 0 .. 2] /\ request.pc = "waiting"
  BY DEF ReportsIndInv, ReportsTypes, RequestRecord, NoRequest, DetailedAnswered
<1> DEFINE verdict == OverallHealth(request.statuses)
           S == {Severity(c) : c \in request.steady} \cup {0}
           atLeast == CHOOSE s \in S : \A t \in S : t <= s
           new == [pc |-> "answered", verdict |-> verdict, atLeast |-> atLeast,
                   atMost |-> request.worst]
<1>2. request' = new /\ UNCHANGED <<load, circuit, database, changes>>
  BY DEF DetailedAnswered
<1>3. S \in SUBSET (0 .. 2) /\ S # {}
  BY <1>1, Severities
<1>4. Rank(verdict) \in 0 .. 2 /\ verdict \in Status
  BY Ranks DEF Status
<1>5. /\ Rank(verdict) <= request.worst
      /\ \A c \in request.steady : Severity(c) <= Rank(verdict)
  BY <1>1 DEF ReportsIndInv, GatheredInBetween
<1>6. \A s \in S : s <= Rank(verdict)
  BY <1>4, <1>5
<1> HIDE DEF S, verdict
<1>7. atLeast \in S
  BY <1>3, GreatestOfThree
<1> HIDE DEF atLeast
<1>8. atLeast \in 0 .. 2 /\ Rank(verdict) \in atLeast .. request.worst
  BY <1>1, <1>3, <1>4, <1>5, <1>6, <1>7
<1>9. /\ new \in RequestRecord /\ new.pc = "answered" /\ new.verdict = verdict
      /\ new.atLeast = atLeast /\ new.atMost = request.worst
  BY <1>1, <1>4, <1>8 DEF RequestRecord
<1> HIDE DEF new
<1>10. ReportsTypes'  BY <1>2, <1>9 DEF ReportsIndInv, ReportsTypes
<1>11. GatheredInBetween'  BY <1>2, <1>9 DEF GatheredInBetween
<1>12. VerdictInBetween'  BY <1>2, <1>8, <1>9 DEF VerdictInBetween
<1> QED  BY <1>10, <1>11, <1>12 DEF ReportsIndInv

(* Every step keeps the invariant.                                         *)
LEMMA ReportsStep == ReportsIndInv /\ [ReportsNext]_reportVars => ReportsIndInv'
<1> SUFFICES ASSUME ReportsIndInv, [ReportsNext]_reportVars PROVE ReportsIndInv'
  OBVIOUS
<1>1. CASE UNCHANGED reportVars
  <2>1. Worst' = Worst /\ \A c : Severity(c)' = Severity(c)
    BY <1>1 DEF Worst, Severity, reportVars
  <2> QED  BY <1>1, <2>1 DEF reportVars, ReportsIndInv, ReportsTypes, GatheredInBetween,
              VerdictInBetween
<1>2. CASE BufferChanges \/ CircuitChanges \/ DatabaseChanges
  BY <1>2, ComponentChangesStep
<1>3. CASE DetailedStarts \/ DatabaseAnswers \/ DetailedAnswered
  BY <1>3, DetailedStartsStep, DatabaseAnswersStep, DetailedAnsweredStep
<1> QED  BY <1>1, <1>2, <1>3 DEF ReportsNext

(* The invariant holds, whenever components change.                        *)
LEMMA ReportsInvariance == ReportsSpec => []ReportsIndInv
<1>1. ReportsInit => ReportsIndInv
  BY ReportsAssumption
  DEF ReportsInit, ReportsIndInv, ReportsTypes, RequestRecord, NoRequest,
      GatheredInBetween, VerdictInBetween
<1> QED  BY <1>1, ReportsStep, PTL DEF ReportsSpec

(* Components and requests keep their types.                               *)
THEOREM ReportsTypeCorrect == ReportsSpec => []ReportsTypeOK
<1>1. ReportsIndInv => ReportsTypeOK
  <2> SUFFICES ASSUME ReportsIndInv PROVE ReportsTypeOK
    OBVIOUS
  <2>1. request.pc \in {"none", "asking", "waiting", "answered"}
    BY DEF ReportsIndInv, ReportsTypes, RequestRecord, NoRequest
  <2> QED  BY <2>1 DEF ReportsIndInv, ReportsTypes, ReportsTypeOK
<1> QED  BY <1>1, ReportsInvariance, PTL

(* GET /health/detailed never answers better than a trouble that lasted    *)
(* from the request to the answer, nor worse than the worst moment in      *)
(* between, although its checks are done at different moments.             *)
THEOREM VerdictsAreInBetween == ReportsSpec => []VerdictInBetween
<1> QED  BY ReportsInvariance, PTL DEF ReportsIndInv

================================================================================

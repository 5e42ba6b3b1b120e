---------------------------- MODULE BusinessMetrics ----------------------------
(***************************************************************************)
(* BusinessMetricsService: one result kept for cacheTtlMs, recomputed by   *)
(* four queries in parallel, and the Prometheus gauges and HTTP endpoints  *)
(* that ask for it.  Nothing keeps two recomputations apart: requests that *)
(* find the cache expired each start one, and the Prometheus timer starts  *)
(* its next call whether or not the last one has ended.                    *)
(*                                                                         *)
(* Abstraction: of a result only the moment is kept that its oldest number *)
(* describes.  A query describes some moment between its start and its     *)
(* answer; the queries are not one transaction.                            *)
(***************************************************************************)
EXTENDS Integers, FiniteSets

CONSTANTS
  Caller,      (* calls of getBusinessMetrics() that may be under way      *)
  Query,       (* the queries of one recomputation                         *)
  CacheTtl,    (* cacheTtlMs                                               *)
  MaxDuration, (* assumed: a query is answered or fails within this time   *)
  MaxClock     (* bound on the clock                                       *)

ASSUME BusinessMetricsAssumption ==
  /\ {CacheTtl, MaxDuration, MaxClock} \subseteq Nat \ {0}
  /\ IsFiniteSet(Query) /\ Query # {}

VARIABLES
  clock,  (* Date.now()                                                    *)
  cache,  (* metricsCache and cacheTimestamp; a set of at most one result  *)
  call,   (* the calls of getBusinessMetrics()                             *)
  answer, (* what each caller (a gauge, a response) got last               *)
  newest  (* history: the latest moment an answer described; -1 if there   *)
          (* was none since the cache was invalidated                      *)

metricsVars == <<clock, cache, call, answer, newest>>

NotCalled == [pc |-> "none", since |-> 0, pending |-> {}, describes |-> 0]

(* A caller gets numbers that describe a moment: how old they are, and how *)
(* far behind what had been shown before.                                  *)
Answers(c, source, moment) ==
  /\ answer' = [answer EXCEPT ![c] =
       [source |-> source, age |-> clock - moment,
        behind |-> IF newest > moment THEN newest - moment ELSE 0]]
  /\ newest' = IF newest > moment THEN newest ELSE moment

(* A caller gets zeroes: worse than any numbers shown before.              *)
AnswersZeroes(c) ==
  /\ answer' = [answer EXCEPT ![c] =
       [source |-> "empty", age |-> 0,
        behind |-> IF newest = -1 THEN 0 ELSE MaxClock + 1]]
  /\ UNCHANGED newest

MetricsInit ==
  /\ clock = 0
  /\ cache = {}
  /\ call = [c \in Caller |-> NotCalled]
  /\ answer = [c \in Caller |-> [source |-> "none", age |-> 0, behind |-> 0]]
  /\ newest = -1

(* Time passes, but no query outlasts MaxDuration.                         *)
ClockTicks ==
  /\ clock < MaxClock
  /\ \A c \in Caller : call[c].pc = "querying" => clock < call[c].since + MaxDuration
  /\ clock' = clock + 1
  /\ UNCHANGED <<cache, call, answer, newest>>

(* Faulty variant: the result is still valid when its time has run out.    *)
ValidAtExpiry == {r \in cache : clock - r.since <= CacheTtl}

(* The cached result, if it is still valid.                                *)
Valid == {r \in cache : clock - r.since < CacheTtl}

(* getBusinessMetrics() with a result that is still valid.                 *)
CacheHit(c) ==
  /\ call[c].pc = "none"
  /\ \E r \in Valid : Answers(c, "cache", r.describes)
  /\ UNCHANGED <<clock, cache, call>>

(* Otherwise all queries are started at once.                              *)
Recompute(c) ==
  /\ call[c].pc = "none"
  /\ Valid = {}
  /\ call' = [call EXCEPT ![c] =
       [pc |-> "querying", since |-> clock, pending |-> Query, describes |-> clock + MaxDuration]]
  /\ UNCHANGED <<clock, cache, answer, newest>>

Earlier(a, b) == IF a <= b THEN a ELSE b

(* Query q is answered while others are not.                               *)
QueryAnswered(c, q) ==
  /\ call[c].pc = "querying"
  /\ q \in call[c].pending
  /\ call[c].pending # {q}
  /\ \E moment \in call[c].since .. clock :
       call' = [call EXCEPT ![c] =
         [pc |-> "querying", since |-> call[c].since, pending |-> call[c].pending \ {q},
          describes |-> Earlier(call[c].describes, moment)]]
  /\ UNCHANGED <<clock, cache, answer, newest>>

(* The last query is answered: the result is cached as of now and returned *)
(* even if another call has cached a younger one meanwhile.                *)
Recomputed(c, q) ==
  /\ call[c].pc = "querying"
  /\ call[c].pending = {q}
  /\ \E moment \in call[c].since .. clock :
       LET describes == Earlier(call[c].describes, moment)
       IN /\ cache' = {[describes |-> describes, since |-> clock]}
          /\ Answers(c, "queries", describes)
  /\ call' = [call EXCEPT ![c] = NotCalled]
  /\ UNCHANGED clock

(* The catch block: the last result, whatever its age, or zeroes.          *)
Fallback(c) ==
  IF cache = {} THEN AnswersZeroes(c) ELSE \E r \in cache : Answers(c, "stale", r.describes)

(* Faulty variant: a failure drops the cached result.                      *)
RecomputeFailsForgetting(c) ==
  /\ call[c].pc = "querying"
  /\ Fallback(c)
  /\ cache' = {}
  /\ call' = [call EXCEPT ![c] = NotCalled]
  /\ UNCHANGED clock

(* A query fails: Promise.all ends at once, the others' answers go         *)
(* nowhere.                                                                *)
RecomputeFails(c) ==
  /\ call[c].pc = "querying"
  /\ Fallback(c)
  /\ call' = [call EXCEPT ![c] = NotCalled]
  /\ UNCHANGED <<clock, cache>>

(* invalidateCache(); no code calls it.                                    *)
InvalidateCache ==
  /\ cache' = {}
  /\ newest' = -1
  /\ UNCHANGED <<clock, call, answer>>

MetricsNext ==
  \/ ClockTicks
  \/ InvalidateCache
  \/ \E c \in Caller :
       \/ CacheHit(c)
       \/ Recompute(c)
       \/ \E q \in Query : QueryAnswered(c, q) \/ Recomputed(c, q)
       \/ RecomputeFails(c)

MetricsSpec == MetricsInit /\ [][MetricsNext]_metricsVars

--------------------------------------------------------------------------------
(* Properties                                                              *)

MetricsTypeOK ==
  /\ clock \in 0 .. MaxClock
  /\ cache \subseteq [describes : 0 .. MaxClock, since : 0 .. MaxClock] /\ Cardinality(cache) <= 1
  /\ call \in [Caller -> [pc : {"none", "querying"}, since : Nat,
                          pending : SUBSET Query, describes : Nat]]
  /\ answer \in [Caller -> [source : {"none", "cache", "queries", "stale", "empty"},
                            age : Nat, behind : Nat]]
  /\ newest \in -1 .. MaxClock

(* As long as the queries succeed, "cached for 1 minute" means numbers at  *)
(* most the time to live plus one recomputation old: the age of a result   *)
(* counts from its end, and a slow recomputation may replace a younger     *)
(* result and give it a new lease.                                         *)
FreshWhileQueriesSucceed ==
  \A c \in Caller :
    answer[c].source \in {"cache", "queries"} => answer[c].age < CacheTtl + MaxDuration

(* Whatever recomputations overlap and fail, gauges and responses never    *)
(* fall behind what was shown before by more than one recomputation; in    *)
(* particular zeroes are not shown after numbers.                          *)
NeverFarBehind == \A c \in Caller : answer[c].behind <= MaxDuration

================================================================================

----------------------------- MODULE HealthReports -----------------------------
(***************************************************************************)
(* GET /health/detailed, which joins several checks into one verdict.  It  *)
(* reads some components at once and others after an await, while the      *)
(* components change.  Here the buffer and the circuit breaker change at   *)
(* any time and in any way; EventBuffer and CircuitBreaker have how.       *)
(***************************************************************************)
EXTENDS Naturals, FiniteSets

CONSTANTS
  Load,      (* what the buffer may count: [size, enqueued, dropped]       *)
  Capacity,  (* the buffer's capacity                                      *)
  MaxChanges (* bound: changes of the components                           *)

ASSUME ReportsAssumption ==
  /\ Load \subseteq [size : Nat, enqueued : Nat, dropped : Nat]
  /\ Capacity \in Nat \ {0}
  /\ MaxChanges \in Nat

VARIABLES
  load,     (* the buffer's counts                                         *)
  circuit,  (* the circuit breaker's state                                 *)
  database, (* what SELECT 1 would meet: "healthy", "warning" (slow) or    *)
            (* "unhealthy" (an error)                                      *)
  changes,  (* how often one of these has changed                          *)
  request   (* a GET /health/detailed                                      *)

reportVars == <<load, circuit, database, changes, request>>

Component == {"buffer", "circuit", "database"}

(* The thresholds of EventBufferService.getMetrics().                      *)
BufferStatus(l) ==
  LET full(percent) == l.size * 100 >= percent * Capacity
      dropsOver(percent) == l.dropped * 100 > percent * (l.enqueued + l.dropped)
  IN CASE full(90) \/ dropsOver(5) -> "critical"
       [] ~ full(90) /\ ~ dropsOver(5) /\ (full(70) \/ dropsOver(1)) -> "warning"
       [] OTHER -> "healthy"

CircuitStatus(state) == IF state = "OPEN" THEN {"critical"} ELSE {}

(* Faulty variant: warnings are looked for first.                          *)
OverallWarningFirst(statuses) ==
  IF statuses \cap {"unhealthy", "warning"} # {} THEN "warning"
  ELSE IF statuses \cap {"error", "critical"} # {} THEN "critical"
  ELSE "healthy"

(* determineOverallHealth(): a database that cannot be reached is but a    *)
(* warning until the circuit breaker opens.                                *)
OverallHealth(statuses) ==
  IF statuses \cap {"error", "critical"} # {} THEN "critical"
  ELSE IF statuses \cap {"unhealthy", "warning"} # {} THEN "warning"
  ELSE "healthy"

Rank(status) ==
  CASE status = "critical" -> 2
    [] status \in {"warning", "unhealthy"} -> 1
    [] OTHER -> 0

(* How bad a component is.                                                 *)
Severity(component) ==
  CASE component = "buffer" -> Rank(BufferStatus(load))
    [] component = "circuit" -> (IF circuit = "OPEN" THEN 2 ELSE 0)
    [] component = "database" -> Rank(database)

Worst == CHOOSE s \in {Severity(c) : c \in Component} : \A c \in Component : Severity(c) <= s

NoRequest == [pc |-> "none"]

ReportsInit ==
  /\ load \in {l \in Load : BufferStatus(l) = "healthy"}
  /\ circuit = "CLOSED"
  /\ database = "healthy"
  /\ changes = 0
  /\ request = NoRequest

(* A component changes.  A request under way remembers which ones have     *)
(* been steady since it began, and the worst there was.                    *)
Changes(component) ==
  /\ changes < MaxChanges
  /\ changes' = changes + 1
  /\ request' = IF request.pc \in {"none", "answered"} THEN request
                ELSE [pc |-> request.pc, statuses |-> request.statuses,
                      steady |-> request.steady \ {component},
                      worst |-> IF Worst' > request.worst THEN Worst' ELSE request.worst]

BufferChanges ==
  /\ load' \in Load \ {load}
  /\ UNCHANGED <<circuit, database>>
  /\ Changes("buffer")

CircuitChanges ==
  /\ circuit' \in {"CLOSED", "OPEN", "HALF_OPEN"} \ {circuit}
  /\ UNCHANGED <<load, database>>
  /\ Changes("circuit")

DatabaseChanges ==
  /\ database' \in {"healthy", "warning", "unhealthy"} \ {database}
  /\ UNCHANGED <<load, circuit>>
  /\ Changes("database")

--------------------------------------------------------------------------------
(* GET /health/detailed                                                    *)

(* All checks are started at once; those of the buffer and of the circuit  *)
(* breaker are done at once.                                               *)
DetailedStarts ==
  /\ request.pc = "none"
  /\ request' = [pc |-> "asking", statuses |-> {BufferStatus(load)} \cup CircuitStatus(circuit),
                 steady |-> Component, worst |-> Worst]
  /\ UNCHANGED <<load, circuit, database, changes>>

(* checkDatabase(): SELECT 1 is answered or fails.                         *)
DatabaseAnswers ==
  /\ request.pc = "asking"
  /\ request' = [request EXCEPT !.pc = "waiting", !.statuses = @ \cup {database}]
  /\ UNCHANGED <<load, circuit, database, changes>>

(* The other answers are there, whether the connection count or the        *)
(* business metrics failed or not: the verdict.                            *)
DetailedAnswered ==
  /\ request.pc = "waiting"
  /\ LET steady == {Severity(c) : c \in request.steady} \cup {0}
     IN request' = [pc |-> "answered", verdict |-> OverallHealth(request.statuses),
                    atLeast |-> CHOOSE s \in steady : \A t \in steady : t <= s,
                    atMost |-> request.worst]
  /\ UNCHANGED <<load, circuit, database, changes>>

ReportsNext ==
  \/ BufferChanges
  \/ CircuitChanges
  \/ DatabaseChanges
  \/ DetailedStarts
  \/ DatabaseAnswers
  \/ DetailedAnswered

ReportsSpec == ReportsInit /\ [][ReportsNext]_reportVars

--------------------------------------------------------------------------------
(* Properties                                                              *)

ReportsTypeOK ==
  /\ load \in Load
  /\ circuit \in {"CLOSED", "OPEN", "HALF_OPEN"}
  /\ database \in {"healthy", "warning", "unhealthy"}
  /\ changes \in 0 .. MaxChanges
  /\ request.pc \in {"none", "asking", "waiting", "answered"}

(* The verdict of GET /health/detailed is as bad as any trouble that       *)
(* lasted from the request to the answer, and no worse than the worst      *)
(* moment in between, although its parts are read at different times.      *)
VerdictInBetween ==
  request.pc = "answered" => Rank(request.verdict) \in request.atLeast .. request.atMost

================================================================================

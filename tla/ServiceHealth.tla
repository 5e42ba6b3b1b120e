----------------------------- MODULE ServiceHealth -----------------------------
(***************************************************************************)
(* Who may say that the server is ready: the bootstrap code, the global    *)
(* error handlers and the probes GET /health, /live and /ready.            *)
(*                                                                         *)
(* CommonModule provides HealthService under its class and under its       *)
(* token, so there are two instances.  startApplication() and the probes   *)
(* use the class, ErrorHandlingService and GET /health/detailed the token. *)
(*                                                                         *)
(* No shutdown hooks are enabled and registerShutdownHandler() and         *)
(* shutdown() have no caller: a signal ends the process at once, and only  *)
(* app.close(), which the tests call, runs onModuleDestroy().              *)
(***************************************************************************)
EXTENDS Naturals

VARIABLES
  phase,    (* "down", "starting", "listening" (before signalReady()),     *)
            (* "serving" or "closing"                                      *)
  exitTimer, (* the second given to the logs after an uncaught exception   *)
  health    (* the two instances of HealthService                          *)

healthVars == <<phase, exitTimer, health>>

Instance == {"class", "token"}

(* The instance each user is given.                                        *)
Bootstrap == "class"
Probes == "class"
Detailed == "token"
ErrorHandler == "token"

Fresh == [i \in Instance |-> [isReady |-> FALSE, isShuttingDown |-> FALSE]]

HealthInit ==
  /\ phase = "down"
  /\ exitTimer = FALSE
  /\ health = Fresh

(* The process is started, at first or again.                              *)
ProcessStarts ==
  /\ phase = "down"
  /\ phase' = "starting"
  /\ health' = Fresh
  /\ UNCHANGED exitTimer

(* init() and listen() have been awaited: connections are accepted.        *)
ServerListens ==
  /\ phase = "starting"
  /\ phase' = "listening"
  /\ UNCHANGED <<exitTimer, health>>

(* startApplication() goes on after the await: signalReady().              *)
SignalReady ==
  /\ phase = "listening"
  /\ phase' = "serving"
  /\ health' = [health EXCEPT ![Bootstrap].isReady = TRUE]
  /\ UNCHANGED exitTimer

NotReadySignalled == health' = [health EXCEPT ![ErrorHandler].isReady = FALSE]

(* An exception nobody caught: the process will exit in a second, and goes *)
(* on until then.                                                          *)
UncaughtException ==
  /\ phase # "down"
  /\ NotReadySignalled
  /\ exitTimer' = TRUE
  /\ UNCHANGED phase

(* A rejection nobody handled, critical or not by its message; it is       *)
(* logged and the process goes on.                                         *)
UnhandledRejection(critical) ==
  /\ phase # "down"
  /\ IF critical THEN NotReadySignalled ELSE UNCHANGED health
  /\ UNCHANGED <<phase, exitTimer>>

(* app.close(): onModuleDestroy() of both instances, before the server is  *)
(* closed.                                                                 *)
AppCloses ==
  /\ phase = "serving"
  /\ phase' = "closing"
  /\ health' = [i \in Instance |-> [health[i] EXCEPT !.isShuttingDown = TRUE]]
  /\ UNCHANGED exitTimer

(* The exit timer fires, bootstrap() failed and exits, the server has been *)
(* closed, or a signal ends the process.                                   *)
ProcessEnds ==
  /\ phase # "down"
  /\ phase' = "down"
  /\ exitTimer' = FALSE
  /\ UNCHANGED health

HealthNext ==
  \/ ProcessStarts
  \/ ServerListens
  \/ SignalReady
  \/ UncaughtException
  \/ \E critical \in BOOLEAN : UnhandledRejection(critical)
  \/ AppCloses
  \/ ProcessEnds

HealthSpec == HealthInit /\ [][HealthNext]_healthVars

--------------------------------------------------------------------------------
(* The answers of the probes                                               *)

CheckReadiness(i) == IF health[i].isReady THEN "ready" ELSE "not ready"

CheckLiveness(i) == IF health[i].isShuttingDown THEN "shutting down" ELSE "alive"

(* checkHealth() asks for readiness first.                                 *)
CheckHealth(i) ==
  CASE health[i].isReady -> "ready"
    [] ~ health[i].isReady /\ health[i].isShuttingDown -> "shutting down"
    [] OTHER -> "not ready"

--------------------------------------------------------------------------------
(* Properties                                                              *)

HealthTypeOK ==
  /\ phase \in {"down", "starting", "listening", "serving", "closing"}
  /\ exitTimer \in BOOLEAN
  /\ health \in [Instance -> [isReady : BOOLEAN, isShuttingDown : BOOLEAN]]

(* error-handling.service.ts marks the server as not ready when an         *)
(* exception was not caught, so GET /ready says so until the process ends. *)
ErrorsEndReadiness ==
  [][UncaughtException => (CheckReadiness(Probes))' = "not ready"]_healthVars

================================================================================

---------------------------- MODULE MetricsHistory ----------------------------
(***************************************************************************)
(* MetricsPersistenceService and FileMetricsRepository: a snapshot every   *)
(* persistenceIntervalMs, appended as one line of JSON to a file that is   *)
(* never truncated, and the history read back from its end.                *)
(*                                                                         *)
(* The timer does not await a save, so appends may overlap and write in    *)
(* another order.  An append that fails, and a crash in the middle of one, *)
(* may leave part of the line behind.                                      *)
(*                                                                         *)
(* Abstraction: a snapshot is the number of its save.  A file is a         *)
(* sequence of lines, each a snapshot or Unreadable, and what follows the  *)
(* last newline.  appendFile() opens, writes and closes; the step is the   *)
(* write.  The answer comes later, and answers of overlapping saves may    *)
(* come in another order than their lines: the order here is the lines'.   *)
(***************************************************************************)
EXTENDS Integers, Sequences, FiniteSets

CONSTANTS
  MaxSaves,   (* bound: snapshots ever taken                               *)
  MaxInFlight (* bound: saves under way at once                            *)

ASSUME HistoryAssumption == {MaxSaves, MaxInFlight} \subseteq Nat \ {0}

VARIABLES
  process,   (* "down", "up", or "stopping" after onModuleDestroy          *)
  saving,    (* snapshots whose append is under way                        *)
  lines,     (* the lines of the file                                      *)
  tail,      (* the text after the last newline, as a sequence of at most  *)
             (* one line                                                   *)
  taken,     (* how many snapshots were taken                              *)
  saved,     (* history: the saves whose append worked, in the order of    *)
             (* their writes                                               *)
  incidents, (* history: failed appends that wrote something               *)
  lately     (* history: such saves since the last incident                *)

historyVars == <<process, saving, lines, tail, taken, saved, incidents, lately>>

Unreadable == 0

HistoryInit ==
  /\ process = "down"
  /\ saving = {}
  /\ lines = << >>
  /\ tail = << >>
  /\ taken = 0
  /\ saved = << >>
  /\ incidents = 0
  /\ lately = 0

(* onModuleInit(): the interval is set, even if mkdir failed; then every   *)
(* append fails until the directory is there.                              *)
PersistenceStarts ==
  /\ process = "down"
  /\ process' = "up"
  /\ UNCHANGED <<saving, lines, tail, taken, saved, incidents, lately>>

(* saveMetrics() takes a snapshot and starts to append it.                 *)
TakesSnapshot ==
  /\ taken < MaxSaves
  /\ Cardinality(saving) < MaxInFlight
  /\ taken' = taken + 1
  /\ saving' = saving \cup {taken'}
  /\ UNCHANGED <<lines, tail, saved, incidents, lately>>

(* The interval fires.                                                     *)
SaveStarts ==
  /\ process = "up"
  /\ TakesSnapshot
  /\ UNCHANGED process

(* onModuleDestroy() clears the interval and saves once more.              *)
FinalSave ==
  /\ process = "up"
  /\ process' = "stopping"
  /\ TakesSnapshot

(* The line that text becomes behind an unfinished one: JSON only if there *)
(* was none.                                                               *)
Glued(n) == IF tail = << >> THEN n ELSE Unreadable

(* Faulty variant: the newline is forgotten.                               *)
AppendsUnfinished(n) ==
  /\ tail' = <<Glued(n)>>
  /\ UNCHANGED lines

AppendsLine(n) ==
  /\ lines' = Append(lines, Glued(n))
  /\ tail' = << >>

SaveSucceeds(n) ==
  /\ AppendsLine(n)
  /\ saving' = saving \ {n}
  /\ saved' = Append(saved, n)
  /\ lately' = lately + 1
  /\ UNCHANGED <<process, taken, incidents>>

(* The append fails, or is cut off by a crash, after nothing, a part, all  *)
(* but the newline, or all was written; the error is logged.               *)
SaveFails(n) ==
  /\ \/ UNCHANGED <<lines, tail, incidents, lately>>
     \/ /\ \/ tail' = <<Unreadable>> /\ UNCHANGED lines
           \/ tail' = <<Glued(n)>> /\ UNCHANGED lines
           \/ AppendsLine(n)
        /\ incidents' = incidents + 1
        /\ lately' = 0
  /\ saving' = saving \ {n}
  /\ UNCHANGED <<process, taken, saved>>

(* The process ends: killed, with appends under way, or after its final    *)
(* save.                                                                   *)
PersistenceEnds ==
  /\ process # "down"
  /\ process' = "down"
  /\ saving' = {}
  /\ UNCHANGED <<lines, tail, taken, saved, incidents, lately>>

HistoryNext ==
  \/ PersistenceStarts
  \/ SaveStarts
  \/ FinalSave
  \/ \E n \in saving : SaveSucceeds(n) \/ SaveFails(n)
  \/ PersistenceEnds

HistorySpec == HistoryInit /\ [][HistoryNext]_historyVars

--------------------------------------------------------------------------------
(* getMetricsHistory(): the whole file is read and cut into lines.         *)

(* Faulty variant: slice(limit).                                           *)
AfterFirst(s, limit) == SubSeq(s, limit + 1, Len(s))

(* slice(-limit); for 0 that is everything.                                *)
Latest(s, limit) ==
  IF limit = 0 \/ limit >= Len(s) THEN s ELSE SubSeq(s, Len(s) - limit + 1, Len(s))

(* One line that is no JSON empties the answer.                            *)
MetricsHistory(limit) ==
  LET last == Latest(lines \o tail, limit)
  IN IF \E i \in DOMAIN last : last[i] = Unreadable THEN << >> ELSE last

--------------------------------------------------------------------------------
(* Properties                                                              *)

HistoryTypeOK ==
  /\ process \in {"down", "up", "stopping"}
  /\ saving \subseteq 1 .. taken /\ Cardinality(saving) <= MaxInFlight
  /\ lines \in Seq(Unreadable .. taken)
  /\ tail \in Seq(Unreadable .. taken) /\ Len(tail) <= 1
  /\ taken \in 0 .. MaxSaves
  /\ saved \in Seq(1 .. taken)
  /\ incidents \in Nat /\ lately \in 0 .. Len(saved)

(* A save whose append worked is lost only to an earlier append that was   *)
(* cut off, and each of those costs one at most, however saves overlap and *)
(* whatever was left of the torn line.                                     *)
OneTearOneLoss ==
  Cardinality({i \in DOMAIN saved :
                 \A j \in DOMAIN lines : lines[j] # saved[i]}) <= incidents

(* An unreadable line hides the history no longer than until limit + 1     *)
(* saves have been written after it: then the last limit of them are what  *)
(* getMetricsHistory(limit) returns, in the order they were written.       *)
LastSavesReadable ==
  \A limit \in 1 .. lately - 1 : MetricsHistory(limit) = SubSeq(saved, Len(saved) - limit + 1, Len(saved))

================================================================================

------------------------------ MODULE DlqReports ------------------------------
(***************************************************************************)
(* The administrators' view of the dead letter queue: GET /dlq/statistics  *)
(* and GET /dlq.  Each answer is put together from several queries, which  *)
(* the database answers at different moments, while the worker and other   *)
(* requests change the table (module DeadLetterQueue).                     *)
(*                                                                         *)
(* Abstraction: of a page of GET /dlq its length; of the oldest entry      *)
(* whether there is one.  An entry is never unmarked but by a stale save,  *)
(* which DeadLetterQueue models.                                           *)
(***************************************************************************)
EXTENDS Integers, FiniteSets

CONSTANTS
  Entry,       (* ids of entries                                           *)
  Service,     (* services that sent the events                            *)
  NoService,   (* an entry's service may be missing                        *)
  DefaultLimit, (* page length if the request asks for none, or for 0      *)
  MaxDlqChanges (* bound: changes of the table                             *)

ASSUME DlqReportsAssumption ==
  /\ IsFiniteSet(Entry) /\ IsFiniteSet(Service) /\ NoService \notin Service
  /\ {DefaultLimit, MaxDlqChanges} \subseteq Nat \ {0}

VARIABLES
  entries,    (* the dead_letter_queue table                               *)
  dlqChanges, (* how often it has changed                                  *)
  report      (* a request for statistics or for a page                    *)

dlqReportVars == <<entries, dlqChanges, report>>

NoReport == [pc |-> "none"]

DlqReportsInit ==
  /\ entries = {}
  /\ dlqChanges = 0
  /\ report = NoReport

(* The table changes.  A report under way remembers the entries that have  *)
(* been there, as they are, since it began, and how many changes there     *)
(* were.                                                                   *)
EntriesChange(now) ==
  /\ dlqChanges < MaxDlqChanges
  /\ dlqChanges' = dlqChanges + 1
  /\ entries' = now
  /\ report' = IF report.pc \in {"none", "answered", "failed"} THEN report
               ELSE [report EXCEPT !.stayed = @ \cap now, !.missed = @ + 1]

(* addToDLQ() inserts an entry.                                            *)
EntryAdded(id, service) ==
  /\ \A e \in entries : e.id # id
  /\ EntriesChange(entries \cup {[id |-> id, service |-> service, reprocessed |-> FALSE]})

(* reprocessEvent() marks it, or a stale save unmarks it.                  *)
EntrySaved(e) ==
  EntriesChange((entries \ {e}) \cup {[e EXCEPT !.reprocessed = ~ @]})

(* deleteDLQEvent() removes it.                                            *)
EntryRemoved(e) == EntriesChange(entries \ {e})

--------------------------------------------------------------------------------
(* The queries                                                             *)

AnyService == Service \cup {NoService}

Everything == [services |-> AnyService, marks |-> BOOLEAN, limit |-> DefaultLimit, offset |-> 0]

CountIn(rows, services, marks) ==
  Cardinality({e \in rows : e.service \in services /\ e.reprocessed \in marks})

PageLength(n, w) ==
  LET left == IF n > w.offset THEN n - w.offset ELSE 0
  IN IF left < w.limit THEN left ELSE w.limit

(* A limit of 0 is taken for none, and so is one that is no number.        *)
LimitOf(asked) == IF asked = 0 THEN DefaultLimit ELSE asked

(* What a query finds in rows.  The last ones are the groups of the query  *)
(* by service.                                                             *)
Answer(query, rows, w) ==
  CASE query = "total" -> CountIn(rows, w.services, w.marks)
    [] query = "events" -> PageLength(CountIn(rows, w.services, w.marks), w)
    [] query = "reprocessed" -> CountIn(rows, AnyService, {TRUE})
    [] query = "pending" -> CountIn(rows, AnyService, {FALSE})
    [] query = "oldest" -> PageLength(Cardinality(rows), [limit |-> 1, offset |-> 0])
    [] OTHER -> CountIn(rows, {query}, BOOLEAN)

Begins(queries, w, next) ==
  /\ report.pc = "none"
  /\ report' = [pc |-> "asking", left |-> queries, next |-> next, wanted |-> w,
                got |-> {}, stayed |-> entries, missed |-> 0]
  /\ UNCHANGED <<entries, dlqChanges>>

(* getDLQStatistics(): four queries in parallel, then the one by service.  *)
StatisticsStart ==
  Begins({"total", "reprocessed", "pending", "oldest"}, Everything, Service)

(* listDLQEvents(): the page and the total in parallel.                    *)
ListStarts(services, marks, asked, offset) ==
  Begins({"events", "total"},
         [services |-> services, marks |-> marks, limit |-> LimitOf(asked), offset |-> offset], {})

(* A query is answered.                                                    *)
Finds(query) == <<query, Answer(query, entries, report.wanted)>>

QueryAnswers(query) ==
  /\ report.pc = "asking"
  /\ query \in report.left
  /\ report' = [report EXCEPT !.left = @ \ {query}, !.got = @ \cup {Finds(query)}]
  /\ UNCHANGED <<entries, dlqChanges>>

(* Faulty variant: the pending ones are what the other counts leave.       *)
PendingByDifference(got) ==
  LET value(query) == (CHOOSE g \in got : g[1] = query)[2]
  IN value("total") - value("reprocessed")

(* What the answer says is pending.                                        *)
PendingOf(got) == (CHOOSE g \in got : g[1] = "pending")[2]

(* All parallel queries are answered: the report is done, or one query     *)
(* answers for all services at once.                                       *)
ReportDone ==
  /\ report.pc = "asking"
  /\ report.left = {}
  /\ LET groups == {Finds(s) : s \in report.next}
         pending == IF report.next = {} THEN {} ELSE {<<"pending", PendingOf(report.got)>>}
         others == {g \in report.got : g[1] # "pending"}
     IN report' = [report EXCEPT !.pc = "answered", !.got = others \cup pending \cup groups]
  /\ UNCHANGED <<entries, dlqChanges>>

(* A query fails: the answer is all zeroes, or an empty page.              *)
ReportFails ==
  /\ report.pc = "asking"
  /\ report' = [report EXCEPT !.pc = "failed", !.got = {}, !.left = {}]
  /\ UNCHANGED <<entries, dlqChanges>>

DlqReportsNext ==
  \/ \E id \in Entry, s \in AnyService : EntryAdded(id, s)
  \/ \E e \in entries : EntrySaved(e) \/ EntryRemoved(e)
  \/ StatisticsStart
  \/ \E services \in {AnyService} \cup {{s} : s \in Service},
        marks \in {BOOLEAN, {TRUE}, {FALSE}}, asked \in 0 .. 1, offset \in 0 .. 1 :
       ListStarts(services, marks, asked, offset)
  \/ \E query \in {"events", "total", "reprocessed", "pending", "oldest"} : QueryAnswers(query)
  \/ ReportDone
  \/ ReportFails

DlqReportsSpec == DlqReportsInit /\ [][DlqReportsNext]_dlqReportVars

--------------------------------------------------------------------------------
(* Properties                                                              *)

DlqReportsTypeOK ==
  /\ entries \subseteq [id : Entry, service : AnyService, reprocessed : BOOLEAN]
  /\ dlqChanges \in 0 .. MaxDlqChanges
  /\ report.pc \in {"none", "asking", "answered", "failed"}
  /\ report.pc # "none" => report.missed \in 0 .. dlqChanges

(* Although no two of its numbers need belong to one moment, an answer     *)
(* that did not fail counts every entry that stayed as it was from the     *)
(* request to the answer, in every number it belongs to, and no number is  *)
(* too large by more than the changes meanwhile.                           *)
ReportCountsWhatStayed ==
  report.pc = "answered" =>
    \A g \in report.got :
      LET sure == Answer(g[1], report.stayed, report.wanted)
      IN g[2] \in sure .. sure + report.missed

================================================================================

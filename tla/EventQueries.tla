----------------------------- MODULE EventQueries -----------------------------
(***************************************************************************)
(* The events table as its readers see it: GET /events page by page, and   *)
(* the retention job that deletes old rows meanwhile.                      *)
(*                                                                         *)
(* The timestamp column is text.  A timestamp that parses is stored as the *)
(* client wrote it, so a query and the retention job compare spellings,    *)
(* not instants.  A spelling is abstracted to the instant it denotes and   *)
(* the place of its text in the order of texts.  An ISO date sorts like    *)
(* its instant, shifted by the offset of its time zone; whatever else the  *)
(* validator's Date can parse ("10 Jan 2026", "Jan 10, 2026") has a place  *)
(* that says nothing about its instant.                                    *)
(*                                                                         *)
(* Abstractions.  One service; time in days; the rows of one ORDER BY may  *)
(* come in any order that the sort key allows, a new one for each          *)
(* statement.  total is left out: nothing is decided by it.  The circuit   *)
(* breaker's refusal and the query timeout are failures of the statement.  *)
(***************************************************************************)
EXTENDS Integers, FiniteSets

CONSTANTS
  Event,         (* events that get stored                                 *)
  Zone,          (* offsets of the ISO dates that clients write            *)
  OddPlace,      (* places of the other spellings in the order of texts    *)
  MaxDay,        (* bound: the last day                                    *)
  RetentionDays, (* RETENTION_DAYS                                         *)
  MaxRange,      (* MAX_QUERY_TIME_RANGE_DAYS                              *)
  MaxCleanups,   (* bound: deletions under way at once                     *)
  PageSize,      (* pageSize, at most MAX_QUERY_LIMIT                      *)
  MaxPage,       (* MAX_QUERY_PAGE                                         *)
  DtoMaxPage     (* the largest page number a request may ask for (10000)  *)

ASSUME QueriesAssumption ==
  /\ Zone \subseteq Int /\ IsFiniteSet(Zone) /\ 0 \in Zone
  /\ OddPlace \subseteq Int
  /\ {MaxDay, MaxCleanups, RetentionDays, MaxRange, PageSize, MaxPage, DtoMaxPage} \subseteq Nat \ {0}

VARIABLES
  day,      (* today                                                       *)
  table,    (* the rows: an event with its timestamp                       *)
  cleanups, (* cutoffs of the deletions under way                          *)
  walk      (* a client that asks for one page after the other             *)

queriesVars == <<day, table, cleanups, walk>>

Iso(at, zone) == [at |-> at, text |-> at + zone, iso |-> TRUE]

IsoDate == {Iso(at, zone) : at \in 0 .. MaxDay, zone \in Zone}

OtherDate == [at : 0 .. MaxDay, text : OddPlace, iso : {FALSE}]

Timestamp == IsoDate \cup OtherDate

(* What `<' on the column compares.                                        *)
Text(t) == t.text

(* How far behind UTC the most western offset is.                          *)
BehindUTC == CHOOSE m \in {- z : z \in Zone} : \A z \in Zone : - z <= m

QueriesInit ==
  /\ day = 0
  /\ table = {}
  /\ cleanups = {}
  /\ walk = [pc |-> "none"]

DayPasses ==
  /\ day < MaxDay
  /\ day' = day + 1
  /\ UNCHANGED <<table, cleanups, walk>>

(* validateAndNormalizeTimestamp(): a year before 1970 or after 2100 is    *)
(* replaced by the current time in UTC, anything else is stored as is.     *)
Normalized(t, reasonable) == IF reasonable THEN t ELSE Iso(day, 0)

(* Two rows with one sort key may swap places from one page to the next.   *)
AloneAmong(rows) == {r \in rows : \A q \in rows \ {r} : Text(q) # Text(r)}

(* The worker inserts an event, whatever its timestamp.                    *)
Store(e, t, reasonable) ==
  /\ \A r \in table : r.id # e
  /\ LET n == Normalized(t, reasonable)
         row == [id |-> e, at |-> n.at, text |-> n.text, iso |-> n.iso]
     IN /\ table' = table \cup {row}
        /\ walk' = IF walk.pc = "none" THEN walk
                   ELSE [walk EXCEPT !.unseen = {r \in @ : Text(r) # Text(row)}]
  /\ UNCHANGED <<day, cleanups>>

--------------------------------------------------------------------------------
(* Retention                                                               *)

(* Faulty variant: the cutoff day itself is deleted, too.                  *)
ExpiredOnTheDay(r, cutoff) == Text(r) <= cutoff

(* The WHERE clause of deleteOldEvents().                                  *)
Expired(r, cutoff) == Text(r) < cutoff

(* The cron job or cleanupNow() calls cleanup(): the cutoff is computed,   *)
(* and the statement awaited.  Nothing keeps two runs apart.               *)
CleanupStarts ==
  /\ Cardinality(cleanups) < MaxCleanups
  /\ cleanups' = cleanups \cup {day - RetentionDays}
  /\ UNCHANGED <<day, table, walk>>

CleanupDeletes(cutoff) ==
  /\ cutoff \in cleanups
  /\ cleanups' = cleanups \ {cutoff}
  /\ table' = {r \in table : ~ Expired(r, cutoff)}
  /\ walk' = IF walk.pc = "none" THEN walk
             ELSE [walk EXCEPT !.unseen = @ \cap table']
  /\ UNCHANGED day

(* The statement fails or is refused; the job logs it and waits for its    *)
(* next run.                                                               *)
CleanupFails(cutoff) ==
  /\ cutoff \in cleanups
  /\ cleanups' = cleanups \ {cutoff}
  /\ UNCHANGED <<day, table, walk>>

--------------------------------------------------------------------------------
(* Search                                                                  *)

(* The validators of the request compare instants.                         *)
IsValidTimeRange(from, to) == from.at < to.at
IsMaxTimeRange(from, to) == to.at - from.at <= MaxRange
ValidRange(from, to) == IsValidTimeRange(from, to) /\ IsMaxTimeRange(from, to)

(* Faulty variant: pages counted from zero.                                *)
OffsetFromZero(page) == page * PageSize

(* The WHERE clause compares texts.                                        *)
Matching(rows, low, high) ==
  {r \in rows : low <= Text(r) /\ Text(r) <= high}

(* Pages beyond MAX_QUERY_PAGE + 1 are all the same page.                  *)
Offset(page) ==
  LET calculated == (page - 1) * PageSize
      maxOffset == MaxPage * PageSize
  IN IF calculated <= maxOffset THEN calculated ELSE maxOffset

Before(k, l, order) == IF order = "ASC" THEN k < l ELSE k > l

(* `items' may be what ORDER BY timestamp LIMIT PageSize OFFSET offset     *)
(* returns of rows: of each key it has as many rows as places of that key  *)
(* fall into the page.                                                     *)
IsPage(items, rows, offset, order) ==
  \A k \in {Text(r) : r \in rows} :
    LET ahead == Cardinality({r \in rows : Before(Text(r), k, order)})
        same == Cardinality({r \in rows : Text(r) = k})
        first == IF ahead > offset THEN ahead ELSE offset
        last == IF ahead + same < offset + PageSize THEN ahead + same ELSE offset + PageSize
    IN Cardinality({r \in items : Text(r) = k}) = (IF last > first THEN last - first ELSE 0)

(* Faulty variant: the request's page number is not bounded.               *)
NoLastPage(page) == page > DtoMaxPage

(* The request's validator accepts no page after this one.                 *)
IsLastPage(page) == page = DtoMaxPage

(* The client asks for page 1 of a range.  `unseen' is the set of rows it  *)
(* has not got yet of those that have matched all the time, and shared     *)
(* their sort key with no other row.                                       *)
WalkStarts(from, to, order) ==
  /\ walk.pc = "none"
  /\ ValidRange(from, to)
  /\ walk' = [pc |-> "asking", low |-> Text(from), high |-> Text(to), order |-> order, page |-> 1,
              unseen |-> AloneAmong(Matching(table, Text(from), Text(to)))]
  /\ UNCHANGED <<day, table, cleanups>>

WalkEnds(how, unseen) == walk' = [pc |-> how, order |-> walk.order, unseen |-> unseen]

(* search(): a page arrives.  A short one is the last; otherwise the       *)
(* client asks for the next, up to the largest page number.                *)
PageArrives ==
  /\ walk.pc = "asking"
  /\ LET rows == Matching(table, walk.low, walk.high)
     IN \E items \in SUBSET rows :
          /\ IsPage(items, rows, Offset(walk.page), walk.order)
          /\ \/ Cardinality(items) < PageSize /\ WalkEnds("done", walk.unseen \ items)
             \/ /\ Cardinality(items) = PageSize
                /\ IF IsLastPage(walk.page)
                   THEN WalkEnds("stopped", walk.unseen \ items)
                   ELSE walk' = [walk EXCEPT !.unseen = @ \ items, !.page = @ + 1]
  /\ UNCHANGED <<day, table, cleanups>>

(* The find or the count fails, or both take longer than the timeout.      *)
PageFails ==
  /\ walk.pc = "asking"
  /\ WalkEnds("stopped", walk.unseen)
  /\ UNCHANGED <<day, table, cleanups>>

--------------------------------------------------------------------------------

QueriesNext ==
  \/ DayPasses
  \/ \E e \in Event, t \in Timestamp, reasonable \in BOOLEAN : Store(e, t, reasonable)
  \/ CleanupStarts
  \/ \E cutoff \in cleanups : CleanupDeletes(cutoff) \/ CleanupFails(cutoff)
  \/ \E from, to \in Timestamp, order \in {"ASC", "DESC"} : WalkStarts(from, to, order)
  \/ PageArrives
  \/ PageFails

QueriesSpec == QueriesInit /\ [][QueriesNext]_queriesVars

--------------------------------------------------------------------------------
(* Properties                                                              *)

Row ==
  {r \in [id : Event, at : 0 .. MaxDay, text : Int, iso : BOOLEAN] :
     r.iso => r.text - r.at \in Zone}

QueriesTypeOK ==
  /\ day \in 0 .. MaxDay
  /\ table \subseteq Row
  /\ cleanups \subseteq - RetentionDays .. MaxDay /\ Cardinality(cleanups) <= MaxCleanups
  /\ walk.pc \in {"none", "asking", "done", "stopped"}
  /\ walk.pc = "asking" => walk.page \in 1 .. DtoMaxPage
  /\ walk.pc # "none" => walk.unseen \subseteq table

(* A client that reads newest first until a page is short has seen every   *)
(* row that matched all the time, although events arrive and old ones are  *)
(* deleted between its requests: arrivals push rows to later pages, and    *)
(* retention takes rows from the end.  Rows with equal timestamps are      *)
(* excepted (no tie-breaker), and so is the order ASC, where retention     *)
(* pulls unread rows onto pages already read.                              *)
WalkSeesAllThatStayed ==
  walk.pc = "done" /\ walk.order = "DESC" => walk.unseen = {}

(* However late a deletion runs after its cutoff was computed, and however *)
(* many overlap, an event dated in ISO is deleted only when it is          *)
(* RETENTION_DAYS old, or would be if its local time were UTC.  Events     *)
(* dated in other ways have no such protection.                            *)
RetentionSparesYoung ==
  [][\A r \in table \ table' :
       r.iso => day - r.at > RetentionDays - BehindUTC]_queriesVars

================================================================================

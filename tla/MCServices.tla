------------------------------ MODULE MCServices ------------------------------
(* The buffer by itself and the services around the pipeline, which share  *)
(* no variable with each other: each behaviour exercises one of them.      *)
EXTENDS EventBuffer, EventQueries, BusinessMetrics, MetricsHistory, ServiceHealth, HealthReports,
        DlqReports, Metadata, TLC

CONSTANTS a, b, x1, x2, x3, y1, y2

MCEnriched == {a, b}

(* No checkpoint, one that fits, and one longer than the buffer.           *)
MCCheckpoints == { << >>, <<a, b>>, <<b, a, a, b>> }

MCItem == {x1, x2, x3}
MCPair == {y1, y2}
MCZone == {-1, 0}
MCOddPlace == {-2}
MCService == {"s1"}
MCLoad ==
  { [size |-> 0, enqueued |-> 0, dropped |-> 0],
    [size |-> 7, enqueued |-> 100, dropped |-> 1],
    [size |-> 9, enqueued |-> 95, dropped |-> 5],
    [size |-> 8, enqueued |-> 90, dropped |-> 10] }

Symmetry == Permutations(MCItem) \cup Permutations(MCPair)

VARIABLE focus

services == <<bufferVars, queriesVars, metricsVars, historyVars, healthVars, reportVars,
              dlqReportVars, metadataVars>>

ServicesInit ==
  /\ focus \in {"buffer", "queries", "metrics", "history", "health", "reports", "dlq", "metadata"}
  /\ BufferInit
  /\ focus # "buffer" => buffer = << >>
  /\ QueriesInit
  /\ MetricsInit
  /\ HistoryInit
  /\ HealthInit
  /\ ReportsInit
  /\ DlqReportsInit
  /\ IF focus = "metadata" THEN MetadataInit
     ELSE document = Leaf /\ stage = "refused" /\ copy = Leaf

ServicesNext ==
  /\ UNCHANGED focus
  /\ \/ /\ focus = "buffer"
        /\ BufferNext
        /\ UNCHANGED <<queriesVars, metricsVars, historyVars, healthVars, reportVars, dlqReportVars, metadataVars>>
     \/ /\ focus = "queries"
        /\ QueriesNext
        /\ UNCHANGED <<bufferVars, metricsVars, historyVars, healthVars, reportVars, dlqReportVars, metadataVars>>
     \/ /\ focus = "metrics"
        /\ MetricsNext
        /\ UNCHANGED <<bufferVars, queriesVars, historyVars, healthVars, reportVars, dlqReportVars, metadataVars>>
     \/ /\ focus = "history"
        /\ HistoryNext
        /\ UNCHANGED <<bufferVars, queriesVars, metricsVars, healthVars, reportVars, dlqReportVars, metadataVars>>
     \/ /\ focus = "health"
        /\ HealthNext
        /\ UNCHANGED <<bufferVars, queriesVars, metricsVars, historyVars, reportVars, dlqReportVars, metadataVars>>
     \/ /\ focus = "reports"
        /\ ReportsNext
        /\ UNCHANGED <<bufferVars, queriesVars, metricsVars, historyVars, healthVars, dlqReportVars, metadataVars>>
     \/ /\ focus = "dlq"
        /\ DlqReportsNext
        /\ UNCHANGED <<bufferVars, queriesVars, metricsVars, historyVars, healthVars, reportVars, metadataVars>>
     \/ /\ focus = "metadata"
        /\ MetadataNext
        /\ UNCHANGED <<bufferVars, queriesVars, metricsVars, historyVars, healthVars, reportVars, dlqReportVars>>

ServicesSpec == ServicesInit /\ [][ServicesNext]_<<focus, services>>

(* Every variable of every service around the buffer has its type.         *)
ServicesTypeOK ==
  /\ QueriesTypeOK
  /\ MetricsTypeOK
  /\ HistoryTypeOK
  /\ HealthTypeOK
  /\ ReportsTypeOK
  /\ DlqReportsTypeOK
  /\ focus = "metadata" => MetadataTypeOK

================================================================================

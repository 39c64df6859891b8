-------------------------------- MODULE App ---------------------------------
(***************************************************************************)
(* app.go: the HTTP side of a replica, submissions and scrapes, while its  *)
(* workers measure attempts and its dispatcher publishes.                  *)
(***************************************************************************)
EXTENDS CreateEvent, Metrics

vars == <<createVars, metricsVars>>

TypeOK == CreateTypeOK /\ MetricsTypeOK

Init == CreateInit /\ MetricsInit

Create(r) == CreateStep(r) /\ UNCHANGED metricsVars

ObserveEventProcessingDuration(o) ==
    Observe(o) /\ UNCHANGED <<createVars, eventsQueued, scrape>>

OutboxPublished == IncEventsQueued /\ UNCHANGED <<createVars, latencyVars, scrape>>

PrometheusMetrics ==
    /\ Scrape(eventsRejected) \/ ScrapeDone
    /\ UNCHANGED <<createVars, latencyVars, eventsQueued>>

Next ==
    \/ \E r \in Requests : Create(r)
    \/ \E o \in Observations : ObserveEventProcessingDuration(o)
    \/ OutboxPublished
    \/ PrometheusMetrics

Spec == Init /\ [][Next]_vars
=============================================================================

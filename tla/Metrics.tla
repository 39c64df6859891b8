------------------------------ MODULE Metrics -------------------------------
(***************************************************************************)
(* metrics.go, latency-metrics.go and the Prometheus endpoint.  Counters   *)
(* are atomic one by one and never together: an observation adds to the    *)
(* count, then to the sum, then raises the maximum by compare-and-swap,    *)
(* and a scrape loads one value after the other while that goes on.        *)
(***************************************************************************)
EXTENDS Naturals, FiniteSets, FiniteSetsExt

CONSTANTS
    Observations,    \* attempts whose duration is measured
    Durations,       \* how long an attempt may take
    MaxQueued        \* bound: publications counted

ASSUME MetricsAssumption ==
    /\ Durations \subseteq Nat \ {0}
    /\ \E longest \in Durations : \A d \in Durations : d <= longest
    /\ MaxQueued \in Nat

VARIABLES
    count, sumNS, maxNS,    \* ProcessingLatency
    observer,               \* ObserveEventProcessingDuration, one call each
    eventsQueued,           \* metric
    scrape                  \* the values a scrape has loaded, and which is next

latencyVars == <<count, sumNS, maxNS, observer>>
metricsVars == <<latencyVars, eventsQueued, scrape>>

Loads == {"idle", "count", "max", "rejected", "queued", "denominator", "done"}

MetricsTypeOK ==
    /\ count \in Nat /\ sumNS \in Nat /\ maxNS \in Nat
    /\ observer \in [Observations -> [pc : {"start", "sum", "load", "swap", "done"},
                                      ns : Durations, current : Nat]]
    /\ eventsQueued \in 0 .. MaxQueued
    /\ scrape \in [pc : Loads, sum : Nat, count : Nat, max : Nat,
                   rejected : Nat, denominator : Nat]

NoScrape == [pc |-> "idle", sum |-> 0, count |-> 0, max |-> 0,
             rejected |-> 0, denominator |-> 0]

MetricsInit ==
    /\ count = 0 /\ sumNS = 0 /\ maxNS = 0
    /\ observer \in [Observations -> [pc : {"start"}, ns : Durations, current : {0}]]
    /\ eventsQueued = 0
    /\ scrape = NoScrape

-----------------------------------------------------------------------------
At(o, pc) == observer[o].pc = pc

Go(o, pc) == observer' = [observer EXCEPT ![o].pc = pc]

AddCount(o) ==
    /\ At(o, "start")
    /\ count' = count + 1
    /\ Go(o, "sum")
    /\ UNCHANGED <<sumNS, maxNS>>

AddSum(o) ==
    /\ At(o, "sum")
    /\ sumNS' = sumNS + observer[o].ns
    /\ Go(o, "load")
    /\ UNCHANGED <<count, maxNS>>

LoadMax(o) ==
    /\ At(o, "load")
    /\ observer' = [observer EXCEPT ![o].current = maxNS,
                                    ![o].pc = IF observer[o].ns > maxNS THEN "swap" ELSE "done"]
    /\ UNCHANGED <<count, sumNS, maxNS>>

(* Faulty variant: the maximum is stored without comparing it again.        *)
StoreMax(o) ==
    /\ At(o, "swap")
    /\ maxNS' = observer[o].ns
    /\ Go(o, "done")
    /\ UNCHANGED <<count, sumNS>>

CompareAndSwap(o) ==
    /\ At(o, "swap")
    /\ IF maxNS = observer[o].current
       THEN maxNS' = observer[o].ns /\ Go(o, "done")
       ELSE UNCHANGED maxNS /\ Go(o, "load")
    /\ UNCHANGED <<count, sumNS>>

(* Faulty variant: the sum is added first, the count after it.              *)
ObserveSumFirst(o) ==
    \/ At(o, "start") /\ sumNS' = sumNS + observer[o].ns /\ Go(o, "sum") /\ UNCHANGED <<count, maxNS>>
    \/ At(o, "sum") /\ count' = count + 1 /\ Go(o, "load") /\ UNCHANGED <<sumNS, maxNS>>
    \/ LoadMax(o)
    \/ CompareAndSwap(o)

Observe(o) == AddCount(o) \/ AddSum(o) \/ LoadMax(o) \/ CompareAndSwap(o)

IncEventsQueued ==
    /\ eventsQueued < MaxQueued
    /\ eventsQueued' = eventsQueued + 1

-----------------------------------------------------------------------------
(* Prometheus and PrometheusWithOperationalMetrics, in the order of their   *)
(* loads; the rejection ratio loads eventsRejected twice.                   *)

Load(pc, field, value, next) ==
    /\ scrape.pc = pc
    /\ scrape' = [scrape EXCEPT ![field] = value, !.pc = next]

(* Faulty variant: the denominator of the ratio is loaded first.            *)
ScrapeDenominatorFirst(eventsRejected) ==
    \/ Load("idle", "sum", sumNS, "count")
    \/ Load("count", "count", count, "max")
    \/ Load("max", "max", maxNS, "rejected")
    \/ Load("rejected", "denominator", eventsQueued + eventsRejected, "queued")
    \/ Load("queued", "rejected", eventsRejected, "done")

Scrape(eventsRejected) ==
    \/ Load("idle", "sum", sumNS, "count")
    \/ Load("count", "count", count, "max")
    \/ Load("max", "max", maxNS, "rejected")
    \/ Load("rejected", "rejected", eventsRejected, "queued")
    \/ Load("queued", "denominator", eventsQueued, "denominator")
    \/ Load("denominator", "denominator", scrape.denominator + eventsRejected, "done")

ScrapeDone == scrape.pc = "done" /\ scrape' = NoScrape

-----------------------------------------------------------------------------
(***************************************************************************)
(* No concurrent observation is lost from the maximum: it is at least the  *)
(* duration of every finished one, and one that was really observed.       *)
(***************************************************************************)
MaxIsExact ==
    /\ \A o \in Observations : At(o, "done") => observer[o].ns <= maxNS
    /\ maxNS # 0 => \E o \in Observations : At(o, "done") /\ observer[o].ns = maxNS

(***************************************************************************)
(* A scrape may fall between any two steps of an observation, and the mean *)
(* computed from it never exceeds the longest possible duration: the sum   *)
(* it shows contains no observation that its count misses.                 *)
(***************************************************************************)
MeanNotOverstated == scrape.pc = "done" => scrape.sum <= scrape.count * Max(Durations)

(* The rejection ratio a scrape shows is at most one, whatever is rejected  *)
(* between its loads.                                                       *)
RatioAtMostOne == scrape.pc = "done" => scrape.rejected <= scrape.denominator
=============================================================================

------------------------ MODULE FairWebhookProcessor ------------------------
(***************************************************************************)
(* Progress of the service.  Every goroutine keeps running and every lease *)
(* keeps ageing, so each has weak fairness; crashes, lost connections and  *)
(* failing calls are not fair and stop after MaxFaults of them.            *)
(***************************************************************************)
EXTENDS RetryHistory

CONSTANT MaxFaults    \* bound: faults before the environment calms down

ASSUME FaultsAssumption == MaxFaults \in Nat

VARIABLE faults

fairVars == <<historyVars, faults>>

FairInit == HistoryInit /\ faults = 0

Steady(A) == A /\ Record(FALSE) /\ UNCHANGED faults

FairNext ==
    \/ Steady(Step)
    \/ /\ faults < MaxFaults
       /\ \/ Fault /\ Record(FALSE)
          \/ RetryFault /\ Record(TRUE)
       /\ faults' = faults + 1

Fairness ==
    /\ \A d \in Dispatchers : WF_fairVars(Steady(Dispatch(d)))
    /\ \A w \in Workers : WF_fairVars(Steady(Work(w)))
    /\ \A s \in Schedulers : WF_fairVars(Steady(AutoRetry(s)))
    /\ \A e \in Events :
          /\ WF_fairVars(Steady(DispatchLeaseExpires(e)))
          /\ WF_fairVars(Steady(ProcessingLeaseExpires(e)))
          /\ WF_fairVars(Steady(RetryDelayElapses(e)))

FairSpec == FairInit /\ [][FairNext]_fairVars /\ Fairness

-----------------------------------------------------------------------------
(***************************************************************************)
(* Every accepted event is eventually processed or failed: reservations of *)
(* dispatchers and workers that stopped are recovered, and deliveries sent *)
(* back while another worker holds the lease come round again.  Only an    *)
(* event whose replay overtook a dispatch may stay undecided.              *)
(***************************************************************************)
EventuallyDecided ==
    \A e \in Events : Unfinished(e) ~> events[e].status \in Final \/ overtaken[e]

(***************************************************************************)
(* The pipeline drains: no message is published or requeued for ever, and  *)
(* no outbox row stays open.                                               *)
(***************************************************************************)
EventuallyQuiet ==
    <>[] \A e \in Events : ready[e] = 0 /\ outbox[e].state # "pending"

(***************************************************************************)
(* Automatic retry reaches every failed event that has attempts left, also *)
(* when the scheduler claimed its dead letter before the worker had stored *)
(* the failed status, unless a scheduler stopped with the dead letter in   *)
(* its hand or the replay that lost a race recorded replayed_at on it.     *)
(***************************************************************************)
RetriedOrExhausted ==
    \A e \in Events :
        events[e].status = "failed" /\ deadLetters[e].attempts < RetryLimit
        ~> \/ events[e].status # "failed"
           \/ deadLetters[e].attempts = RetryLimit
           \/ dropped[e]
           \/ hidden[e]
=============================================================================

------------------------- MODULE DLQRetryScheduler --------------------------
(***************************************************************************)
(* dlq_retry.go: one scheduler goroutine per replica claims the dead       *)
(* letters that are due, replays them one after the other and reschedules  *)
(* those whose replay returned an error.  The claim counts the attempt and *)
(* clears next_retry_at before the replay is tried; nothing else marks the *)
(* dead letter as claimed.                                                 *)
(***************************************************************************)
EXTENDS ReplayDeadLetter

CONSTANT Schedulers    \* the replay clients that are retry schedulers

ASSUME SchedulersAssumption == Schedulers \subseteq Replayers

VARIABLE scheduler

RetryBatch == 10

SchedulerState == [pc : {"idle", "next", "replay", "reschedule"},
                   items : SUBSET Events,
                   event : Events \cup {NoEvent}]

SchedulerIdle == [pc |-> "idle", items |-> {}, event |-> NoEvent]

SchedulerTypeOK == scheduler \in [Schedulers -> SchedulerState]

SchedulerInit == scheduler = [s \in Schedulers |-> SchedulerIdle]

(* The claimed dead letters the scheduler has not finished with.            *)
Claims(s) == scheduler[s].items \cup ({scheduler[s].event} \ {NoEvent})

-----------------------------------------------------------------------------
ClaimDue(s, S) ==
    /\ scheduler[s].pc = "idle"
    /\ Cardinality(S) <= RetryBatch
    /\ ClaimRetryableDeadLetterDetails(S)
    /\ scheduler' = [scheduler EXCEPT ![s] =
          [pc |-> "next", items |-> S, event |-> NoEvent]]
    /\ UNCHANGED replayer

Take(s, e, pc) ==
    /\ scheduler[s].pc = "next"
    /\ e \in scheduler[s].items
    /\ scheduler' = [scheduler EXCEPT ![s] =
          [pc |-> pc, items |-> @.items \ {e}, event |-> e]]

(* The loop's continue, or its end.                                         *)
Settle(s) ==
    scheduler' = [scheduler EXCEPT ![s] =
        IF @.items = {} THEN SchedulerIdle
        ELSE [pc |-> "next", items |-> @.items, event |-> NoEvent]]

RetryItem(s, e) == Take(s, e, "replay") /\ ReplayRead(s, e)

(* ErrDeadLetterNotFailed: the event was replayed by someone else, or its   *)
(* worker has stored the dead letter and not yet the status.                *)
RetryRefused(s, e) ==
    /\ Take(s, e, "reschedule")
    /\ ~Replayable(e)
    /\ UNCHANGED <<storeVars, replayer>>

RetryMiss(s) == ReplayMiss(s) /\ UNCHANGED scheduler

RetryCommit(s) ==
    /\ ReplayCommit(s) \/ ReplayCommitMissed(s)
    /\ Settle(s)

Reschedule(s) ==
    /\ scheduler[s].pc = "reschedule"
    /\ RescheduleDeadLetterRetryWithDelay(scheduler[s].event)
    /\ Settle(s)
    /\ UNCHANGED replayer

(* The replay returns a database error or its context is cancelled: before  *)
(* the read, or after it with the transaction rolled back or, when only the *)
(* answer to the COMMIT is lost, committed.                                 *)
RetryError(s) ==
    \/ /\ \E e \in Events : Take(s, e, "reschedule")
       /\ UNCHANGED <<storeVars, replayer>>
    \/ /\ ReplayRollback(s) \/ ReplayCommit(s) \/ ReplayCommitMissed(s)
       /\ scheduler' = [scheduler EXCEPT ![s].pc = "reschedule"]

(* So does the rescheduling, which runs under the same context.             *)
RescheduleError(s) ==
    /\ scheduler[s].pc = "reschedule"
    /\ Settle(s)
    /\ UNCHANGED <<storeVars, replayer>>

SchedulerCrash(s) ==
    /\ scheduler[s].pc # "idle"
    /\ scheduler' = [scheduler EXCEPT ![s] = SchedulerIdle]
    /\ ReplayDone(s)
    /\ UNCHANGED storeVars

SchedulerStep(s) ==
    \/ \E S \in SUBSET Events : ClaimDue(s, S)
    \/ \E e \in Events : RetryItem(s, e) \/ RetryRefused(s, e)
    \/ RetryMiss(s)
    \/ RetryCommit(s)
    \/ Reschedule(s)

SchedulerFault(s) ==
    \/ RetryError(s)
    \/ RescheduleError(s)
    \/ SchedulerCrash(s)
=============================================================================

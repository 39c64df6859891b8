---------------------------- MODULE RetryHistory ----------------------------
(***************************************************************************)
(* The service with two history variables, which no action reads.          *)
(* dropped[e]: a scheduler claimed the dead letter of e and then stopped,  *)
(* or could not reschedule it, and since then nothing has set              *)
(* next_retry_at and the event was not requeued.  Dead letters older than  *)
(* the column start with next_retry_at NULL.                               *)
(* hidden[e]: a replay that requeued nothing recorded replayed_at over the *)
(* dead letter of a later failure, and since then that record was not      *)
(* cleared and the event was not requeued.                                 *)
(***************************************************************************)
EXTENDS WebhookProcessor

VARIABLES dropped, hidden

historyVars == <<vars, dropped, hidden>>

HistoryInit ==
    /\ Init
    /\ dropped = [e \in Events |-> e \in LegacyFailed]
    /\ hidden = [e \in Events |-> FALSE]

Requeued(e) == events[e].status = "failed" /\ events'[e].status = "queued"

RecordDropped(stopped) ==
    dropped' = [e \in Events |->
        /\ deadLetters'[e].retryAt = "none"
        /\ \/ dropped[e] /\ ~Requeued(e)
           \/ stopped /\ \E s \in Schedulers : e \in Claims(s) /\ e \notin Claims(s)']

RecordHidden ==
    hidden' = [e \in Events |->
        /\ deadLetters'[e].replayed
        /\ ~Requeued(e)
        /\ hidden[e] \/ ~deadLetters[e].replayed]

Record(stopped) == RecordDropped(stopped) /\ RecordHidden

HistoryNext ==
    \/ Step /\ Record(FALSE)
    \/ Fault /\ Record(FALSE)
    \/ RetryFault /\ Record(TRUE)

HistorySpec == HistoryInit /\ [][HistoryNext]_historyVars

-----------------------------------------------------------------------------
Scheduled(e) ==
    \/ deadLetters[e].retryAt # "none"
    \/ \E s \in Schedulers : e \in Claims(s)

(***************************************************************************)
(* Automatic retry forgets a failed event that has attempts left in two    *)
(* ways only: a scheduler stops between its claim and its rescheduling, or *)
(* a replay that lost the race to requeue the event commits after the next *)
(* failure (dlq_retry.go looks at no dead letter with replayed_at).        *)
(* Winning replays, the other schedulers and the claim that falls between  *)
(* SaveDeadLetter and MarkFailed never lose one.  Where processing leases  *)
(* are too short there is a third way, left out here: a stale worker that  *)
(* stores its failure after the event was replayed.                        *)
(***************************************************************************)
ForgottenOnlyIfLost ==
    \A e \in Events :
        events[e].status = "failed" /\ deadLetters[e].attempts < RetryLimit
        => IF deadLetters[e].replayed
           THEN ProcessingLeaseSuffices => hidden[e]
           ELSE Scheduled(e) \/ dropped[e]
=============================================================================

----------------------------- MODULE EventStore -----------------------------
(***************************************************************************)
(* The three PostgreSQL tables of event_store.go and the statements the    *)
(* service runs on them.  Every statement touches the rows of one event    *)
(* under a row lock, so each is one step.  A timestamp is kept only as     *)
(* far as some statement compares it: a reservation (dispatching_at,       *)
(* processing_started_at) is "live" until its lease has passed and then    *)
(* "expired"; next_retry_at is "due" or "later"; "none" is SQL's NULL.     *)
(***************************************************************************)
EXTENDS Models, Naturals, FiniteSets

CONSTANTS
    Dispatchers,     \* outbox dispatchers; also the dispatch tokens they draw
    NoToken,         \* dispatch_token IS NULL
    BatchSize,       \* OUTBOX_BATCH_SIZE
    RetryLimit,      \* DLQ_AUTO_RETRY_MAX_ATTEMPTS
    LegacyFailed     \* events that failed before the outbox table existed

ASSUME StoreAssumption ==
    /\ NoToken \notin Dispatchers
    /\ BatchSize \in Nat \ {0}
    /\ RetryLimit \in Nat
    /\ LegacyFailed \subseteq Events

VARIABLES
    events,          \* table events
    outbox,          \* table outbox (event_id is UNIQUE: one row per event)
    deadLetters      \* table dead_letters

storeVars == <<events, outbox, deadLetters>>

Statuses == {"absent", "queued", "processing", "processed", "failed"}
Final == {"processed", "failed"}
Leases == {"none", "live", "expired"}

EventRow == [status : Statuses, lease : Leases]
OutboxRow == [state : {"absent", "pending", "published"},
              token : Dispatchers \cup {NoToken},
              lease : Leases]
DeadLetterRow == [present : BOOLEAN, replayed : BOOLEAN,
                  retryAt : {"none", "due", "later"}, attempts : 0 .. RetryLimit]

StoreTypeOK ==
    /\ events \in [Events -> EventRow]
    /\ outbox \in [Events -> OutboxRow]
    /\ deadLetters \in [Events -> DeadLetterRow]

(***************************************************************************)
(* A fresh database, except for events that an earlier version of the      *)
(* service left failed: migration 1 gives an outbox row to the queued      *)
(* events only, and migration 5 adds next_retry_at as NULL.                *)
(***************************************************************************)
StoreInit ==
    /\ events = [e \in Events |->
          [status |-> IF e \in LegacyFailed THEN "failed" ELSE "absent",
           lease |-> "none"]]
    /\ outbox = [e \in Events |->
          [state |-> "absent", token |-> NoToken, lease |-> "none"]]
    /\ deadLetters = [e \in Events |->
          [present |-> e \in LegacyFailed, replayed |-> FALSE,
           retryAt |-> "none", attempts |-> 0]]

-----------------------------------------------------------------------------
(* Acceptance: the event and its outbox message in one transaction.        *)

PendingRow == [state |-> "pending", token |-> NoToken, lease |-> "none"]

SaveQueuedWithOutbox(e) ==
    /\ events[e].status = "absent"
    /\ events' = [events EXCEPT ![e] = [status |-> "queued", lease |-> "none"]]
    /\ outbox' = [outbox EXCEPT ![e] = PendingRow]
    /\ UNCHANGED deadLetters

-----------------------------------------------------------------------------
(* The outbox reservation.                                                 *)

(* Faulty variants: the lease, published_at or the recovery is forgotten.   *)
ClaimableIgnoringLease(e) == outbox[e].state = "pending"
ClaimableIgnoringPublished(e) == outbox[e].state # "absent" /\ outbox[e].lease # "live"
ClaimableNeverRecovered(e) == outbox[e].state = "pending" /\ outbox[e].lease = "none"

Claimable(e) == outbox[e].state = "pending" /\ outbox[e].lease # "live"

(* S is any set of claimable rows up to LIMIT: SKIP LOCKED passes over the  *)
(* rows another transaction holds, so a claim may return fewer.             *)
ClaimPendingOutbox(d, S) ==
    /\ S # {}
    /\ Cardinality(S) <= BatchSize
    /\ \A e \in S : Claimable(e)
    /\ outbox' = [e \in Events |->
          IF e \in S THEN [outbox[e] EXCEPT !.token = d, !.lease = "live"]
                     ELSE outbox[e]]
    /\ UNCHANGED <<events, deadLetters>>

(* Faulty variant: the dispatch token is not compared.                      *)
HoldsAnyReservation(d, e) == outbox[e].state = "pending"

HoldsReservation(d, e) == outbox[e].state = "pending" /\ outbox[e].token = d

SetPublished(e) ==
    /\ outbox' = [outbox EXCEPT ![e] =
          [state |-> "published", token |-> NoToken, lease |-> "none"]]
    /\ UNCHANGED <<events, deadLetters>>

(* Releases the reservation; attempts and last_error are only reported.     *)
MarkOutboxFailed(e) ==
    /\ outbox' = [outbox EXCEPT ![e] = PendingRow]
    /\ UNCHANGED <<events, deadLetters>>

-----------------------------------------------------------------------------
(* The processing claim.                                                   *)

(* Faulty variants: the lease is not looked at, or never recovered.         *)
ClaimableAnyLease(e) == events[e].status \in {"queued", "processing"}
ClaimableOnlyQueued(e) == events[e].status = "queued"

ClaimableForProcessing(e) ==
    \/ events[e].status = "queued"
    \/ events[e].status = "processing" /\ events[e].lease = "expired"

SetEvent(e, status, lease) ==
    /\ events' = [events EXCEPT ![e] = [status |-> status, lease |-> lease]]
    /\ UNCHANGED <<outbox, deadLetters>>

ClaimForProcessing(e) == SetEvent(e, "processing", "live")

(* Neither statement looks at the status it overwrites.                     *)
MarkProcessed(e) == SetEvent(e, "processed", "none")
MarkFailed(e) == SetEvent(e, "failed", "none")

-----------------------------------------------------------------------------
(* Dead letters.                                                           *)

(* Faulty variant: the upsert does not schedule the retry.                  *)
SaveDeadLetterUnscheduled(e) ==
    /\ deadLetters' = [deadLetters EXCEPT ![e].present = TRUE, ![e].replayed = FALSE]
    /\ UNCHANGED <<events, outbox>>

(* The upsert makes the row due and un-replayed; replay_attempts survives.  *)
SaveDeadLetter(e) ==
    /\ deadLetters' = [deadLetters EXCEPT ![e] =
          [present |-> TRUE, replayed |-> FALSE, retryAt |-> "due",
           attempts |-> @.attempts]]
    /\ UNCHANGED <<events, outbox>>

(* Reopening leaves dispatch_token and dispatching_at as they are; a row    *)
(* that does not exist is inserted.                                         *)
ReopenedRow(e) ==
    IF outbox[e].state = "absent" THEN PendingRow
                                  ELSE [outbox[e] EXCEPT !.state = "pending"]

ReplayWrites(e) ==
    /\ outbox' = [outbox EXCEPT ![e] = ReopenedRow(e)]
    /\ deadLetters' = [deadLetters EXCEPT ![e].replayed = TRUE]

(* Faulty variant: one attempt too many.                                    *)
RetryableOnceMore(e) ==
    /\ deadLetters[e].present
    /\ ~deadLetters[e].replayed
    /\ deadLetters[e].retryAt = "due"
    /\ deadLetters[e].attempts <= RetryLimit

Retryable(e) ==
    /\ deadLetters[e].present
    /\ ~deadLetters[e].replayed
    /\ deadLetters[e].retryAt = "due"
    /\ deadLetters[e].attempts < RetryLimit

ClaimRetryableDeadLetterDetails(S) ==
    /\ S # {}
    /\ \A e \in S : Retryable(e)
    /\ deadLetters' = [e \in Events |->
          IF e \in S
          THEN [deadLetters[e] EXCEPT !.attempts = deadLetters[e].attempts + 1,
                                      !.retryAt = "none"]
          ELSE deadLetters[e]]
    /\ UNCHANGED <<events, outbox>>

(* Faulty variant: next_retry_at stays NULL.                                *)
RescheduleForgotten(e) == UNCHANGED storeVars

RescheduleDeadLetterRetryWithDelay(e) ==
    /\ deadLetters' = [deadLetters EXCEPT ![e].retryAt =
          IF deadLetters[e].present /\ ~deadLetters[e].replayed THEN "later" ELSE @]
    /\ UNCHANGED <<events, outbox>>
=============================================================================

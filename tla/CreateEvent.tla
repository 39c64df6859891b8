---------------------------- MODULE CreateEvent -----------------------------
(***************************************************************************)
(* handlers.go, createEventHandler, and the transaction of                 *)
(* SaveQueuedWithOutbox, statement by statement.  A row that was inserted  *)
(* and not committed is seen by nobody, but makes an INSERT of the same id *)
(* wait.  A committed row remembers the request that wrote it, standing    *)
(* for the event's type and payload.  A request that is cancelled while it *)
(* commits is answered, and PostgreSQL decides about its COMMIT later.     *)
(***************************************************************************)
EXTENDS Models, Naturals, FiniteSets

CONSTANTS
    Requests,     \* POST /events requests, to any replica
    Local,        \* those to the replica whose metrics are kept
    NoRequest

ASSUME RequestsAssumption ==
    /\ NoRequest \notin Requests
    /\ Local \subseteq Requests
    /\ IsFiniteSet(Local)

VARIABLES
    eventRows,         \* table events, as committed
    outboxRows,        \* table outbox, as committed
    inDoubt,           \* requests that no longer wait for their COMMIT
    request,
    eventsRejected     \* metric

tables == <<eventRows, outboxRows, inDoubt>>
createVars == <<tables, request, eventsRejected>>

RequestState == [pc : {"received", "inserted", "complete", "committed",
                       "conflict", "error", "answered", "cut"},
                 event : Events,
                 answer : {0, 202, 400, 409, 500}]

CreateTypeOK ==
    /\ eventRows \in [Events -> Requests \cup {NoRequest}]
    /\ outboxRows \in [Events -> Requests \cup {NoRequest}]
    /\ inDoubt \subseteq Requests
    /\ request \in [Requests -> RequestState]
    /\ eventsRejected \in 0 .. Cardinality(Local)

CreateInit ==
    /\ eventRows = [e \in Events |-> NoRequest]
    /\ outboxRows = [e \in Events |-> NoRequest]
    /\ inDoubt = {}
    /\ request \in [Requests -> [pc : {"received"}, event : Events, answer : {0}]]
    /\ eventsRejected = 0

Event(r) == request[r].event

(* A transaction that has inserted its row is neither committed nor rolled  *)
(* back.                                                                    *)
InTransaction(r) == request[r].pc \in {"inserted", "complete"} \/ r \in inDoubt

RowLocked(e) == \E q \in Requests : InTransaction(q) /\ Event(q) = e

Step(r, from, to) ==
    /\ request[r].pc = from
    /\ request' = [request EXCEPT ![r].pc = to]

-----------------------------------------------------------------------------
(* Faulty variants: each statement commits by itself; an existing row is    *)
(* overwritten.                                                             *)
InsertEventAutocommit(r) ==
    /\ Step(r, "received", "inserted")
    /\ ~RowLocked(Event(r))
    /\ eventRows[Event(r)] = NoRequest
    /\ eventRows' = [eventRows EXCEPT ![Event(r)] = r]
    /\ UNCHANGED <<outboxRows, inDoubt, eventsRejected>>

InsertOrReplaceEvent(r) ==
    /\ Step(r, "received", "inserted")
    /\ ~RowLocked(Event(r))
    /\ UNCHANGED <<tables, eventsRejected>>

InsertEvent(r) ==
    /\ Step(r, "received", "inserted")
    /\ ~RowLocked(Event(r))
    /\ eventRows[Event(r)] = NoRequest
    /\ UNCHANGED <<tables, eventsRejected>>

(* Faulty variant: the answer does not wait for the other transaction.      *)
ConflictUnchecked(r) ==
    /\ Step(r, "received", "conflict")
    /\ RowLocked(Event(r)) \/ eventRows[Event(r)] # NoRequest
    /\ UNCHANGED <<tables, eventsRejected>>

(* ON CONFLICT DO NOTHING affects no row: ErrEventAlreadyExists.            *)
EventAlreadyExists(r) ==
    /\ Step(r, "received", "conflict")
    /\ ~RowLocked(Event(r))
    /\ eventRows[Event(r)] # NoRequest
    /\ UNCHANGED <<tables, eventsRejected>>

InsertOutbox(r) ==
    /\ Step(r, "inserted", "complete")
    /\ UNCHANGED <<tables, eventsRejected>>

Store(r) ==
    /\ eventRows' = [eventRows EXCEPT ![Event(r)] = r]
    /\ outboxRows' = [outboxRows EXCEPT ![Event(r)] = r]

(* The second outcome is a COMMIT whose answer does not arrive, or is not   *)
(* waited for.                                                              *)
Commit(r) ==
    /\ \/ Step(r, "complete", "committed") /\ Store(r) /\ UNCHANGED inDoubt
       \/ /\ Step(r, "complete", "error")
          /\ inDoubt' = inDoubt \cup {r}
          /\ UNCHANGED <<eventRows, outboxRows>>
    /\ UNCHANGED eventsRejected

(* PostgreSQL: the COMMIT in doubt is done, or its transaction is undone.   *)
CommitSettles(r) ==
    /\ r \in inDoubt
    /\ inDoubt' = inDoubt \ {r}
    /\ Store(r) \/ UNCHANGED <<eventRows, outboxRows>>
    /\ UNCHANGED <<request, eventsRejected>>

(* A statement fails or the request is cancelled: the deferred Rollback.    *)
Rollback(r) ==
    /\ \E pc \in {"received", "inserted", "complete"} : Step(r, pc, "error")
    /\ UNCHANGED <<tables, eventsRejected>>

(* An undecodable body, or no id or type, is rejected before the store is   *)
(* called.                                                                  *)
Outcome(r) ==
    CASE request[r].pc = "committed" -> {202}
      [] request[r].pc = "conflict" -> {409}
      [] request[r].pc = "error" -> {500}
      [] request[r].pc = "received" -> {400}
      [] OTHER -> {}

(* Faulty variant: a duplicate is counted on its own branch and again.      *)
AnswerCountedTwice(r) ==
    \E status \in Outcome(r) :
        /\ request' = [request EXCEPT ![r].pc = "answered", ![r].answer = status]
        /\ eventsRejected' = eventsRejected + CASE r \notin Local \/ status = 202 -> 0
                                                [] status = 409 -> 2
                                                [] OTHER -> 1
        /\ UNCHANGED tables

Answer(r) ==
    \E status \in Outcome(r) :
        /\ request' = [request EXCEPT ![r].pc = "answered", ![r].answer = status]
        /\ eventsRejected' = eventsRejected + IF r \in Local /\ status # 202 THEN 1 ELSE 0
        /\ UNCHANGED tables

(* The other replica stops: nothing is answered, and a transaction rolls    *)
(* back, or was committed just before.                                      *)
Cut(r) ==
    /\ r \notin Local
    /\ request[r].pc \notin {"answered", "cut"}
    /\ request' = [request EXCEPT ![r].pc = "cut"]
    /\ UNCHANGED <<tables, eventsRejected>>

CreateStep(r) ==
    \/ InsertEvent(r)
    \/ EventAlreadyExists(r)
    \/ InsertOutbox(r)
    \/ Commit(r)
    \/ CommitSettles(r)
    \/ Rollback(r)
    \/ Answer(r)
    \/ Cut(r)

-----------------------------------------------------------------------------
(***************************************************************************)
(* docs/architecture.md: the event and its outbox message are committed    *)
(* together or not at all, whatever fails or stops in between.             *)
(***************************************************************************)
BothOrNeither == eventRows = outboxRows

(***************************************************************************)
(* Of any number of concurrent and repeated submissions of one id, the one *)
(* answered 202 is the one that is stored, so no second one is accepted    *)
(* and none overwrites it.                                                 *)
(***************************************************************************)
AcceptedIsStored ==
    \A r \in Requests : request[r].answer = 202 => eventRows[Event(r)] = r

(***************************************************************************)
(* A client that is told its id is a duplicate may stop: some submission   *)
(* of that id is committed, also when the answer to the client that made   *)
(* it was 500 or got lost.                                                 *)
(***************************************************************************)
DuplicateIsStored ==
    \A r \in Requests : request[r].answer = 409 => eventRows[Event(r)] # NoRequest

Promise == INSTANCE Acceptance
    WITH id <- [r \in Requests |-> request[r].event],
         stored <- eventRows,
         answer <- [r \in Requests |-> request[r].answer]

(***************************************************************************)
(* The statements of concurrent transactions, their rollbacks and the      *)
(* COMMITs in doubt look to clients like single steps: an answer 202 or    *)
(* 409 tells for good whose submission is stored, and one that is answered *)
(* 400 or 409 stores nothing afterwards.  After a 500 it may still be      *)
(* stored, also later: that client is told nothing.                        *)
(***************************************************************************)
ImplementsAcceptance == Promise!AcceptanceSpec
=============================================================================

-------------------------- MODULE ReplayDeadLetter --------------------------
(***************************************************************************)
(* The transaction ReplayDeadLetter of event_store.go, run by the HTTP     *)
(* handler, by the replay-dead-letter command and by the retry scheduler.  *)
(* It runs at READ COMMITTED and reads the status without a lock, so other *)
(* transactions commit between its read and its writes.  Its writes do not *)
(* depend on what they overwrite and their rows stay locked to the commit, *)
(* so they take effect together, at the commit.  The one write with a      *)
(* condition is the UPDATE of events (status = failed): when it matches,   *)
(* the row lock keeps the status failed up to the commit; when it does     *)
(* not, nobody looks, and the transaction goes on without that write.      *)
(***************************************************************************)
EXTENDS EventStore

CONSTANT Replayers    \* the clients that may run a replay

VARIABLE replayer

ReplayState == [pc : {"idle", "found", "missed"}, event : Events \cup {NoEvent}]

ReplayIdle == [pc |-> "idle", event |-> NoEvent]

ReplayTypeOK == replayer \in [Replayers -> ReplayState]

ReplayInit == replayer = [r \in Replayers |-> ReplayIdle]

(* Faulty variant: the status is not checked.                               *)
ReplayableAnyStatus(e) == deadLetters[e].present

Replayable(e) == deadLetters[e].present /\ events[e].status = "failed"

(* The SELECT.  ErrDeadLetterNotFound and ErrDeadLetterNotFailed change     *)
(* nothing.                                                                 *)
ReplayRead(r, e) ==
    /\ replayer[r].pc = "idle"
    /\ Replayable(e)
    /\ replayer' = [replayer EXCEPT ![r] = [pc |-> "found", event |-> e]]
    /\ UNCHANGED storeVars

ReplayDone(r) == replayer' = [replayer EXCEPT ![r] = ReplayIdle]

(* Faulty variant: the UPDATE of events has no condition on the status.     *)
ReplayCommitAnyStatus(r) ==
    LET e == replayer[r].event IN
    /\ replayer[r].pc = "found"
    /\ events' = [events EXCEPT ![e] = [status |-> "queued", lease |-> "none"]]
    /\ ReplayWrites(e)
    /\ ReplayDone(r)

ReplayCommit(r) ==
    LET e == replayer[r].event IN
    /\ replayer[r].pc = "found"
    /\ events[e].status = "failed"
    /\ events' = [events EXCEPT ![e] = [status |-> "queued", lease |-> "none"]]
    /\ ReplayWrites(e)
    /\ ReplayDone(r)

(* The UPDATE of events matches no row.                                     *)
ReplayMiss(r) ==
    /\ replayer[r].pc = "found"
    /\ events[replayer[r].event].status # "failed"
    /\ replayer' = [replayer EXCEPT ![r].pc = "missed"]
    /\ UNCHANGED storeVars

ReplayCommitMissed(r) ==
    /\ replayer[r].pc = "missed"
    /\ UNCHANGED events
    /\ ReplayWrites(replayer[r].event)
    /\ ReplayDone(r)

(* An error, a cancelled request or a crash rolls the transaction back.     *)
ReplayRollback(r) ==
    /\ replayer[r].pc # "idle"
    /\ ReplayDone(r)
    /\ UNCHANGED storeVars

ReplayStep(r) ==
    \/ \E e \in Events : ReplayRead(r, e)
    \/ ReplayCommit(r)
    \/ ReplayMiss(r)
    \/ ReplayCommitMissed(r)
=============================================================================

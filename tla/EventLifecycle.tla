--------------------------- MODULE EventLifecycle ---------------------------
(***************************************************************************)
(* What the service promises about the status of an event, whatever the    *)
(* number of copies, replicas, crashes and replays: it is accepted once,   *)
(* run under one claim at a time, ends processed or failed, and leaves     *)
(* failed only by a replay.  Processed is for ever.                        *)
(***************************************************************************)
CONSTANTS Events, LegacyFailed

VARIABLE status

LifecycleInit ==
    status = [e \in Events |-> IF e \in LegacyFailed THEN "failed" ELSE "absent"]

Move(e, from, to) ==
    /\ status[e] = from
    /\ status' = [status EXCEPT ![e] = to]

Accept(e) == Move(e, "absent", "queued")
Start(e) == Move(e, "queued", "processing")
Succeed(e) == Move(e, "processing", "processed")
Fail(e) == Move(e, "processing", "failed")
Replay(e) == Move(e, "failed", "queued")

LifecycleNext ==
    \E e \in Events : Accept(e) \/ Start(e) \/ Succeed(e) \/ Fail(e) \/ Replay(e)

LifecycleSpec == LifecycleInit /\ [][LifecycleNext]_status
=============================================================================

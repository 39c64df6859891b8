---------------------------- MODULE LeaseTiming -----------------------------
(***************************************************************************)
(* One row and the lease on it, with a clock: an event under               *)
(* PROCESSING_LEASE_SECONDS, or the last message of a batch under          *)
(* OUTBOX_DISPATCH_LEASE_SECONDS.  The claim reads the clock before its    *)
(* UPDATE, the lease counts from that reading and is never renewed.  Which *)
(* configurations make the lease long enough is what the rest of the       *)
(* project assumes as ...LeaseSuffices.  Replicas share one clock.         *)
(***************************************************************************)
EXTENDS Naturals, Sequences

CONSTANTS
    Holders,        \* workers or dispatchers
    NoHolder,
    Leases, ClaimTimes, StoreTimes,       \* of both kinds
    Retries, Backoffs, AttemptTimes,      \* of a worker
    BatchSizes, PublishTimes              \* of a dispatcher

ASSUME LeaseTimingAssumption ==
    /\ NoHolder \notin Holders
    /\ Leases \subseteq Nat \ {0} /\ ClaimTimes \subseteq Nat /\ StoreTimes \subseteq Nat
    /\ Retries \subseteq Nat /\ Backoffs \subseteq Nat \ {0} /\ AttemptTimes \subseteq Nat
    /\ BatchSizes \subseteq Nat \ {0} /\ PublishTimes \subseteq Nat

VARIABLES
    config,     \* what LoadConfig read, and how long calls take at most
    row,        \* state, owner, and the time since the clock reading of its claim
    holder      \* phase 0 is idle, phase 1 the claim; elapsed in the phase, and since the reading

leaseVars == <<config, row, holder>>

ProcessingConfigs ==
    [kind : {"processing"}, lease : Leases, claim : ClaimTimes, store : StoreTimes,
     retries : Retries, backoff : Backoffs, attempt : AttemptTimes]

DispatchConfigs ==
    [kind : {"dispatch"}, lease : Leases, claim : ClaimTimes, store : StoreTimes,
     batch : BatchSizes, publish : PublishTimes]

RetryBackoff(c, attempt) == c.backoff * attempt

(* The phases of the work, with the shortest and longest time of each: the  *)
(* attempts with the pauses between them, SaveDeadLetter and the final      *)
(* status; or the publication and the marking of one message after another. *)
Phases ==
    LET Call(most) == [min |-> 0, max |-> most]
        Pause(i) == [min |-> RetryBackoff(config, i), max |-> RetryBackoff(config, i)]
    IN  <<Call(config.claim)>> \o
        IF config.kind = "processing"
        THEN [i \in 1 .. 2 * config.retries + 3 |->
                IF i > 2 * config.retries + 1 THEN Call(config.store)
                ELSE IF i % 2 = 1 THEN Call(config.attempt) ELSE Pause(i \div 2)]
        ELSE [i \in 1 .. 2 * config.batch |->
                Call(IF i % 2 = 1 THEN config.publish ELSE config.store)]

Idle == [phase |-> 0, elapsed |-> 0, clock |-> 0]

Working(h) == holder[h].phase > 1

LeaseInit ==
    /\ config \in ProcessingConfigs \cup DispatchConfigs
    /\ row = [state |-> "free", owner |-> NoHolder, age |-> 0]
    /\ holder = [h \in Holders |-> Idle]

-----------------------------------------------------------------------------
(* now := time.Now()                                                        *)
ReadClock(h) ==
    /\ holder[h].phase = 0
    /\ row.state # "final"
    /\ holder' = [holder EXCEPT ![h] = [Idle EXCEPT !.phase = 1]]
    /\ UNCHANGED <<config, row>>

(* Faulty variant: one unit too early.                                      *)
ExpiredOneEarly(h) == row.age + 1 >= config.lease + holder[h].clock

(* started <= now - lease, at the reading of h: a row stamped after that    *)
(* reading is not expired.                                                  *)
Expired(h) == row.age >= config.lease + holder[h].clock

Claim(h) ==
    /\ holder[h].phase = 1
    /\ row.state = "free" \/ (row.state = "reserved" /\ Expired(h))
    /\ row' = [state |-> "reserved", owner |-> h, age |-> holder[h].clock]
    /\ holder' = [holder EXCEPT ![h].phase = 2, ![h].elapsed = 0]
    /\ UNCHANGED config

NoClaim(h) ==
    /\ holder[h].phase = 1
    /\ row.state = "final" \/ (row.state = "reserved" /\ ~Expired(h))
    /\ holder' = [holder EXCEPT ![h] = Idle]
    /\ UNCHANGED <<config, row>>

NextPhase(h) ==
    /\ Working(h)
    /\ holder[h].phase < Len(Phases)
    /\ holder[h].elapsed >= Phases[holder[h].phase].min
    /\ holder' = [holder EXCEPT ![h].phase = @ + 1, ![h].elapsed = 0]
    /\ UNCHANGED <<config, row>>

(* An attempt succeeds: MarkProcessed is all that is left.                  *)
Succeed(h) ==
    /\ config.kind = "processing"
    /\ Working(h)
    /\ holder[h].phase % 2 = 0 /\ holder[h].phase <= Len(Phases) - 2
    /\ holder' = [holder EXCEPT ![h].phase = Len(Phases), ![h].elapsed = 0]
    /\ UNCHANGED <<config, row>>

(* The last store call takes effect.  An event's status is stored whoever   *)
(* holds it; an outbox row is marked or released only under its token.      *)
Finish(h) ==
    /\ Working(h)
    /\ holder[h].phase = Len(Phases)
    /\ \/ config.kind = "processing" /\ row' = [row EXCEPT !.state = "final"]
       \/ /\ config.kind = "dispatch" /\ row.owner = h
          /\ \E s \in {"final", "free"} : row' = [row EXCEPT !.state = s]
       \/ config.kind = "dispatch" /\ row.owner # h /\ UNCHANGED row
    /\ holder' = [holder EXCEPT ![h] = Idle]
    /\ UNCHANGED config

(* A crash, a failing store call, a batch left early: the lease remains.    *)
Abandon(h) ==
    /\ holder[h].phase > 0
    /\ holder' = [holder EXCEPT ![h] = Idle]
    /\ UNCHANGED <<config, row>>

(* Ages beyond a lease and a claim are all alike.                           *)
Tick ==
    /\ row.state # "final"
    /\ \A h \in Holders :
          holder[h].phase > 0 => holder[h].elapsed < Phases[holder[h].phase].max
    /\ row' = [row EXCEPT !.age = IF @ < config.lease + config.claim THEN @ + 1 ELSE @]
    /\ holder' = [h \in Holders |->
          CASE holder[h].phase = 0 -> holder[h]
            [] holder[h].phase = 1 -> [holder[h] EXCEPT !.elapsed = @ + 1, !.clock = @ + 1]
            [] OTHER -> [holder[h] EXCEPT !.elapsed = @ + 1]]
    /\ UNCHANGED config

LeaseStep(h) ==
    \/ ReadClock(h)
    \/ Claim(h)
    \/ NoClaim(h)
    \/ NextPhase(h)
    \/ Succeed(h)
    \/ Finish(h)
    \/ Abandon(h)

LeaseNext == Tick \/ \E h \in Holders : LeaseStep(h)

-----------------------------------------------------------------------------
(* The longest time from a claim's clock reading to the end of its last     *)
(* store call.                                                              *)
WorstCase ==
    config.claim +
        IF config.kind = "processing"
        THEN (config.retries + 1) * config.attempt
             + (config.backoff * config.retries * (config.retries + 1)) \div 2
             + 2 * config.store
        ELSE config.batch * (config.publish + config.store)

(***************************************************************************)
(* A lease longer than the claim, all attempts, all pauses between them    *)
(* and the two store calls after the last (or the claim and, for every     *)
(* message of the batch, its publication and its marking) never passes     *)
(* under running work: whoever works on a row, storing the result          *)
(* included, owns it and its lease has not expired.  A lease equal to that *)
(* time does not suffice.                                                  *)
(***************************************************************************)
LeaseCovers ==
    config.lease > WorstCase =>
        \A h \in Holders : Working(h) =>
            row.state = "reserved" /\ row.owner = h /\ row.age < config.lease
=============================================================================

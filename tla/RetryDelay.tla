----------------------------- MODULE RetryDelay -----------------------------
(***************************************************************************)
(* dlq_retry.go, retryDelay: the pause before a dead letter that could not *)
(* be replayed is tried again, over the attempts of one dead letter.       *)
(***************************************************************************)
EXTENDS Naturals

CONSTANTS
    Intervals,      \* DLQ_AUTO_RETRY_INTERVAL_SECONDS, any positive value
    Cap,            \* 24 hours, in the unit of the intervals
    MaxAttempts     \* bound: attempts of a dead letter

ASSUME RetryDelayAssumption ==
    /\ Intervals \subseteq Nat \ {0}
    /\ Cap \in Nat \ {0}
    /\ MaxAttempts \in Nat

(* Powers of two, in a form whose recursion a proof can unfold.             *)
TwoTo[n \in Nat] == IF n = 0 THEN 1 ELSE 2 * TwoTo[n - 1]

ASSUME TwoToIsExponentiation == \A n \in 0 .. MaxAttempts : TwoTo[n] = 2 ^ n

VARIABLES interval, attempt, delay

delayVars == <<interval, attempt, delay>>

DelayInit == interval \in Intervals /\ attempt = 0 /\ delay = 0

(* The loop after the steps below the attempt; a capped one has returned.   *)
RetryLoop[step \in Nat] ==
    IF step <= 1 THEN [base |-> interval, capped |-> FALSE]
    ELSE LET before == RetryLoop[step - 1]
         IN  IF before.capped \/ 2 * before.base >= Cap THEN [base |-> Cap, capped |-> TRUE]
             ELSE [base |-> 2 * before.base, capped |-> FALSE]

(* Faulty variant: jitter on top of the cap.                                *)
JitterOnCap(loop) == 0 .. loop.base \div 4

Jitter(loop) == IF loop.capped THEN {0} ELSE 0 .. loop.base \div 4

(* Faulty variant: the delay is drawn from the whole range below the base.  *)
ReplayFailsFullJitter ==
    /\ attempt < MaxAttempts
    /\ attempt' = attempt + 1
    /\ delay' \in 0 .. RetryLoop[attempt + 1].base
    /\ UNCHANGED interval

ReplayFails ==
    /\ attempt < MaxAttempts
    /\ attempt' = attempt + 1
    /\ \E jitter \in Jitter(RetryLoop[attempt + 1]) :
          delay' = RetryLoop[attempt + 1].base + jitter
    /\ UNCHANGED interval

DelayNext == ReplayFails

-----------------------------------------------------------------------------
(***************************************************************************)
(* The delay in closed form: the interval doubled for every attempt before *)
(* this one plus at most a quarter, or exactly the cap once a doubling     *)
(* reaches it.  The loop's early return skips the jitter, and an interval  *)
(* above the cap is used as it is on the first attempt.                    *)
(***************************************************************************)
DelayMatches ==
    attempt > 0 =>
        LET base == interval * TwoTo[attempt - 1]
        IN  IF attempt > 1 /\ base >= Cap THEN delay = Cap
            ELSE base <= delay /\ delay <= base + base \div 4

(***************************************************************************)
(* From one attempt to the next the delay never shrinks, jitter included,  *)
(* but for the step onto the cap, where a delay with jitter may lie above. *)
(***************************************************************************)
BackoffGrows == [][delay' >= delay \/ delay' = Cap]_delayVars
=============================================================================

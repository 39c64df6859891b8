------------------------------- MODULE Timing -------------------------------
(***************************************************************************)
(* The two clocks of the service, the leases and the retry delay.  They    *)
(* have no state in common; a behaviour runs one of them.                  *)
(***************************************************************************)
EXTENDS LeaseTiming, RetryDelay

CONSTANT NoConfig

vars == <<leaseVars, delayVars>>

Init ==
    \/ LeaseInit /\ interval = 0 /\ attempt = 0 /\ delay = 0
    \/ DelayInit /\ config = NoConfig /\ row = NoConfig /\ holder = NoConfig

Next ==
    \/ config # NoConfig /\ LeaseNext /\ UNCHANGED delayVars
    \/ config = NoConfig /\ DelayNext /\ UNCHANGED leaseVars

Spec == Init /\ [][Next]_vars

(* LeaseCovers, of the behaviours with a lease.                             *)
LeasesCover == config # NoConfig => LeaseCovers
=============================================================================

----------------------------- MODULE Acceptance -----------------------------
(***************************************************************************)
(* What an answer of POST /events means, as if a submission were stored in *)
(* one step: 202, this one is stored; 409, another one of its id is; 400,  *)
(* this one is not and never will be; 500, nothing: it may be stored, now  *)
(* or later.  What is stored stays.  The service model accepts an event in *)
(* such a step.                                                            *)
(***************************************************************************)
CONSTANTS Events, Requests, NoRequest

VARIABLES
    id,         \* the id each request submits
    stored,     \* the request stored under each id
    answer      \* the status each request was answered, or 0

acceptanceVars == <<id, stored, answer>>

AcceptanceInit ==
    /\ id \in [Requests -> Events]
    /\ stored = [e \in Events |-> NoRequest]
    /\ answer = [r \in Requests |-> 0]

Store(r) ==
    /\ answer[r] \in {0, 500}
    /\ stored[id[r]] = NoRequest
    /\ stored' = [stored EXCEPT ![id[r]] = r]
    /\ UNCHANGED <<id, answer>>

Reply(r, status) ==
    /\ answer[r] = 0
    /\ status = 202 => stored[id[r]] = r
    /\ status = 409 => stored[id[r]] \notin {r, NoRequest}
    /\ status = 400 => stored[id[r]] # r
    /\ answer' = [answer EXCEPT ![r] = status]
    /\ UNCHANGED <<id, stored>>

AcceptanceNext ==
    \E r \in Requests : Store(r) \/ \E status \in {202, 400, 409, 500} : Reply(r, status)

AcceptanceSpec == AcceptanceInit /\ [][AcceptanceNext]_acceptanceVars
=============================================================================

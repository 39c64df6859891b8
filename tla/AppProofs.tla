----------------------------- MODULE AppProofs ------------------------------
(***************************************************************************)
(* Acceptance and metrics, for any number of concurrent requests,          *)
(* observations and publications.  createEventHandler implements           *)
(* Acceptance.                                                             *)
(***************************************************************************)
EXTENDS App, FiniteSetTheorems, TLAPS

-----------------------------------------------------------------------------
(* Acceptance.                                                              *)

(* What is known of a request between two of its statements.                *)
Progress(r) ==
    /\ request[r].pc = "committed" => eventRows[Event(r)] = r
    /\ request[r].pc = "conflict" => eventRows[Event(r)] # NoRequest
    /\ InTransaction(r) => eventRows[Event(r)] = NoRequest
    /\ request[r].pc # "answered" => request[r].answer = 0
    /\ r \in inDoubt => /\ request[r].pc \in {"error", "answered", "cut"}
                        /\ request[r].answer \in {0, 500}

(* The unique index admits one transaction per id.                          *)
OneTransaction ==
    \A q, r \in Requests :
        InTransaction(q) /\ InTransaction(r) /\ Event(q) = Event(r) => q = r

CreateTypes ==
    /\ eventRows \in [Events -> Requests \cup {NoRequest}]
    /\ inDoubt \subseteq Requests
    /\ request \in [Requests -> RequestState]

AInv ==
    /\ CreateTypes
    /\ BothOrNeither
    /\ \A r \in Requests : Progress(r)
    /\ OneTransaction
    /\ AcceptedIsStored
    /\ DuplicateIsStored

(* Nothing is stored and nothing answered initially.                        *)
LEMMA InitAccept == CreateInit => AInv
<1> SUFFICES ASSUME CreateInit PROVE AInv
  OBVIOUS
<1>1. \A r \in Requests : /\ request[r] \in RequestState
                          /\ request[r].pc = "received" /\ request[r].answer = 0
  BY DEF CreateInit, RequestState
<1>2. CreateTypes /\ BothOrNeither
  BY <1>1 DEF CreateInit, CreateTypes, BothOrNeither
<1>3. \A r \in Requests : Progress(r)
  BY <1>1 DEF CreateInit, Progress, InTransaction
<1>4. OneTransaction /\ AcceptedIsStored /\ DuplicateIsStored
  BY <1>1 DEF CreateInit, OneTransaction, InTransaction, AcceptedIsStored, DuplicateIsStored
<1> QED
  BY <1>2, <1>3, <1>4 DEF AInv

(* A step of a request, seen from the requests: one moves.                  *)
LEMMA StepMoves ==
    ASSUME CreateTypes, NEW r \in Requests, NEW from, NEW to, Step(r, from, to),
           to \in {"inserted", "complete", "committed", "conflict", "error"}
    PROVE  /\ request' \in [Requests -> RequestState]
           /\ request[r].pc = from /\ request'[r].pc = to
           /\ request'[r].answer = request[r].answer
           /\ \A q \in Requests : Event(q)' = Event(q)
           /\ \A q \in Requests : q # r => request'[q] = request[q]
<1>1. request[r] \in RequestState /\ request' = [request EXCEPT ![r] = [request[r] EXCEPT !.pc = to]]
  BY DEF CreateTypes, Step
<1>2. [request[r] EXCEPT !.pc = to] \in RequestState
  BY <1>1 DEF RequestState
<1> QED
  BY <1>1, <1>2 DEF CreateTypes, Step, Event, RequestState

(* A step that writes no row and moves one request to pc.                   *)
LEMMA StatementKeeps ==
    ASSUME AInv, NEW r \in Requests, NEW from, NEW to, Step(r, from, to),
           from \in {"received", "inserted", "complete"},
           to \in {"inserted", "complete", "conflict", "error"},
           UNCHANGED tables,
           to = "conflict" => eventRows[Event(r)] # NoRequest,
           to \in {"inserted", "complete"} =>
              /\ eventRows[Event(r)] = NoRequest
              /\ InTransaction(r) \/ ~RowLocked(Event(r))
    PROVE  AInv'
<1>m. /\ request' \in [Requests -> RequestState]
      /\ request[r].pc = from /\ request'[r].pc = to
      /\ request'[r].answer = request[r].answer
      /\ \A q \in Requests : Event(q)' = Event(q)
      /\ \A q \in Requests : q # r => request'[q] = request[q]
  BY StepMoves DEF AInv
<1>u. UNCHANGED <<eventRows, outboxRows, inDoubt>> /\ r \notin inDoubt
  BY <1>m DEF tables, AInv, Progress
<1>1. CreateTypes' /\ BothOrNeither'
  BY <1>m, <1>u DEF AInv, CreateTypes, BothOrNeither
<1>2. \A q \in Requests : Progress(q)'
  BY <1>m, <1>u DEF AInv, Progress, InTransaction
<1>3. OneTransaction'
  BY <1>m, <1>u DEF AInv, OneTransaction, InTransaction, RowLocked
<1>4. AcceptedIsStored' /\ DuplicateIsStored'
  BY <1>m, <1>u DEF AInv, AcceptedIsStored, DuplicateIsStored
<1> QED
  BY <1>1, <1>2, <1>3, <1>4 DEF AInv

(* A transaction writes a row that was not there, and ends.                 *)
LEMMA StoreKeeps ==
    ASSUME AInv, NEW r \in Requests, InTransaction(r), Store(r), inDoubt' = inDoubt \ {r},
           request' \in [Requests -> RequestState],
           request'[r].answer = request[r].answer,
           \A q \in Requests : Event(q)' = Event(q),
           \A q \in Requests : q # r => request'[q] = request[q],
           \/ request'[r].pc = "committed" /\ request[r].pc = "complete"
           \/ request'[r].pc = request[r].pc /\ r \in inDoubt
    PROVE  AInv'
<1>t. Event(r) \in Events /\ eventRows \in [Events -> Requests \cup {NoRequest}]
      /\ \A q \in Requests : Event(q) \in Events
  BY DEF AInv, CreateTypes, RequestState, Event
<1>e. /\ eventRows[Event(r)] = NoRequest
      /\ eventRows'[Event(r)] = r
      /\ \A e \in Events : e # Event(r) => eventRows'[e] = eventRows[e]
  BY <1>t DEF AInv, Progress, Store
<1>p. Progress(r)
  BY DEF AInv
<1>i. ~InTransaction(r)' /\ \A q \in Requests : InTransaction(q)' => InTransaction(q) /\ q # r
  BY <1>p DEF Progress, InTransaction
<1>1. CreateTypes' /\ BothOrNeither'
  BY <1>t DEF AInv, CreateTypes, BothOrNeither, Store
<1>2. \A q \in Requests : Progress(q)'
  <2> SUFFICES ASSUME NEW q \in Requests PROVE Progress(q)'
    OBVIOUS
  <2>1. CASE q = r
    BY <1>e, <1>i, <1>p, <2>1, RequestsAssumption DEF Progress, RequestsAssumption
  <2>2. CASE q # r
    <3>1. InTransaction(q)' => InTransaction(q) /\ Event(q) # Event(r)
      BY <1>i, <2>2 DEF AInv, OneTransaction
    <3>2. Progress(q)
      BY DEF AInv
    <3> QED
      BY <1>e, <1>t, <2>2, <3>1, <3>2, RequestsAssumption DEF Progress, RequestsAssumption
  <2> QED
    BY <2>1, <2>2
<1>3. OneTransaction'
  BY <1>i DEF AInv, OneTransaction
<1>4. AcceptedIsStored'
  BY <1>e, <1>t, RequestsAssumption DEF AInv, AcceptedIsStored, RequestsAssumption
<1>5. DuplicateIsStored'
  BY <1>e, <1>t, RequestsAssumption DEF AInv, DuplicateIsStored, RequestsAssumption
<1> QED
  BY <1>1, <1>2, <1>3, <1>4, <1>5 DEF AInv

(* The commit stores, or nobody waits for it any more.                      *)
LEMMA CommitKeeps ==
    ASSUME AInv, NEW r \in Requests, Commit(r)
    PROVE  AInv'
<1>0. PICK to \in {"committed", "error"} : Step(r, "complete", to)
  BY DEF Commit
<1>m. /\ request' \in [Requests -> RequestState]
      /\ request[r].pc = "complete" /\ request'[r].pc = to
      /\ request'[r].answer = request[r].answer
      /\ \A q \in Requests : Event(q)' = Event(q)
      /\ \A q \in Requests : q # r => request'[q] = request[q]
  BY <1>0, StepMoves DEF AInv
<1>s. \A pc \in {"committed", "error"} : Step(r, "complete", pc) => request'[r].pc = pc
  BY StepMoves DEF AInv
<1>p. InTransaction(r) /\ r \notin inDoubt /\ Progress(r)
  BY <1>m DEF InTransaction, AInv, Progress
<1>1. CASE to = "committed"
  <2>1. Store(r) /\ inDoubt' = inDoubt
    BY <1>m, <1>s, <1>1 DEF Commit
  <2> QED
    BY <1>m, <1>p, <1>1, <2>1, StoreKeeps
<1>2. CASE to = "error"
  <2>1. inDoubt' = inDoubt \cup {r} /\ UNCHANGED <<eventRows, outboxRows>>
    BY <1>m, <1>s, <1>2 DEF Commit
  <2>2. \A q \in Requests : InTransaction(q)' <=> InTransaction(q)
    BY <1>m, <1>p, <1>2, <2>1 DEF InTransaction
  <2>3. CreateTypes' /\ BothOrNeither'
    BY <1>m, <2>1 DEF AInv, CreateTypes, BothOrNeither
  <2>4. \A q \in Requests : Progress(q)'
    BY <1>m, <1>2, <2>1, <2>2 DEF AInv, Progress
  <2>5. OneTransaction'
    BY <1>m, <2>2 DEF AInv, OneTransaction
  <2>6. AcceptedIsStored' /\ DuplicateIsStored'
    BY <1>m, <2>1 DEF AInv, AcceptedIsStored, DuplicateIsStored
  <2> QED
    BY <2>3, <2>4, <2>5, <2>6 DEF AInv
<1> QED
  BY <1>1, <1>2

(* A COMMIT in doubt is done or undone.                                     *)
LEMMA SettlesKeeps ==
    ASSUME AInv, NEW r \in Requests, CommitSettles(r)
    PROVE  AInv'
<1>1. r \in inDoubt /\ inDoubt' = inDoubt \ {r} /\ request' = request
      /\ request \in [Requests -> RequestState]
  BY DEF CommitSettles, AInv, CreateTypes
<1>2. InTransaction(r) /\ \A q \in Requests : Event(q)' = Event(q)
  BY <1>1 DEF InTransaction, Event
<1>3. CASE Store(r)
  BY <1>1, <1>2, <1>3, StoreKeeps
<1>4. CASE UNCHANGED <<eventRows, outboxRows>>
  <2>1. \A q \in Requests : InTransaction(q)' => InTransaction(q)
    BY <1>1 DEF InTransaction
  <2>2. CreateTypes' /\ BothOrNeither'
    BY <1>1, <1>4 DEF AInv, CreateTypes, BothOrNeither
  <2>3. \A q \in Requests : Progress(q)'
    BY <1>1, <1>2, <1>4, <2>1 DEF AInv, Progress
  <2>4. OneTransaction'
    BY <1>2, <2>1 DEF AInv, OneTransaction
  <2>5. AcceptedIsStored' /\ DuplicateIsStored'
    BY <1>1, <1>2, <1>4 DEF AInv, AcceptedIsStored, DuplicateIsStored
  <2> QED
    BY <2>2, <2>3, <2>4, <2>5 DEF AInv
<1> QED
  BY <1>3, <1>4 DEF CommitSettles

(* An answer or a cut ends a request and writes no row.                     *)
LEMMA EndKeeps ==
    ASSUME AInv, NEW r \in Requests,
           request' \in [Requests -> RequestState],
           Event(r)' = Event(r),
           \A q \in Requests : q # r => request'[q] = request[q],
           UNCHANGED tables,
           r \in inDoubt => request'[r].answer \in {0, 500},
           request'[r].answer = 202 => eventRows[Event(r)] = r,
           request'[r].answer = 409 => eventRows[Event(r)] # NoRequest,
           request'[r].pc = "answered" \/ (request'[r].pc = "cut" /\ request'[r].answer = 0)
    PROVE  AInv'
<1>m. UNCHANGED <<eventRows, outboxRows, inDoubt>> /\ \A q \in Requests : Event(q)' = Event(q)
  BY DEF tables, Event
<1>1. CreateTypes' /\ BothOrNeither'
  BY <1>m DEF AInv, CreateTypes, BothOrNeither
<1>2. \A q \in Requests : Progress(q)'
  BY <1>m DEF AInv, Progress, InTransaction
<1>3. OneTransaction'
  BY <1>m DEF AInv, OneTransaction, InTransaction
<1>4. AcceptedIsStored' /\ DuplicateIsStored'
  BY <1>m DEF AInv, AcceptedIsStored, DuplicateIsStored
<1> QED
  BY <1>1, <1>2, <1>3, <1>4 DEF AInv

(* createEventHandler answers what the store did.                           *)
LEMMA AnswerKeeps ==
    ASSUME AInv, NEW r \in Requests, Answer(r) \/ Cut(r)
    PROVE  AInv'
<1>t. request \in [Requests -> RequestState] /\ request[r] \in RequestState
  BY DEF AInv, CreateTypes
<1>p. Progress(r)
  BY DEF AInv
<1>1. CASE Answer(r)
  <2>1. PICK status \in Outcome(r) :
           /\ request' = [request EXCEPT ![r].pc = "answered", ![r].answer = status]
           /\ UNCHANGED tables
    BY <1>1 DEF Answer
  <2>2. /\ status \in {202, 400, 409, 500}
        /\ request[r].pc = "error" => status = 500
        /\ request[r].pc \notin {"answered", "cut"}
        /\ status = 202 => request[r].pc = "committed"
        /\ status = 409 => request[r].pc = "conflict"
    BY <2>1 DEF Outcome
  <2> DEFINE ended == [request[r] EXCEPT !.pc = "answered"]
             state == [ended EXCEPT !.answer = status]
  <2>0. ended \in RequestState /\ ended.pc = "answered" /\ ended.event = Event(r)
    BY <1>t DEF RequestState, Event
  <2>3. /\ state \in RequestState /\ state.pc = "answered" /\ state.answer = status
        /\ state.event = Event(r)
    <3> HIDE DEF ended
    <3> QED
      BY <2>0, <2>2 DEF RequestState
  <2>4. request' = [request EXCEPT ![r] = state]
    BY <1>t, <2>1
  <2> HIDE DEF state
  <2>5. /\ request' \in [Requests -> RequestState] /\ Event(r)' = Event(r)
        /\ \A q \in Requests : q # r => request'[q] = request[q]
        /\ request'[r].pc = "answered" /\ request'[r].answer = status
    BY <1>t, <2>3, <2>4 DEF Event
  <2> QED
    BY <1>p, <2>1, <2>2, <2>5, EndKeeps DEF Progress
<1>2. CASE Cut(r)
  <2> DEFINE state == [request[r] EXCEPT !.pc = "cut"]
  <2>1. /\ state \in RequestState /\ state.pc = "cut" /\ state.answer = 0
        /\ state.event = Event(r)
    BY <1>t, <1>p, <1>2 DEF RequestState, Event, Progress, Cut
  <2>2. request' = [request EXCEPT ![r] = state]
    BY <1>t, <1>2 DEF Cut
  <2> HIDE DEF state
  <2>3. /\ request' \in [Requests -> RequestState] /\ Event(r)' = Event(r)
        /\ \A q \in Requests : q # r => request'[q] = request[q]
        /\ request'[r].pc = "cut" /\ request'[r].answer = 0
    BY <1>t, <2>1, <2>2 DEF Event
  <2> QED
    BY <1>2, <2>3, EndKeeps DEF Cut
<1> QED
  BY <1>1, <1>2

(* Every step of a request keeps the invariant.                             *)
LEMMA CreateKeeps ==
    ASSUME AInv, NEW r \in Requests, CreateStep(r)
    PROVE  AInv'
<1>1. CASE InsertEvent(r)
  BY <1>1, StatementKeeps DEF InsertEvent
<1>2. CASE EventAlreadyExists(r)
  BY <1>2, StatementKeeps DEF EventAlreadyExists
<1>3. CASE InsertOutbox(r)
  <2>1. InTransaction(r) /\ eventRows[Event(r)] = NoRequest
    BY <1>3 DEF AInv, Progress, InTransaction, InsertOutbox, Step
  <2> QED
    BY <1>3, <2>1, StatementKeeps DEF InsertOutbox
<1>4. CASE Rollback(r)
  BY <1>4, StatementKeeps DEF Rollback
<1> QED
  BY <1>1, <1>2, <1>3, <1>4, CommitKeeps, SettlesKeeps, AnswerKeeps DEF CreateStep

(* The other parts of the application leave requests and tables alone.      *)
LEMMA NextAccept == AInv /\ [Next]_vars => AInv'
<1> SUFFICES ASSUME AInv, [Next]_vars PROVE AInv'
  OBVIOUS
<1>1. ASSUME UNCHANGED createVars PROVE AInv'
  BY <1>1 DEF createVars, tables, AInv, CreateTypes, BothOrNeither, Progress, InTransaction, Event,
              OneTransaction, AcceptedIsStored, DuplicateIsStored
<1>2. ASSUME NEW r \in Requests, Create(r) PROVE AInv'
  BY <1>2, CreateKeeps DEF Create
<1> QED
  BY <1>1, <1>2 DEF Next, ObserveEventProcessingDuration, OutboxPublished,
                    PrometheusMetrics, vars

(* The invariant of acceptance holds throughout.                            *)
LEMMA AcceptHolds == Spec => []AInv
<1>1. Init => AInv
  BY InitAccept DEF Init
<1> QED
  BY <1>1, NextAccept, PTL DEF Spec

(***************************************************************************)
(* The event and its outbox message are stored together or not at all, for *)
(* any number of concurrent submissions.                                   *)
(***************************************************************************)
THEOREM EventAndMessage == Spec => []BothOrNeither
<1>1. AInv => BothOrNeither
  BY DEF AInv
<1> QED
  BY <1>1, AcceptHolds, PTL

(***************************************************************************)
(* Of any number of concurrent submissions of one id the one answered 202  *)
(* is the one stored, for good.                                            *)
(***************************************************************************)
THEOREM AcceptedStaysStored == Spec => []AcceptedIsStored
<1>1. AInv => AcceptedIsStored
  BY DEF AInv
<1> QED
  BY <1>1, AcceptHolds, PTL

(***************************************************************************)
(* A 409 is answered only for an id that is committed.                     *)
(***************************************************************************)
THEOREM DuplicateWasStored == Spec => []DuplicateIsStored
<1>1. AInv => DuplicateIsStored
  BY DEF AInv
<1> QED
  BY <1>1, AcceptHolds, PTL

-----------------------------------------------------------------------------
(* Acceptance as single steps.  A request has stored nothing before its     *)
(* commit, nor when it met the row of another.                              *)
BeforeCommit(r) == request[r].pc \in {"received", "inserted", "complete", "conflict"}

NotYetStored == \A r \in Requests : BeforeCommit(r) => eventRows[Event(r)] # r

(* A step of a request, seen from outside: it stores, answers, or neither.  *)
Stores(r) ==
    /\ request[r].answer \in {0, 500} /\ request'[r].answer = request[r].answer
    /\ eventRows[Event(r)] = NoRequest
    /\ eventRows' = [eventRows EXCEPT ![Event(r)] = r]
    /\ ~BeforeCommit(r)'

Moves(r) ==
    /\ eventRows' = eventRows /\ request'[r].answer = request[r].answer
    /\ BeforeCommit(r)' => BeforeCommit(r)

Replies(r) ==
    /\ eventRows' = eventRows /\ request[r].answer = 0
    /\ request'[r].answer \in {202, 400, 409, 500}
    /\ request'[r].answer = 202 => request[r].pc = "committed"
    /\ request'[r].answer = 409 => request[r].pc = "conflict"
    /\ request'[r].answer = 400 => request[r].pc = "received"
    /\ ~BeforeCommit(r)'

(* Every statement, commit, rollback, answer and stop of a request is one   *)
(* of these, and concerns no other request.                                 *)
LEMMA CreateSeen ==
    ASSUME AInv, NEW r \in Requests, CreateStep(r)
    PROVE  /\ \A q \in Requests : Event(q)' = Event(q)
           /\ \A q \in Requests : q # r => request'[q] = request[q]
           /\ Stores(r) \/ Moves(r) \/ Replies(r)
<1>t. request \in [Requests -> RequestState] /\ request[r] \in RequestState /\ CreateTypes
  BY DEF AInv, CreateTypes
<1>p. Progress(r)
  BY DEF AInv
<1>1. ASSUME NEW from \in {"received", "inserted", "complete"},
             NEW to \in {"inserted", "complete", "conflict", "error"},
             Step(r, from, to), eventRows' = eventRows
      PROVE  /\ \A q \in Requests : Event(q)' = Event(q)
             /\ \A q \in Requests : q # r => request'[q] = request[q]
             /\ Moves(r)
  <2>1. /\ request[r].pc = from /\ request'[r].pc = to
        /\ request'[r].answer = request[r].answer
        /\ \A q \in Requests : Event(q)' = Event(q)
        /\ \A q \in Requests : q # r => request'[q] = request[q]
    BY <1>t, <1>1, StepMoves
  <2> QED
    BY <1>1, <2>1 DEF Moves, BeforeCommit
<1>2. CASE InsertEvent(r) \/ EventAlreadyExists(r) \/ InsertOutbox(r) \/ Rollback(r)
  BY <1>1, <1>2 DEF tables, InsertEvent, EventAlreadyExists, InsertOutbox, Rollback
<1>3. CASE Commit(r)
  <2>1. PICK to \in {"committed", "error"} : Step(r, "complete", to)
    BY <1>3 DEF Commit
  <2>2. /\ request[r].pc = "complete" /\ request'[r].pc = to
        /\ request'[r].answer = request[r].answer
        /\ \A q \in Requests : Event(q)' = Event(q)
        /\ \A q \in Requests : q # r => request'[q] = request[q]
    BY <1>t, <2>1, StepMoves
  <2>s. \A pc \in {"committed", "error"} : Step(r, "complete", pc) => request'[r].pc = pc
    BY <1>t, StepMoves
  <2>3. request[r].answer = 0 /\ eventRows[Event(r)] = NoRequest
    BY <1>p, <2>2 DEF Progress, InTransaction
  <2>4. CASE to = "committed"
    <3>1. eventRows' = [eventRows EXCEPT ![Event(r)] = r]
      BY <1>3, <2>2, <2>4, <2>s DEF Commit, Store
    <3> QED
      BY <2>2, <2>3, <2>4, <3>1 DEF Stores, BeforeCommit
  <2>5. CASE to = "error"
    <3>1. eventRows' = eventRows
      BY <1>3, <2>2, <2>5, <2>s DEF Commit
    <3> QED
      BY <2>2, <2>5, <3>1 DEF Moves, BeforeCommit
  <2> QED
    BY <2>4, <2>5
<1>6. CASE CommitSettles(r)
  <2>1. request' = request /\ r \in inDoubt
    BY <1>6 DEF CommitSettles
  <2>2. /\ request[r].answer \in {0, 500} /\ eventRows[Event(r)] = NoRequest
        /\ ~BeforeCommit(r)
    BY <1>p, <2>1 DEF Progress, InTransaction, BeforeCommit
  <2>3. CASE Store(r)
    BY <2>1, <2>2, <2>3 DEF Store, Stores, BeforeCommit, Event
  <2>4. CASE UNCHANGED <<eventRows, outboxRows>>
    BY <2>1, <2>4 DEF Moves, BeforeCommit, Event
  <2> QED
    BY <1>6, <2>3, <2>4 DEF CommitSettles
<1>4. CASE Cut(r)
  <2> DEFINE state == [request[r] EXCEPT !.pc = "cut"]
  <2>1. state.pc = "cut" /\ state.answer = request[r].answer /\ state.event = Event(r)
    BY <1>t DEF RequestState, Event
  <2>2. request' = [request EXCEPT ![r] = state] /\ eventRows' = eventRows
    BY <1>t, <1>4 DEF Cut, tables
  <2> HIDE DEF state
  <2>3. request'[r] = state /\ \A q \in Requests : q # r => request'[q] = request[q]
    BY <1>t, <2>2
  <2> QED
    BY <2>1, <2>2, <2>3 DEF Moves, BeforeCommit, Event
<1>5. CASE Answer(r)
  <2>1. PICK status \in Outcome(r) :
           /\ request' = [request EXCEPT ![r].pc = "answered", ![r].answer = status]
           /\ eventRows' = eventRows
    BY <1>5 DEF Answer, tables
  <2>2. /\ status \in {202, 400, 409, 500} /\ request[r].pc # "answered"
        /\ status = 202 => request[r].pc = "committed"
        /\ status = 409 => request[r].pc = "conflict"
        /\ status = 400 => request[r].pc = "received"
    BY <2>1 DEF Outcome
  <2> DEFINE ended == [request[r] EXCEPT !.pc = "answered"]
             state == [ended EXCEPT !.answer = status]
  <2>3. ended \in RequestState /\ ended.pc = "answered" /\ ended.event = Event(r)
    BY <1>t DEF RequestState, Event
  <2>4. state.pc = "answered" /\ state.answer = status /\ state.event = Event(r)
    <3> HIDE DEF ended
    <3> QED
      BY <2>2, <2>3 DEF RequestState
  <2>5. request' = [request EXCEPT ![r] = state]
    BY <1>t, <2>1
  <2> HIDE DEF state
  <2>6. request'[r] = state /\ \A q \in Requests : q # r => request'[q] = request[q]
    BY <1>t, <2>5
  <2>7. request[r].answer = 0
    BY <1>p, <2>2 DEF Progress
  <2>8. \A q \in Requests : Event(q)' = Event(q)
    BY <2>4, <2>6 DEF Event
  <2>9. ~BeforeCommit(r)' /\ request'[r].answer = status
    BY <2>4, <2>6 DEF BeforeCommit
  <2>10. Replies(r)
    BY <2>1, <2>2, <2>7, <2>9 DEF Replies
  <2> QED
    BY <2>6, <2>8, <2>10
<1> QED
  BY <1>2, <1>3, <1>4, <1>5, <1>6 DEF CreateStep

(* Nothing is stored by a request before its commit.                        *)
LEMMA NotYetHolds == Spec => [](AInv /\ NotYetStored)
<1>1. Init => NotYetStored
  BY RequestsAssumption
     DEF Init, CreateInit, NotYetStored, Event, RequestsAssumption
<1>2. AInv /\ NotYetStored /\ [Next]_vars => NotYetStored'
  <2> SUFFICES ASSUME AInv, NotYetStored, [Next]_vars PROVE NotYetStored'
    OBVIOUS
  <2>1. CASE UNCHANGED createVars
    BY <2>1 DEF createVars, tables, NotYetStored, BeforeCommit, Event
  <2>2. ASSUME NEW r \in Requests, Create(r) PROVE NotYetStored'
    <3>1. /\ \A q \in Requests : Event(q)' = Event(q)
          /\ \A q \in Requests : q # r => request'[q] = request[q]
          /\ Stores(r) \/ Moves(r) \/ Replies(r)
      BY <2>2, CreateSeen DEF Create
    <3>2. \A q \in Requests : BeforeCommit(q)' => BeforeCommit(q) /\ (Stores(r) => q # r)
      BY <3>1 DEF Stores, Moves, Replies, BeforeCommit
    <3>3. CASE eventRows' = eventRows
      BY <3>1, <3>2, <3>3 DEF NotYetStored
    <3>4. CASE Stores(r)
      <4>1. /\ eventRows \in [Events -> Requests \cup {NoRequest}]
            /\ \A q \in Requests : Event(q) \in Events
        BY DEF AInv, CreateTypes, RequestState, Event
      <4>2. \A q \in Requests : q # r /\ eventRows[Event(q)] # q => eventRows'[Event(q)] # q
        BY <3>4, <4>1 DEF Stores
      <4> QED
        BY <3>1, <3>2, <3>4, <4>2 DEF NotYetStored
    <3> QED
      BY <3>1, <3>3, <3>4 DEF Moves, Replies
  <2> QED
    BY <2>1, <2>2 DEF Next, ObserveEventProcessingDuration, OutboxPublished,
                      PrometheusMetrics, vars
<1> QED
  BY <1>1, <1>2, AcceptHolds, PTL DEF Spec

(***************************************************************************)
(* For any number of requests, replicas and ids, the transactions of       *)
(* SaveQueuedWithOutbox, statement by statement and with failures, stops   *)
(* and COMMITs nobody waits for, implement Acceptance: submissions are     *)
(* stored in single steps, what is stored stays, the answers 202 and 409   *)
(* tell whose submission it is, and one answered 400 or 409 is never       *)
(* stored.  One answered 500 may be stored, before the answer or after it. *)
(***************************************************************************)
THEOREM RefinesAcceptance == Spec => ImplementsAcceptance
<1> DEFINE ids == [r \in Requests |-> request[r].event]
           answers == [r \in Requests |-> request[r].answer]
<1>1. Init => Promise!AcceptanceInit
  BY DEF Init, CreateInit, Promise!AcceptanceInit
<1>2. ASSUME AInv, NotYetStored, [Next]_vars
      PROVE  [Promise!AcceptanceNext]_(Promise!acceptanceVars)
  <2>1. CASE UNCHANGED createVars
    BY <2>1 DEF createVars, tables, Promise!acceptanceVars
  <2>2. ASSUME NEW r \in Requests, Create(r)
        PROVE  [Promise!AcceptanceNext]_(Promise!acceptanceVars)
    <3>1. /\ \A q \in Requests : Event(q)' = Event(q)
          /\ \A q \in Requests : q # r => request'[q] = request[q]
          /\ Stores(r) \/ Moves(r) \/ Replies(r)
      BY <1>2, <2>2, CreateSeen DEF Create
    <3>2. ids' = ids /\ ids[r] = Event(r) /\ answers[r] = request[r].answer
      BY <3>1 DEF Event
    <3>3. answers' = [answers EXCEPT ![r] = request'[r].answer]
      BY <3>1
    <3>4. request'[r].answer = request[r].answer => answers' = answers
      BY <3>1
    <3> HIDE DEF ids, answers
    <3>5. CASE Stores(r)
      <4>1. Promise!Store(r)
        BY <3>2, <3>4, <3>5 DEF Stores, Promise!Store, ids, answers
      <4> QED
        BY <4>1 DEF Promise!AcceptanceNext
    <3>6. CASE Moves(r)
      BY <3>2, <3>4, <3>6 DEF Moves, Promise!acceptanceVars, ids, answers
    <3>7. CASE Replies(r)
      <4>0. PICK status \in {202, 400, 409, 500} : status = request'[r].answer
        BY <3>7 DEF Replies
      <4>1. /\ request[r].pc = "committed" => eventRows[Event(r)] = r
            /\ request[r].pc = "conflict" => eventRows[Event(r)] \notin {r, NoRequest}
            /\ request[r].pc = "received" => eventRows[Event(r)] # r
        BY <1>2 DEF AInv, Progress, NotYetStored, BeforeCommit
      <4>2. answers[r] = 0 /\ eventRows' = eventRows
        BY <3>2, <3>7 DEF Replies
      <4>3. /\ status = 202 => eventRows[ids[r]] = r
            /\ status = 409 => eventRows[ids[r]] \notin {r, NoRequest}
            /\ status = 400 => eventRows[ids[r]] # r
        BY <3>2, <3>7, <4>0, <4>1 DEF Replies
      <4>4. Promise!Reply(r, status)
        BY <3>2, <3>3, <4>0, <4>2, <4>3 DEF Promise!Reply, ids, answers
      <4> QED
        BY <4>4 DEF Promise!AcceptanceNext
    <3> QED
      BY <3>1, <3>5, <3>6, <3>7
  <2> QED
    BY <1>2, <2>1, <2>2 DEF Next, ObserveEventProcessingDuration, OutboxPublished,
                            PrometheusMetrics, vars
<1> QED
  BY <1>1, <1>2, NotYetHolds, PTL DEF Spec, ImplementsAcceptance, Promise!AcceptanceSpec

-----------------------------------------------------------------------------
(* The counter of rejections.                                               *)

(* The requests this replica answered with an error.                        *)
Rejected == {r \in Local : request[r].answer \notin {0, 202}}

RejectedCounted == eventsRejected = Cardinality(Rejected)

(* Every rejection is counted once.                                         *)
LEMMA CreateCounts ==
    ASSUME AInv, RejectedCounted, NEW r \in Requests, CreateStep(r)
    PROVE  RejectedCounted' /\ eventsRejected <= eventsRejected'
<1>t. request \in [Requests -> RequestState] /\ Local \subseteq Requests
  BY RequestsAssumption DEF AInv, CreateTypes, RequestsAssumption
<1>f. IsFiniteSet(Rejected) /\ Cardinality(Rejected) \in Nat
  BY FS_Subset, FS_CardinalityType, RequestsAssumption DEF Rejected, RequestsAssumption
<1>1. CASE Answer(r)
  <2>1. PICK status \in Outcome(r) :
           /\ request' = [request EXCEPT ![r].pc = "answered", ![r].answer = status]
           /\ eventsRejected' = eventsRejected + IF r \in Local /\ status # 202 THEN 1 ELSE 0
           /\ UNCHANGED tables
    BY <1>1, Zenon DEF Answer
  <2>2. status \in {202, 400, 409, 500} /\ request[r].answer = 0
    BY <2>1 DEF Outcome, AInv, Progress
  <2>3. /\ request'[r].answer = status
        /\ \A q \in Requests : q # r => request'[q] = request[q]
    BY <1>t, <2>1 DEF RequestState
  <2>4. CASE r \in Local /\ status # 202
    <3>1. Rejected' = Rejected \cup {r} /\ r \notin Rejected
      BY <1>t, <2>2, <2>3, <2>4 DEF Rejected
    <3>2. Cardinality(Rejected') = Cardinality(Rejected) + 1
      BY <1>f, <3>1, FS_AddElement
    <3>3. eventsRejected' = eventsRejected + 1
      BY <2>1, <2>4
    <3> QED
      BY <1>f, <3>2, <3>3 DEF RejectedCounted
  <2>5. CASE ~(r \in Local /\ status # 202)
    <3>1. Rejected' = Rejected
      BY <1>t, <2>2, <2>3, <2>5 DEF Rejected
    <3>2. eventsRejected' = eventsRejected + 0
      BY <2>1, <2>5
    <3> QED
      BY <1>f, <3>1, <3>2 DEF RejectedCounted
  <2> QED
    BY <2>4, <2>5
<1>2. CASE ~Answer(r)
  <2>1. /\ eventsRejected' = eventsRejected
        /\ request' = request \/ \E pc : request' = [request EXCEPT ![r].pc = pc]
    BY <1>2 DEF CreateStep, InsertEvent, EventAlreadyExists, InsertOutbox, Commit,
                CommitSettles, Rollback, Cut, Step
  <2>2. \A q \in Requests : request'[q].answer = request[q].answer
    BY <1>t, <2>1 DEF RequestState
  <2>3. Rejected' = Rejected
    BY <1>t, <2>2 DEF Rejected
  <2> QED
    BY <1>f, <2>1, <2>3 DEF RejectedCounted
<1> QED
  BY <1>1, <1>2

-----------------------------------------------------------------------------
(* The latency metrics.                                                     *)

(* The observations that are in count, and those that are in sumNS.         *)
Counted == {o \in Observations : observer[o].pc # "start"}
Summed == {o \in Observations : observer[o].pc \notin {"start", "sum"}}

(* The sum has no observation that the count misses, so that a sum loaded   *)
(* before the count is covered by it; likewise the rejections of a scrape.  *)
LatencyInv ==
    /\ MetricsTypeOK
    /\ IsFiniteSet(Counted) /\ count = Cardinality(Counted)
    /\ sumNS <= Cardinality(Summed) * Max(Durations)

MaxInv ==
    /\ MaxIsExact
    /\ \A o \in Observations : At(o, "swap") => observer[o].current < observer[o].ns

ScrapeInv ==
    /\ scrape.pc = "count" => scrape.sum <= count * Max(Durations)
    /\ scrape.pc \notin {"idle", "count"} => scrape.sum <= scrape.count * Max(Durations)
    /\ scrape.pc \in {"queued", "denominator"} => scrape.rejected <= eventsRejected
    /\ RatioAtMostOne

MInv == AInv /\ RejectedCounted /\ LatencyInv /\ MaxInv /\ ScrapeInv

(* The longest duration is one, and bounds them all.                        *)
LEMMA Longest ==
    /\ Max(Durations) \in Durations /\ Max(Durations) \in Nat
    /\ \A d \in Durations : d \in Nat /\ d # 0 /\ d <= Max(Durations)
<1>1. \E x \in Durations : \A y \in Durations : x >= y
  BY MetricsAssumption DEF MetricsAssumption
<1>2. Max(Durations) \in Durations /\ \A y \in Durations : Max(Durations) >= y
  BY <1>1 DEF Max
<1> QED
  BY <1>2, MetricsAssumption DEF MetricsAssumption

(* What is summed has been counted.                                         *)
LEMMA SummedCounted ==
    ASSUME LatencyInv
    PROVE  /\ IsFiniteSet(Summed) /\ Cardinality(Summed) \in Nat
           /\ Cardinality(Summed) <= count
           /\ sumNS <= count * Max(Durations)
<1>1. Summed \subseteq Counted
  BY DEF Summed, Counted
<1>2. /\ IsFiniteSet(Summed) /\ Cardinality(Summed) \in Nat /\ count \in Nat
      /\ Cardinality(Summed) <= count
  BY <1>1, FS_Subset, FS_CardinalityType DEF LatencyInv
<1>3. ASSUME NEW a \in Nat, NEW b \in Nat, NEW m \in Nat, a <= b PROVE a * m <= b * m
  BY <1>3
<1>4. Cardinality(Summed) * Max(Durations) <= count * Max(Durations)
  BY <1>2, <1>3, Longest
<1>5. sumNS \in Nat /\ sumNS <= Cardinality(Summed) * Max(Durations)
  BY DEF LatencyInv, MetricsTypeOK
<1>6. Cardinality(Summed) * Max(Durations) \in Nat /\ count * Max(Durations) \in Nat
  BY <1>2, Longest
<1> QED
  BY <1>2, <1>4, <1>5, <1>6

(* Initially nothing is counted, summed or loaded.                          *)
LEMMA InitMetrics == Init => MInv
<1> SUFFICES ASSUME Init PROVE RejectedCounted /\ LatencyInv /\ MaxInv /\ ScrapeInv
  BY InitAccept DEF Init, MInv
<1>1. RejectedCounted
  <2>1. Rejected = {}
    BY RequestsAssumption DEF Init, CreateInit, Rejected, RequestsAssumption
  <2> QED
    BY <2>1, FS_EmptySet DEF Init, CreateInit, RejectedCounted
<1>2. \A o \in Observations : observer[o].pc = "start"
  BY DEF Init, MetricsInit
<1>3. LatencyInv
  <2>1. Counted = {} /\ Summed = {}
    BY <1>2 DEF Counted, Summed
  <2>2. IsFiniteSet({}) /\ Cardinality({}) = 0
    BY FS_EmptySet
  <2>3. 0 <= 0 * Max(Durations)
    BY Longest
  <2>4. MetricsTypeOK
    BY MetricsAssumption
       DEF Init, MetricsInit, MetricsTypeOK, NoScrape, Loads, MetricsAssumption
  <2> QED
    BY <2>1, <2>2, <2>3, <2>4 DEF Init, MetricsInit, LatencyInv
<1>4. MaxInv
  BY <1>2 DEF Init, MetricsInit, MaxInv, MaxIsExact, At
<1>5. ScrapeInv
  BY DEF Init, MetricsInit, NoScrape, ScrapeInv, RatioAtMostOne
<1> QED
  BY <1>1, <1>3, <1>4, <1>5

(* One observer moves.                                                      *)
LEMMA GoMoves ==
    ASSUME MetricsTypeOK, NEW o \in Observations, NEW pc, Go(o, pc),
           pc \in {"sum", "load", "done"}
    PROVE  /\ observer' \in [Observations -> [pc : {"start", "sum", "load", "swap", "done"},
                                              ns : Durations, current : Nat]]
           /\ observer'[o].pc = pc
           /\ \A x \in Observations : observer'[x].ns = observer[x].ns
           /\ \A x \in Observations : x # o => observer'[x] = observer[x]
<1> DEFINE State == [pc : {"start", "sum", "load", "swap", "done"}, ns : Durations, current : Nat]
<1>1. observer \in [Observations -> State] /\ observer[o] \in State
      /\ observer' = [observer EXCEPT ![o] = [observer[o] EXCEPT !.pc = pc]]
  BY DEF MetricsTypeOK, Go
<1>2. [observer[o] EXCEPT !.pc = pc] \in State /\ [observer[o] EXCEPT !.pc = pc].pc = pc
      /\ [observer[o] EXCEPT !.pc = pc].ns = observer[o].ns
  BY <1>1
<1> HIDE DEF State
<1>3. observer' \in [Observations -> State] /\ observer'[o].pc = pc
      /\ (\A x \in Observations : observer'[x].ns = observer[x].ns)
      /\ (\A x \in Observations : x # o => observer'[x] = observer[x])
  BY <1>1, <1>2
<1> QED
  BY <1>3 DEF State

(* The first step of an observation: the count.                             *)
LEMMA AddCountKeeps ==
    ASSUME LatencyInv, MaxInv, NEW o \in Observations, AddCount(o),
           UNCHANGED <<eventsQueued, scrape>>
    PROVE  LatencyInv' /\ MaxInv' /\ count <= count'
<1>m. /\ observer' \in [Observations -> [pc : {"start", "sum", "load", "swap", "done"},
                                         ns : Durations, current : Nat]]
      /\ observer'[o].pc = "sum" /\ observer[o].pc = "start"
      /\ \A x \in Observations : observer'[x].ns = observer[x].ns
      /\ \A x \in Observations : x # o => observer'[x] = observer[x]
  BY GoMoves DEF LatencyInv, AddCount, At
<1>1. MetricsTypeOK'
  BY <1>m DEF LatencyInv, MetricsTypeOK, AddCount
<1>2. Counted' = Counted \cup {o} /\ o \notin Counted /\ Summed' = Summed
  BY <1>m DEF Counted, Summed
<1>3. IsFiniteSet(Counted') /\ count' = Cardinality(Counted')
  BY <1>2, FS_AddElement DEF LatencyInv, AddCount
<1>4. LatencyInv'
  BY <1>1, <1>2, <1>3 DEF LatencyInv, AddCount
<1>5. MaxInv'
  BY <1>m DEF MaxInv, MaxIsExact, At, AddCount
<1>6. count <= count'
  BY DEF AddCount, LatencyInv, MetricsTypeOK
<1> QED
  BY <1>4, <1>5, <1>6

(* The second: the sum, of an observation that is already counted.          *)
LEMMA AddSumKeeps ==
    ASSUME LatencyInv, MaxInv, NEW o \in Observations, AddSum(o),
           UNCHANGED <<eventsQueued, scrape>>
    PROVE  LatencyInv' /\ MaxInv' /\ count <= count'
<1>m. /\ observer' \in [Observations -> [pc : {"start", "sum", "load", "swap", "done"},
                                         ns : Durations, current : Nat]]
      /\ observer'[o].pc = "load" /\ observer[o].pc = "sum" /\ observer[o].ns \in Durations
      /\ \A x \in Observations : observer'[x].ns = observer[x].ns
      /\ \A x \in Observations : x # o => observer'[x] = observer[x]
  BY GoMoves DEF LatencyInv, MetricsTypeOK, AddSum, At
<1>1. sumNS' = sumNS + observer[o].ns /\ sumNS \in Nat /\ observer[o].ns \in Nat
      /\ observer[o].ns <= Max(Durations) /\ Max(Durations) \in Nat
  BY <1>m, Longest DEF LatencyInv, MetricsTypeOK, AddSum
<1>2. MetricsTypeOK'
  BY <1>m, <1>1 DEF LatencyInv, MetricsTypeOK, AddSum
<1>3. Counted' = Counted /\ Summed' = Summed \cup {o} /\ o \notin Summed
  BY <1>m DEF Counted, Summed
<1>4. Cardinality(Summed') = Cardinality(Summed) + 1 /\ Cardinality(Summed) \in Nat
  BY <1>3, SummedCounted, FS_AddElement
<1>5. ASSUME NEW n \in Nat, NEW m \in Nat PROVE (n + 1) * m = n * m + m /\ n * m \in Nat
  OBVIOUS
<1>6. sumNS <= Cardinality(Summed) * Max(Durations)
  BY DEF LatencyInv
<1>7. sumNS' <= Cardinality(Summed') * Max(Durations)
  BY <1>1, <1>4, <1>5, <1>6
<1>8. LatencyInv'
  BY <1>2, <1>3, <1>7 DEF LatencyInv, AddSum
<1>9. MaxInv'
  BY <1>m DEF MaxInv, MaxIsExact, At, AddSum
<1> QED
  BY <1>8, <1>9 DEF AddSum, LatencyInv, MetricsTypeOK

(* The loop of the maximum: a load that is not smaller ends it.             *)
LEMMA LoadMaxKeeps ==
    ASSUME LatencyInv, MaxInv, NEW o \in Observations, LoadMax(o),
           UNCHANGED <<eventsQueued, scrape>>
    PROVE  LatencyInv' /\ MaxInv' /\ count <= count'
<1> DEFINE State == [pc : {"start", "sum", "load", "swap", "done"}, ns : Durations, current : Nat]
           next == IF observer[o].ns > maxNS THEN "swap" ELSE "done"
           loaded == [observer[o] EXCEPT !.current = maxNS]
           state == [loaded EXCEPT !.pc = next]
<1>t. observer \in [Observations -> State] /\ observer[o] \in State /\ maxNS \in Nat
      /\ observer[o].ns \in Nat /\ observer[o].pc = "load"
  BY Longest DEF LatencyInv, MetricsTypeOK, LoadMax, At
<1>1. loaded \in State /\ loaded.current = maxNS /\ loaded.ns = observer[o].ns
  BY <1>t
<1>2. state \in State /\ state.current = maxNS /\ state.ns = observer[o].ns /\ state.pc = next
  <2> HIDE DEF loaded
  <2> QED
    BY <1>1
<1>3. observer' = [observer EXCEPT ![o] = state]
  BY <1>t DEF LoadMax
<1> HIDE DEF State, loaded, state
<1>m. /\ observer' \in [Observations -> State]
      /\ observer'[o].pc = next /\ observer'[o].current = maxNS
      /\ \A x \in Observations : observer'[x].ns = observer[x].ns
      /\ \A x \in Observations : x # o => observer'[x] = observer[x]
  BY <1>t, <1>2, <1>3
<1>4. MetricsTypeOK'
  BY <1>m DEF State, LatencyInv, MetricsTypeOK, LoadMax
<1>5. Counted' = Counted /\ Summed' = Summed
  BY <1>t, <1>m DEF Counted, Summed
<1>6. LatencyInv'
  BY <1>4, <1>5 DEF LatencyInv, LoadMax
<1>7. maxNS' = maxNS
  BY DEF LoadMax
<1>8. MaxInv'
  <2>1. \A x \in Observations : At(x, "done")' => observer'[x].ns <= maxNS'
    BY <1>t, <1>m, <1>7 DEF MaxInv, MaxIsExact, At
  <2>2. maxNS' # 0 => \E x \in Observations : At(x, "done")' /\ observer'[x].ns = maxNS'
    <3>1. \A x \in Observations : At(x, "done") => At(x, "done")'
      BY <1>t, <1>m DEF At
    <3> QED
      BY <1>m, <1>7, <3>1 DEF MaxInv, MaxIsExact
  <2>3. \A x \in Observations : At(x, "swap")' => observer'[x].current < observer'[x].ns
    BY <1>t, <1>m DEF MaxInv, At
  <2> QED
    BY <2>1, <2>2, <2>3 DEF MaxInv, MaxIsExact
<1> QED
  BY <1>6, <1>8 DEF LoadMax, LatencyInv, MetricsTypeOK

(* A swap that succeeds raises the maximum; one that does not loads again.  *)
LEMMA CompareAndSwapKeeps ==
    ASSUME LatencyInv, MaxInv, NEW o \in Observations, CompareAndSwap(o),
           UNCHANGED <<eventsQueued, scrape>>
    PROVE  LatencyInv' /\ MaxInv' /\ count <= count'
<1>t. observer[o].ns \in Durations /\ observer[o].ns \in Nat /\ observer[o].current \in Nat
      /\ maxNS \in Nat /\ observer[o].pc = "swap" /\ observer[o].current < observer[o].ns
      /\ \A x \in Observations : observer[x].ns \in Nat
  BY Longest DEF LatencyInv, MaxInv, MetricsTypeOK, CompareAndSwap, At
<1>m. \E pc \in {"load", "done"} :
      /\ observer' \in [Observations -> [pc : {"start", "sum", "load", "swap", "done"},
                                         ns : Durations, current : Nat]]
      /\ observer'[o].pc = pc
      /\ pc = "done" => maxNS = observer[o].current /\ maxNS' = observer[o].ns
      /\ pc = "load" => maxNS' = maxNS
      /\ \A x \in Observations : observer'[x].ns = observer[x].ns
      /\ \A x \in Observations : x # o => observer'[x] = observer[x]
  <2>1. CASE maxNS = observer[o].current
    <3>1. Go(o, "done") /\ maxNS' = observer[o].ns
      BY <2>1 DEF CompareAndSwap
    <3> QED
      BY <2>1, <3>1, GoMoves DEF LatencyInv
  <2>2. CASE maxNS # observer[o].current
    <3>1. Go(o, "load") /\ maxNS' = maxNS
      BY <2>2 DEF CompareAndSwap
    <3> QED
      BY <3>1, GoMoves DEF LatencyInv
  <2> QED
    BY <2>1, <2>2
<1>1. MetricsTypeOK'
  BY <1>m, <1>t DEF LatencyInv, MetricsTypeOK, CompareAndSwap
<1>2. Counted' = Counted /\ Summed' = Summed
  BY <1>t, <1>m DEF Counted, Summed
<1>3. LatencyInv'
  BY <1>1, <1>2 DEF LatencyInv, CompareAndSwap
<1>4. MaxInv'
  <2>1. \A x \in Observations : At(x, "done")' => observer'[x].ns <= maxNS'
    BY <1>t, <1>m DEF MaxInv, MaxIsExact, At
  <2>2. maxNS' # 0 => \E x \in Observations : At(x, "done")' /\ observer'[x].ns = maxNS'
    <3>1. CASE observer'[o].pc = "done"
      BY <1>m, <3>1 DEF At
    <3>2. CASE observer'[o].pc # "done"
      <4>1. maxNS' = maxNS /\ \A x \in Observations : At(x, "done") => At(x, "done")'
        BY <1>m, <1>t, <3>2 DEF At
      <4> QED
        BY <1>m, <4>1 DEF MaxInv, MaxIsExact
    <3> QED
      BY <3>1, <3>2
  <2>3. \A x \in Observations : At(x, "swap")' => observer'[x].current < observer'[x].ns
    BY <1>m DEF MaxInv, At
  <2> QED
    BY <2>1, <2>2, <2>3 DEF MaxInv, MaxIsExact
<1> QED
  BY <1>3, <1>4 DEF CompareAndSwap, LatencyInv, MetricsTypeOK

ScrapeState == [pc : Loads, sum : Nat, count : Nat, max : Nat, rejected : Nat, denominator : Nat]

(* One load of a scrape sets one field.                                     *)
LEMMA LoadSets ==
    ASSUME scrape \in ScrapeState, NEW pc, NEW value \in Nat, NEW next \in Loads
    PROVE  /\ Load(pc, "sum", value, next) =>
                /\ scrape' \in ScrapeState /\ scrape'.pc = next /\ scrape'.sum = value
           /\ Load(pc, "count", value, next) =>
                /\ scrape' \in ScrapeState /\ scrape'.pc = next /\ scrape'.count = value
                /\ scrape'.sum = scrape.sum
           /\ Load(pc, "max", value, next) =>
                /\ scrape' \in ScrapeState /\ scrape'.pc = next
                /\ scrape'.sum = scrape.sum /\ scrape'.count = scrape.count
           /\ Load(pc, "rejected", value, next) =>
                /\ scrape' \in ScrapeState /\ scrape'.pc = next /\ scrape'.rejected = value
                /\ scrape'.sum = scrape.sum /\ scrape'.count = scrape.count
           /\ Load(pc, "denominator", value, next) =>
                /\ scrape' \in ScrapeState /\ scrape'.pc = next /\ scrape'.denominator = value
                /\ scrape'.sum = scrape.sum /\ scrape'.count = scrape.count
                /\ scrape'.rejected = scrape.rejected
BY DEF Load, ScrapeState

(* A scrape, whatever was observed and rejected between its loads.          *)
LEMMA ScrapeKeeps ==
    ASSUME MInv, PrometheusMetrics
    PROVE  scrape' \in ScrapeState /\ ScrapeInv'
<1>t. /\ scrape \in ScrapeState
      /\ sumNS \in Nat /\ count \in Nat /\ maxNS \in Nat /\ eventsQueued \in Nat
      /\ scrape.denominator \in Nat /\ scrape.rejected \in Nat
  BY MetricsAssumption DEF MInv, LatencyInv, MetricsTypeOK, ScrapeState, MetricsAssumption
<1>r. eventsRejected \in Nat
  <2>1. IsFiniteSet(Rejected)
    BY FS_Subset, RequestsAssumption DEF Rejected, RequestsAssumption
  <2> QED
    BY <2>1, FS_CardinalityType DEF MInv, RejectedCounted
<1>u. eventsRejected' = eventsRejected /\ count' = count
  BY DEF PrometheusMetrics, createVars, latencyVars
<1>i. ScrapeInv /\ sumNS <= count * Max(Durations)
  BY SummedCounted DEF MInv
<1>1. CASE Load("idle", "sum", sumNS, "count")
  <2>1. scrape' \in ScrapeState /\ scrape'.pc = "count" /\ scrape'.sum = sumNS
    BY <1>1, <1>t, LoadSets DEF Loads
  <2> QED
    BY <1>i, <1>u, <2>1 DEF ScrapeInv, RatioAtMostOne
<1>2. CASE Load("count", "count", count, "max")
  <2>1. scrape' \in ScrapeState /\ scrape'.pc = "max" /\ scrape'.count = count
        /\ scrape'.sum = scrape.sum /\ scrape.pc = "count"
    BY <1>2, <1>t, LoadSets DEF Loads, Load
  <2> QED
    BY <1>i, <1>u, <2>1 DEF ScrapeInv, RatioAtMostOne
<1>3. CASE Load("max", "max", maxNS, "rejected")
  <2>1. scrape' \in ScrapeState /\ scrape'.pc = "rejected" /\ scrape'.count = scrape.count
        /\ scrape'.sum = scrape.sum /\ scrape.pc = "max"
    BY <1>3, <1>t, LoadSets DEF Loads, Load
  <2> QED
    BY <1>i, <1>u, <2>1 DEF ScrapeInv, RatioAtMostOne
<1>4. CASE Load("rejected", "rejected", eventsRejected, "queued")
  <2>1. scrape' \in ScrapeState /\ scrape'.pc = "queued" /\ scrape'.count = scrape.count
        /\ scrape'.sum = scrape.sum /\ scrape'.rejected = eventsRejected
        /\ scrape.pc = "rejected"
    BY <1>4, <1>r, <1>t, LoadSets DEF Loads, Load
  <2> QED
    BY <1>i, <1>r, <1>u, <2>1 DEF ScrapeInv, RatioAtMostOne
<1>5. CASE Load("queued", "denominator", eventsQueued, "denominator")
  <2>1. scrape' \in ScrapeState /\ scrape'.pc = "denominator" /\ scrape'.count = scrape.count
        /\ scrape'.sum = scrape.sum /\ scrape'.rejected = scrape.rejected
        /\ scrape.pc = "queued"
    BY <1>5, <1>t, LoadSets DEF Loads, Load
  <2> QED
    BY <1>i, <1>u, <2>1 DEF ScrapeInv, RatioAtMostOne
<1>6. CASE Load("denominator", "denominator", scrape.denominator + eventsRejected, "done")
  <2>0. scrape.denominator + eventsRejected \in Nat
    BY <1>t, <1>r
  <2>1. scrape' \in ScrapeState /\ scrape'.pc = "done" /\ scrape'.count = scrape.count
        /\ scrape'.sum = scrape.sum /\ scrape'.rejected = scrape.rejected
        /\ scrape'.denominator = scrape.denominator + eventsRejected
        /\ scrape.pc = "denominator"
    BY <1>6, <1>t, <2>0, LoadSets DEF Loads, Load
  <2>2. scrape.rejected <= eventsRejected
    BY <1>i, <2>1 DEF ScrapeInv
  <2>3. scrape'.rejected <= scrape'.denominator
    BY <1>t, <1>r, <2>1, <2>2
  <2> QED
    BY <1>i, <1>u, <2>1, <2>3 DEF ScrapeInv, RatioAtMostOne
<1>7. CASE ScrapeDone
  BY <1>7 DEF ScrapeDone, NoScrape, ScrapeState, Loads, ScrapeInv, RatioAtMostOne
<1> QED
  BY <1>1, <1>2, <1>3, <1>4, <1>5, <1>6, <1>7 DEF PrometheusMetrics, Scrape

(* What a scrape has loaded stays covered while counters grow.              *)
LEMMA CountersGrow ==
    ASSUME MInv, scrape' = scrape, count' \in Nat, count <= count',
           eventsRejected' \in Nat, eventsRejected <= eventsRejected'
    PROVE  ScrapeInv'
<1>t. count \in Nat /\ scrape.sum \in Nat /\ scrape.rejected \in Nat
  BY DEF MInv, LatencyInv, MetricsTypeOK
<1>r. eventsRejected \in Nat
  <2>1. IsFiniteSet(Rejected)
    BY FS_Subset, RequestsAssumption DEF Rejected, RequestsAssumption
  <2> QED
    BY <2>1, FS_CardinalityType DEF MInv, RejectedCounted
<1>1. ASSUME NEW a \in Nat, NEW b \in Nat, NEW m \in Nat, a <= b PROVE a * m <= b * m
  BY <1>1
<1>2. count * Max(Durations) <= count' * Max(Durations)
  BY <1>1, <1>t, Longest
<1>3. count * Max(Durations) \in Nat /\ count' * Max(Durations) \in Nat
  BY <1>t, Longest
<1>4. scrape.pc = "count" => scrape.sum <= count' * Max(Durations)
  BY <1>t, <1>2, <1>3 DEF MInv, ScrapeInv
<1>5. scrape.pc \in {"queued", "denominator"} => scrape.rejected <= eventsRejected'
  BY <1>t, <1>r DEF MInv, ScrapeInv
<1> QED
  BY <1>4, <1>5 DEF MInv, ScrapeInv, RatioAtMostOne

(* Every step of the application keeps the invariant of its metrics.        *)
LEMMA NextMetrics == MInv /\ [Next]_vars => MInv'
<1> SUFFICES ASSUME MInv, [Next]_vars
             PROVE  RejectedCounted' /\ LatencyInv' /\ MaxInv' /\ ScrapeInv'
  BY NextAccept DEF MInv
<1> DEFINE Goal == RejectedCounted' /\ LatencyInv' /\ MaxInv' /\ ScrapeInv'
<1>i. AInv /\ RejectedCounted /\ LatencyInv /\ MaxInv /\ ScrapeInv
  BY DEF MInv
<1>c. count \in Nat /\ count <= count
  BY DEF MInv, LatencyInv, MetricsTypeOK
<1>r. eventsRejected \in Nat /\ eventsRejected <= eventsRejected
      /\ (RejectedCounted' => eventsRejected' \in Nat)
  <2>1. IsFiniteSet(Rejected) /\ IsFiniteSet(Rejected')
    BY FS_Subset, RequestsAssumption DEF Rejected, RequestsAssumption
  <2> QED
    BY <2>1, FS_CardinalityType DEF MInv, RejectedCounted
<1>l. ASSUME UNCHANGED latencyVars, MetricsTypeOK' PROVE LatencyInv' /\ MaxInv'
  BY <1>i, <1>l DEF latencyVars, LatencyInv, MaxInv, MaxIsExact, At, Counted, Summed
<1>1. ASSUME NEW r \in Requests, Create(r) PROVE Goal
  <2>1. RejectedCounted' /\ eventsRejected <= eventsRejected'
    BY <1>1, <1>i, CreateCounts DEF Create
  <2>2. UNCHANGED <<latencyVars, eventsQueued, scrape>>
    BY <1>1 DEF Create, metricsVars
  <2>3. MetricsTypeOK'
    BY <1>i, <2>2 DEF LatencyInv, MetricsTypeOK, latencyVars
  <2>4. ScrapeInv'
    BY <1>c, <1>r, <2>1, <2>2, CountersGrow DEF latencyVars
  <2> QED
    BY <1>l, <2>1, <2>2, <2>3, <2>4
<1>2. ASSUME UNCHANGED createVars PROVE RejectedCounted' /\ eventsRejected' = eventsRejected
  BY <1>i, <1>2 DEF createVars, RejectedCounted, Rejected
<1>3. ASSUME NEW o \in Observations, ObserveEventProcessingDuration(o) PROVE Goal
  <2>1. LatencyInv' /\ MaxInv' /\ count <= count'
    BY <1>3, <1>i, AddCountKeeps, AddSumKeeps, LoadMaxKeeps, CompareAndSwapKeeps
       DEF ObserveEventProcessingDuration, Observe
  <2>2. RejectedCounted' /\ eventsRejected' = eventsRejected /\ scrape' = scrape
    BY <1>2, <1>3 DEF ObserveEventProcessingDuration
  <2>3. ScrapeInv'
    BY <1>r, <2>1, <2>2, CountersGrow DEF LatencyInv, MetricsTypeOK
  <2> QED
    BY <2>1, <2>2, <2>3
<1>4. ASSUME OutboxPublished PROVE Goal
  <2>1. RejectedCounted' /\ eventsRejected' = eventsRejected /\ scrape' = scrape
        /\ UNCHANGED latencyVars
    BY <1>2, <1>4 DEF OutboxPublished
  <2>2. eventsQueued' \in 0 .. MaxQueued
    BY <1>4, <1>i, MetricsAssumption
       DEF OutboxPublished, IncEventsQueued, LatencyInv, MetricsTypeOK, MetricsAssumption
  <2>3. MetricsTypeOK'
    BY <1>i, <2>1, <2>2 DEF LatencyInv, MetricsTypeOK, latencyVars
  <2>4. ScrapeInv'
    BY <1>c, <1>r, <2>1, CountersGrow DEF latencyVars
  <2> QED
    BY <1>l, <2>1, <2>3, <2>4
<1>5. ASSUME PrometheusMetrics PROVE Goal
  <2>1. scrape' \in ScrapeState /\ ScrapeInv'
    BY <1>5, ScrapeKeeps
  <2>2. RejectedCounted' /\ UNCHANGED <<latencyVars, eventsQueued>>
    BY <1>2, <1>5 DEF PrometheusMetrics
  <2>3. MetricsTypeOK'
    BY <1>i, <2>1, <2>2 DEF LatencyInv, MetricsTypeOK, latencyVars, ScrapeState
  <2> QED
    BY <1>l, <2>1, <2>2, <2>3
<1>6. CASE UNCHANGED vars
  <2>1. RejectedCounted' /\ UNCHANGED <<latencyVars, eventsQueued, scrape>>
        /\ eventsRejected' = eventsRejected
    BY <1>2, <1>6 DEF vars, metricsVars
  <2>2. MetricsTypeOK'
    BY <1>i, <2>1 DEF LatencyInv, MetricsTypeOK, latencyVars
  <2>3. ScrapeInv'
    BY <1>c, <1>r, <2>1, CountersGrow DEF latencyVars
  <2> QED
    BY <1>l, <2>1, <2>2, <2>3
<1> QED
  BY <1>1, <1>3, <1>4, <1>5, <1>6 DEF Next

(* The invariant of the metrics holds throughout.                           *)
LEMMA MetricsHold == Spec => []MInv
BY InitMetrics, NextMetrics, PTL DEF Spec

(***************************************************************************)
(* Tables, requests and counters stay well-formed, and the counter of      *)
(* rejections never passes the number of requests.                         *)
(***************************************************************************)
THEOREM AppTypeCorrect == Spec => []TypeOK
<1>1. MInv => TypeOK
  <2> SUFFICES ASSUME MInv PROVE TypeOK
    OBVIOUS
  <2>1. eventsRejected \in 0 .. Cardinality(Local)
    <3>1. Rejected \subseteq Local
      BY DEF Rejected
    <3>2. /\ Cardinality(Rejected) \in Nat /\ Cardinality(Local) \in Nat
          /\ Cardinality(Rejected) <= Cardinality(Local)
      BY <3>1, FS_Subset, FS_CardinalityType, RequestsAssumption DEF RequestsAssumption
    <3> QED
      BY <3>2 DEF MInv, RejectedCounted
  <2> QED
    BY <2>1 DEF MInv, AInv, CreateTypes, BothOrNeither, LatencyInv, TypeOK, CreateTypeOK
<1> QED
  BY <1>1, MetricsHold, PTL

(***************************************************************************)
(* The compare-and-swap loop of ObserveEventProcessingDuration loses no    *)
(* observation, for any number of concurrent ones.                         *)
(***************************************************************************)
THEOREM MaximumIsExact == Spec => []MaxIsExact
<1>1. MInv => MaxIsExact
  BY DEF MInv, MaxInv
<1> QED
  BY <1>1, MetricsHold, PTL

(***************************************************************************)
(* The mean shown by a scrape that interleaves with any number of          *)
(* observations is at most the longest duration: the count is added before *)
(* the sum and loaded after it.                                            *)
(***************************************************************************)
THEOREM MeanIsBounded == Spec => []MeanNotOverstated
<1>1. MInv => MeanNotOverstated
  BY DEF MInv, ScrapeInv, MeanNotOverstated
<1> QED
  BY <1>1, MetricsHold, PTL

(***************************************************************************)
(* The rejection ratio of a scrape is at most one, although eventsRejected *)
(* is loaded twice.                                                        *)
(***************************************************************************)
THEOREM RatioIsBounded == Spec => []RatioAtMostOne
<1>1. MInv => RatioAtMostOne
  BY DEF MInv, ScrapeInv
<1> QED
  BY <1>1, MetricsHold, PTL
=============================================================================

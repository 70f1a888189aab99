------------------------------- MODULE Warden -------------------------------
(***************************************************************************)
(* The request path of the Warden API: webhook ingestion (reason, restrict, *)
(* execute or ask for approval), approve, reject and the reads, over one   *)
(* SQLite file.                                                            *)
(*                                                                         *)
(* Every HTTP request is an asyncio task with a session of its own, and    *)
(* the engine owns one connection (pool_size 1, max_overflow 0).  The      *)
(* first statement of a session checks the connection out; it goes back    *)
(* at the end of get_session, with COMMIT or ROLLBACK.  `db` is what is    *)
(* committed, `view` what a statement on the connection sees: `db` and the *)
(* uncommitted changes of the session that holds it.                       *)
(*                                                                         *)
(* An event is identified by the request that ingests it (Event.id is a    *)
(* fresh uuid4), and so are its decision, its approval and its history     *)
(* entry: a row of this model is the four table rows of one event.         *)
(***************************************************************************)
EXTENDS Restrictions, FiniteSets

CONSTANTS
    Req,             \* the HTTP requests
    NoReq,           \* no request
    Keys,            \* values of Event.dedup_key
    Workloads,       \* (project_id, environment_id) pairs
    WorkloadOf,      \* the workload a dedup key is computed from
    ProdWorkloads,   \* those whose environment is in PRODUCTION_ENVIRONMENTS
    Kinds,           \* the endpoints that clients call
    Bodies,          \* webhook payloads: [key, severity, suspicious]
    NoBody,          \* the payload of a request that is not a webhook
    LLMAnswers,      \* raw decisions the LLM may return
    HistoryLimit,    \* WORKLOAD_HISTORY_LIMIT
    CommitFirst,     \* whether get_session commits before the answer is sent
    Faults           \* the faults the environment may inject

AllKinds == {"ingest", "approve", "reject", "read"}
AllFaults == {"crash", "lookup", "store", "commit", "pool", "raise"}
AllBodies == [key : Keys, severity : Severities, suspicious : BOOLEAN]

ASSUME ReqAssumption == IsFiniteSet(Req) /\ NoReq \notin Req
ASSUME WorkloadAssumption ==
    /\ WorkloadOf \in [Keys -> Workloads]
    /\ ProdWorkloads \subseteq Workloads
ASSUME InputAssumption ==
    /\ Kinds \subseteq AllKinds
    /\ Bodies \subseteq AllBodies
    /\ LLMAnswers \subseteq RawDecisions
    /\ HistoryLimit \in Nat
ASSUME ModeAssumption == CommitFirst \in BOOLEAN /\ Faults \subseteq AllFaults

VARIABLES
    call,       \* what each request asks; it never changes
    pc,         \* how far the handler of each request is
    mem,        \* the local variables of each handler
    outcome,    \* the answer or exception a handler ended with
    conn,       \* the request whose session holds the connection
    view,       \* the rows a statement on the connection sees
    db,         \* the committed rows
    performed,  \* the action the orchestrator carried out for each request
    paged,      \* for each event, what became of the call that pages on-call
    durable     \* the requests whose transaction was committed

vars == <<call, pc, mem, outcome, conn, view, db, performed, paged, durable>>
-----------------------------------------------------------------------------
EventStatuses == {"absent", "received", "processing", "processed", "failed"}
ExecutionStatuses == {"none", "executed", "pending_approval", "failed", "skipped"}
ApprovalStatuses == {"none", "pending", "approved", "rejected"}
OutcomeStatuses == {"none", "success", "failed", "approved_by_human",
                    "rejected_by_human", "pending"}

Rows == [event : EventStatuses, action : Actions \cup {"none"}, auto : BOOLEAN,
         decision : ExecutionStatuses, approval : ApprovalStatuses,
         history : OutcomeStatuses]

NoRow == [event |-> "absent", action |-> "none", auto |-> FALSE,
          decision |-> "none", approval |-> "none", history |-> "none"]

\* `event` is the event the request creates or names.
Calls(r) ==
    [kind : Kinds \cap {"ingest"}, body : Bodies, event : {r}]
        \cup [kind : Kinds \ {"ingest"}, body : {NoBody}, event : Req]

Mems == [action : Actions \cup {"none"}, auto : BOOLEAN, seen : Nat, success : BOOLEAN]
NoMem == [action |-> "none", auto |-> FALSE, seen |-> 0, success |-> FALSE]

Codes == {"none", "ok", "duplicate", "not_found", "resolved", "error"}
Outcomes == [code : Codes, event : Req \cup {NoReq}]
NoOutcome == [code |-> "none", event |-> NoReq]

\* Phases in which the session of the request has the connection.
HoldingPhases == {"fresh", "processing", "reasoning", "decided", "executed",
                  "requested", "notified", "validated", "raising"}
                 \cup IF CommitFirst THEN {"returning"} ELSE {"returning", "answered"}
Phases == {"idle", "waiting", "fresh", "processing", "reasoning", "decided",
           "executed", "requested", "notified", "validated", "raising",
           "returning", "committed", "answered", "done", "lost"}

Ended == {"done", "lost"}
InFlight(r) == pc[r] \notin Ended \cup {"idle"}

Subject(r) == call[r].event
KeyOf(e) == call[e].body.key

\* events.dedup_key is UNIQUE: the rows find_by_dedup_key can return.
Existing(k) == {e \in Req : view[e].event # "absent" /\ KeyOf(e) = k}

\* Mutant of Entries: only incidents that wait for a human count.
EntriesPending(w) == {e \in Req : view[e].history = "pending" /\ WorkloadOf[KeyOf(e)] = w}

\* Rows of workload_history for a workload, and what find_by_workload returns.
Entries(w) == {e \in Req : view[e].history # "none" /\ WorkloadOf[KeyOf(e)] = w}
SeenHistory(w) == Limited(Cardinality(Entries(w)), HistoryLimit)
-----------------------------------------------------------------------------
Init ==
    /\ call \in {c \in [Req -> UNION {Calls(r) : r \in Req}] : \A r \in Req : c[r] \in Calls(r)}
    /\ pc = [r \in Req |-> "idle"]
    /\ mem = [r \in Req |-> NoMem]
    /\ outcome = [r \in Req |-> NoOutcome]
    /\ conn = NoReq
    /\ view = [r \in Req |-> NoRow]
    /\ db = [r \in Req |-> NoRow]
    /\ performed = [r \in Req |-> "none"]
    /\ paged = [r \in Req |-> "none"]
    /\ durable = {}

Goto(r, phase) == pc' = [pc EXCEPT ![r] = phase]

\* The coroutine of the handler ends, and its local variables with it.
Leave(r, phase) ==
    /\ Goto(r, phase)
    /\ mem' = [mem EXCEPT ![r] = NoMem]

\* The handler of r ends with an exception; get_session has not seen it yet.
Raise(r, code, e) ==
    /\ Leave(r, "raising")
    /\ outcome' = [outcome EXCEPT ![r] = [code |-> code, event |-> e]]

Return(r) ==
    /\ Leave(r, "returning")
    /\ outcome' = [outcome EXCEPT ![r] = [code |-> "ok", event |-> Subject(r)]]

\* Mutant of ConnectionFree: sessions share the connection.
ConnectionShared == TRUE

ConnectionFree == conn = NoReq

\* The first statement of r's session checks the connection out of the pool.
Checkout(r) ==
    /\ pc[r] = "waiting"
    /\ ConnectionFree
    /\ conn' = r

\* The rest of r's handler runs on the connection it checked out.
At(r, phase) == pc[r] = phase /\ conn = r
-----------------------------------------------------------------------------
(* Ingestion: IngestEventUseCase.execute *)

Arrive(r) ==
    /\ pc[r] = "idle"
    /\ Goto(r, "waiting")
    /\ UNCHANGED <<call, mem, outcome, conn, view, db, performed, paged, durable>>

\* Mutant of FindByDedupKey: the event is saved without looking for the key.
FindByDedupKeyUnchecked(r) ==
    /\ call[r].kind = "ingest"
    /\ Checkout(r)
    /\ Goto(r, "fresh")
    /\ UNCHANGED <<call, mem, outcome, view, db, performed, paged, durable>>

FindByDedupKey(r) ==
    /\ call[r].kind = "ingest"
    /\ Checkout(r)
    /\ Existing(KeyOf(r)) = {}
    /\ Goto(r, "fresh")
    /\ UNCHANGED <<call, mem, outcome, view, db, performed, paged, durable>>

FindDuplicate(r) ==
    /\ call[r].kind = "ingest"
    /\ Checkout(r)
    /\ \E e \in Existing(KeyOf(r)) : Raise(r, "duplicate", e)
    /\ UNCHANGED <<call, view, db, performed, paged, durable>>

\* save(event) and update_status(PROCESSING): both before the try block.
SaveEvent(r) ==
    /\ At(r, "fresh")
    /\ view' = [view EXCEPT ![r] = [@ EXCEPT !.event = "processing"]]
    /\ Goto(r, "processing")
    /\ UNCHANGED <<call, mem, outcome, conn, db, performed, paged, durable>>

\* decide() loads the history before it awaits the LLM ...
ReadHistory(r) ==
    /\ At(r, "processing")
    /\ mem' = [mem EXCEPT ![r] = [@ EXCEPT !.seen = SeenHistory(WorkloadOf[KeyOf(r)])]]
    /\ Goto(r, "reasoning")
    /\ UNCHANGED <<call, outcome, conn, view, db, performed, paged, durable>>

\* A suspicious payload is never shown to the LLM; an unavailable LLM or a
\* malformed answer falls back as well.
RawFor(r) == IF call[r].body.suspicious THEN {Fallback} ELSE LLMAnswers \cup {Fallback}

\* Mutant of Restricted: the LLM has the last word.
RestrictedByLLM(r, raw) == raw.safe

\* ... and applies the restrictions to the count it loaded then.
Restricted(r, raw) ==
    SafeToAuto(call[r].body.severity, WorkloadOf[KeyOf(r)] \in ProdWorkloads,
               raw, mem[r].seen)

Decide(r) ==
    /\ At(r, "reasoning")
    /\ \E raw \in RawFor(r) :
          mem' = [mem EXCEPT ![r] =
                     [@ EXCEPT !.action = raw.action, !.auto = Restricted(r, raw)]]
    /\ Goto(r, "decided")
    /\ UNCHANGED <<call, outcome, conn, view, db, performed, paged, durable>>

\* decision.save, history.save and update_status(PROCESSED) of the automatic branch.
RecordAutoDecision(r) ==
    /\ call[r].kind = "ingest"
    /\ At(r, "executed")
    /\ view' = [view EXCEPT ![r] =
                  [event |-> "processed", action |-> mem[r].action, auto |-> TRUE,
                   decision |-> IF mem[r].success THEN "executed" ELSE "failed",
                   approval |-> "none",
                   history |-> IF mem[r].success THEN "success" ELSE "failed"]]
    /\ Return(r)
    /\ UNCHANGED <<call, conn, db, performed, paged, durable>>

\* Mutant of RequestApproval: the handler goes on without paging.
RequestApprovalSilently(r) ==
    /\ At(r, "decided")
    /\ ~mem[r].auto
    /\ view' = [view EXCEPT ![r] =
                  [@ EXCEPT !.action = mem[r].action, !.auto = FALSE,
                            !.decision = "pending_approval", !.approval = "pending"]]
    /\ Goto(r, "notified")
    /\ UNCHANGED <<call, mem, outcome, conn, db, performed, paged, durable>>

RequestApproval(r) ==
    /\ At(r, "decided")
    /\ ~mem[r].auto
    /\ view' = [view EXCEPT ![r] =
                  [@ EXCEPT !.action = mem[r].action, !.auto = FALSE,
                            !.decision = "pending_approval", !.approval = "pending"]]
    /\ Goto(r, "requested")
    /\ UNCHANGED <<call, mem, outcome, conn, db, performed, paged, durable>>

\* HttpNotifierClient.notify_oncall about e logs a failed call and returns all the same.
Page(e) ==
    \E result \in {"reached", "lost"} :
        paged' = [paged EXCEPT ![e] = IF @ = "reached" THEN @ ELSE result]

NotifyOncall(r) ==
    /\ At(r, "requested")
    /\ Page(r)
    /\ Goto(r, "notified")
    /\ UNCHANGED <<call, mem, outcome, conn, view, db, performed, durable>>

\* Mutant of RecordPending: update_status(PROCESSED) is skipped on this branch.
RecordPendingNoStatus(r) ==
    /\ At(r, "notified")
    /\ view' = [view EXCEPT ![r] = [@ EXCEPT !.history = "pending"]]
    /\ Return(r)
    /\ UNCHANGED <<call, conn, db, performed, paged, durable>>

RecordPending(r) ==
    /\ At(r, "notified")
    /\ view' = [view EXCEPT ![r] = [@ EXCEPT !.event = "processed", !.history = "pending"]]
    /\ Return(r)
    /\ UNCHANGED <<call, conn, db, performed, paged, durable>>
-----------------------------------------------------------------------------
(* ActionExecutorService.execute, called by ingestion and by approve *)

OrchestratedActions == {"rollback", "restart", "scale_up"}

ToExecute(r) ==
    \/ At(r, "decided") /\ mem[r].auto
    \/ At(r, "validated") /\ call[r].kind = "approve"

Executed(r, success) ==
    /\ mem' = [mem EXCEPT ![r] = [@ EXCEPT !.success = success]]
    /\ Goto(r, "executed")

\* Mutant of OrchestratorReplies: an error of the call is taken for success.
TrustedReplies == [carriedOut : BOOLEAN, success : {TRUE}]

\* A call that fails (an error status, a timeout, an unreadable answer) may
\* have been carried out; one that succeeds was.
OrchestratorReplies ==
    {reply \in [carriedOut : BOOLEAN, success : BOOLEAN] : reply.success => reply.carriedOut}

CallOrchestrator(r) ==
    /\ ToExecute(r)
    /\ mem[r].action \in OrchestratedActions
    /\ \E reply \in OrchestratorReplies :
          /\ performed' = [performed EXCEPT ![r] = IF reply.carriedOut THEN mem[r].action ELSE @]
          /\ Executed(r, reply.success)
    /\ UNCHANGED <<call, outcome, conn, view, db, paged, durable>>

\* execute() turns what the notifier does raise into a failed action.
NotifyHuman(r) ==
    /\ ToExecute(r)
    /\ mem[r].action = "notify_human"
    /\ Page(Subject(r))
    /\ \E success \in IF "raise" \in Faults THEN BOOLEAN ELSE {TRUE} : Executed(r, success)
    /\ UNCHANGED <<call, outcome, conn, view, db, performed, durable>>

NoAction(r) ==
    /\ ToExecute(r)
    /\ mem[r].action = "no_action"
    /\ Executed(r, TRUE)
    /\ UNCHANGED <<call, outcome, conn, view, db, performed, paged, durable>>
-----------------------------------------------------------------------------
(* ApprovalService.approve and reject, and the reads *)

Resolving(r) == call[r].kind \in {"approve", "reject"}

\* Mutant of LoadAndValidate: the status of the approval is not tested.
LoadUnvalidated(r) ==
    /\ Resolving(r)
    /\ Checkout(r)
    /\ view[Subject(r)].approval # "none"
    /\ mem' = [mem EXCEPT ![r] = [@ EXCEPT !.action = view[Subject(r)].action]]
    /\ Goto(r, "validated")
    /\ UNCHANGED <<call, outcome, view, db, performed, paged, durable>>

LoadAndValidate(r) ==
    /\ Resolving(r)
    /\ Checkout(r)
    /\ view[Subject(r)].approval = "pending"
    /\ mem' = [mem EXCEPT ![r] = [@ EXCEPT !.action = view[Subject(r)].action]]
    /\ Goto(r, "validated")
    /\ UNCHANGED <<call, outcome, view, db, performed, paged, durable>>

ApprovalNotFound(r) ==
    /\ Resolving(r)
    /\ Checkout(r)
    /\ view[Subject(r)].approval = "none"
    /\ Raise(r, "not_found", NoReq)
    /\ UNCHANGED <<call, view, db, performed, paged, durable>>

ApprovalAlreadyResolved(r) ==
    /\ Resolving(r)
    /\ Checkout(r)
    /\ view[Subject(r)].approval \in {"approved", "rejected"}
    /\ Raise(r, "resolved", NoReq)
    /\ UNCHANGED <<call, view, db, performed, paged, durable>>

RecordApproval(r) ==
    /\ call[r].kind = "approve"
    /\ At(r, "executed")
    /\ view' = [view EXCEPT ![Subject(r)] =
                  [@ EXCEPT !.decision = IF mem[r].success THEN "executed" ELSE "failed",
                            !.approval = "approved",
                            !.history = IF mem[r].success THEN "approved_by_human" ELSE "failed"]]
    /\ Return(r)
    /\ UNCHANGED <<call, conn, db, performed, paged, durable>>

\* Mutant of RecordRejection: the status goes to the wrong column.
RecordRejectionOnDecision(r) ==
    /\ call[r].kind = "reject"
    /\ At(r, "validated")
    /\ view' = [view EXCEPT ![Subject(r)] =
                  [@ EXCEPT !.decision = "rejected", !.history = "rejected_by_human"]]
    /\ Return(r)
    /\ UNCHANGED <<call, conn, db, performed, paged, durable>>

\* The decision of a rejected approval keeps execution_status pending_approval.
RecordRejection(r) ==
    /\ call[r].kind = "reject"
    /\ At(r, "validated")
    /\ view' = [view EXCEPT ![Subject(r)] =
                  [@ EXCEPT !.approval = "rejected", !.history = "rejected_by_human"]]
    /\ Return(r)
    /\ UNCHANGED <<call, conn, db, performed, paged, durable>>

GetEvent(r) ==
    /\ call[r].kind = "read"
    /\ Checkout(r)
    /\ IF view[Subject(r)].event = "absent" THEN Raise(r, "not_found", NoReq) ELSE Return(r)
    /\ UNCHANGED <<call, view, db, performed, paged, durable>>
-----------------------------------------------------------------------------
(* get_session: COMMIT, ROLLBACK and the answer *)

\* Mutant of Rollback: a request that failed is tried again, however often.
RollbackRetries(r) ==
    /\ At(r, "raising")
    /\ view' = db
    /\ conn' = NoReq
    /\ Goto(r, "waiting")
    /\ UNCHANGED <<call, mem, outcome, db, performed, paged, durable>>

\* The exception reaches get_session, which rolls back before any handler answers.
Rollback(r) ==
    /\ At(r, "raising")
    /\ view' = db
    /\ conn' = NoReq
    /\ Goto(r, "done")
    /\ UNCHANGED <<call, mem, outcome, db, performed, paged, durable>>

\* FastAPI before 0.118 leaves the dependencies before it sends the answer,
\* later versions after.
Committing(r) == At(r, IF CommitFirst THEN "returning" ELSE "answered")

\* Mutant of Commit: the session is closed without commit().
CommitForgotten(r) ==
    /\ Committing(r)
    /\ view' = db
    /\ conn' = NoReq
    /\ durable' = durable \cup {r}
    /\ Goto(r, IF CommitFirst THEN "committed" ELSE "done")
    /\ UNCHANGED <<call, mem, outcome, db, performed, paged>>

Commit(r) ==
    /\ Committing(r)
    /\ db' = view
    /\ conn' = NoReq
    /\ durable' = durable \cup {r}
    /\ Goto(r, IF CommitFirst THEN "committed" ELSE "done")
    /\ UNCHANGED <<call, mem, outcome, view, performed, paged>>

Answer(r) ==
    /\ pc[r] = IF CommitFirst THEN "committed" ELSE "returning"
    /\ Goto(r, IF CommitFirst THEN "done" ELSE "answered")
    /\ UNCHANGED <<call, mem, outcome, conn, view, db, performed, paged, durable>>
-----------------------------------------------------------------------------
(* Faults *)

\* A failed COMMIT; the client hears of it only if it was not answered yet.
CommitFails(r) ==
    /\ "commit" \in Faults
    /\ Committing(r)
    /\ view' = db
    /\ conn' = NoReq
    /\ outcome' = IF CommitFirst
                  THEN [outcome EXCEPT ![r] = [code |-> "error", event |-> NoReq]]
                  ELSE outcome
    /\ Goto(r, "done")
    /\ UNCHANGED <<call, mem, db, performed, paged, durable>>

\* The next step of the handler runs statements on the session.
TouchesStore(r) ==
    \/ pc[r] \in {"fresh", "processing", "executed", "notified"}
    \/ pc[r] = "decided" /\ ~mem[r].auto
    \/ pc[r] = "validated" /\ call[r].kind = "reject"

\* The lookup with which every handler begins fails: nothing was written yet.
LookupFails(r) ==
    /\ "lookup" \in Faults
    /\ Checkout(r)
    /\ Raise(r, "error", NoReq)
    /\ UNCHANGED <<call, view, db, performed, paged, durable>>

\* A later statement fails: a failed flush rolls the transaction back, and what the
\* handler still tries on the session (update_status(FAILED) included) raises
\* or is rolled back with the rest.
StoreFails(r) ==
    /\ "store" \in Faults
    /\ conn = r
    /\ TouchesStore(r)
    /\ view' = db
    /\ Raise(r, "error", NoReq)
    /\ UNCHANGED <<call, conn, db, performed, paged, durable>>

\* The LLM client or the notifier raises something its adapter does not
\* catch: execute() marks the event FAILED and raises again.
ProcessingRaises(r) ==
    /\ "raise" \in Faults
    /\ \/ At(r, "reasoning") /\ ~call[r].body.suspicious
       \/ At(r, "requested")
    /\ view' = [view EXCEPT ![r] = [@ EXCEPT !.event = "failed"]]
    /\ Raise(r, "error", NoReq)
    /\ UNCHANGED <<call, conn, db, performed, paged, durable>>

\* QueuePool gives up after its timeout; the session never had a connection.
PoolTimeout(r) ==
    /\ "pool" \in Faults
    /\ pc[r] = "waiting"
    /\ conn # NoReq
    /\ Goto(r, "done")
    /\ outcome' = [outcome EXCEPT ![r] = [code |-> "error", event |-> NoReq]]
    /\ UNCHANGED <<call, mem, conn, view, db, performed, paged, durable>>

\* The process dies and is started again: tasks and transactions are gone,
\* answers already sent stay sent.  Nothing in the code resumes an event.
Crash ==
    /\ "crash" \in Faults
    /\ \E r \in Req : InFlight(r)
    /\ pc' = [r \in Req |-> IF pc[r] = "answered" THEN "done"
                            ELSE IF InFlight(r) THEN "lost" ELSE pc[r]]
    /\ mem' = [r \in Req |-> NoMem]
    /\ conn' = NoReq
    /\ view' = db
    /\ UNCHANGED <<call, outcome, db, performed, paged, durable>>
-----------------------------------------------------------------------------
\* What the event loop does for a request once it has arrived.
Serve(r) ==
    \/ FindByDedupKey(r) \/ FindDuplicate(r) \/ SaveEvent(r) \/ ReadHistory(r)
    \/ Decide(r) \/ RecordAutoDecision(r) \/ RequestApproval(r)
    \/ NotifyOncall(r) \/ RecordPending(r)
    \/ CallOrchestrator(r) \/ NotifyHuman(r) \/ NoAction(r)
    \/ LoadAndValidate(r) \/ ApprovalNotFound(r) \/ ApprovalAlreadyResolved(r)
    \/ RecordApproval(r) \/ RecordRejection(r) \/ GetEvent(r)
    \/ Rollback(r) \/ Commit(r) \/ Answer(r)

Fail(r) ==
    CommitFails(r) \/ LookupFails(r) \/ StoreFails(r) \/ ProcessingRaises(r) \/ PoolTimeout(r)

\* Every request has been served or lost.
Quiescent ==
    /\ \A r \in Req : pc[r] \in Ended
    /\ UNCHANGED vars

Next ==
    \/ \E r \in Req : Arrive(r) \/ Serve(r) \/ Fail(r)
    \/ Crash
    \/ Quiescent

Spec == Init /\ [][Next]_vars

\* The event loop keeps running every task it has, and every call a task
\* awaits returns or times out.  Nothing makes a client send, or a fault happen.
FairSpec == Spec /\ \A r \in Req : WF_vars(Serve(r))
-----------------------------------------------------------------------------
(* Properties *)

\* Every variable stays in the range the code gives it.
TypeOK ==
    /\ \A r \in Req : call[r] \in Calls(r)
    /\ call \in [Req -> UNION {Calls(r) : r \in Req}]
    /\ pc \in [Req -> Phases]
    /\ mem \in [Req -> Mems]
    /\ outcome \in [Req -> Outcomes]
    /\ conn \in Req \cup {NoReq}
    /\ view \in [Req -> Rows]
    /\ db \in [Req -> Rows]
    /\ performed \in [Req -> OrchestratedActions \cup {"none"}]
    /\ paged \in [Req -> {"none", "lost", "reached"}]
    /\ durable \subseteq Req

\* What the four tables may hold of one event between transactions.
SettledRow(row) ==
    /\ row.event = "processed"
    /\ row.action \in Actions
    /\ <<row.auto, row.decision, row.approval, row.history>> \in
          { <<TRUE, "executed", "none", "success">>,
            <<TRUE, "failed", "none", "failed">>,
            <<FALSE, "pending_approval", "pending", "pending">>,
            <<FALSE, "executed", "approved", "approved_by_human">>,
            <<FALSE, "failed", "approved", "failed">>,
            <<FALSE, "pending_approval", "rejected", "rejected_by_human">> }

\* The events, decisions, approval_requests and workload_history tables never
\* disagree about a committed event, whichever statement, call or commit failed
\* on the way, and a half-processed event is never committed.  This is about the
\* plain webhook: a stream commits what a failure or a disconnect leaves (WardenStream).
RecordsAgree == \A e \in Req : db[e] = NoRow \/ SettledRow(db[e])

\* INSERT INTO events never trips over UNIQUE(dedup_key): between the check in
\* find_by_dedup_key and the insert in save no other request inserts the key.
SaveNeverCollides == \A r \in Req : pc[r] = "fresh" => Existing(KeyOf(r)) = {}

\* The event that a 409 of the webhook names is committed, and has the same key:
\* the answer is never about an event that is rolled back later.
DuplicateNamesDurableEvent ==
    \A r \in Req : outcome[r].code = "duplicate" =>
        LET e == outcome[r].event
        IN  e \in Req /\ db[e].event # "absent" /\ KeyOf(e) = KeyOf(r)

\* Of the requests about one incident (deliveries of the webhook and approvals)
\* at most one that made the orchestrator act commits, and none if the
\* approval was rejected: the records never hold two remediations.
Recorded(e) == {r \in durable : performed[r] # "none" /\ KeyOf(Subject(r)) = KeyOf(e)}
RecordedOnce ==
    \A e \in Req : db[e].event # "absent" =>
        /\ Cardinality(Recorded(e)) <= 1
        /\ db[e].approval = "rejected" => Recorded(e) = {}

\* A decision recorded as executed was carried out by the orchestrator, in a
\* request whose transaction committed; a lost or failed call is never
\* recorded as executed.
ExecutedMeansPerformed ==
    \A e \in Req : db[e].decision = "executed" /\ db[e].action \in OrchestratedActions =>
        \E r \in durable : Subject(r) = e /\ performed[r] = db[e].action

\* Without a human, the orchestrator never acts on a critical event, on a
\* suspicious payload, or in production by rollback or scale_up, whatever the
\* LLM answered.
NoUnsafeAutonomy ==
    \A r \in Req : call[r].kind = "ingest" /\ performed[r] # "none" =>
        /\ call[r].body.severity # "critical"
        /\ ~call[r].body.suspicious
        /\ WorkloadOf[KeyOf(r)] \in ProdWorkloads => performed[r] \notin ProdRestrictedActions

\* The incident count that R4 compares after the LLM's answer is the one a
\* query would return then: the await between the two does not make it stale.
IncidentCountIsFresh ==
    \A r \in Req : call[r].kind = "ingest" /\ pc[r] \in {"reasoning", "decided"} =>
        mem[r].seen = SeenHistory(WorkloadOf[KeyOf(r)])

\* The client was told that its request succeeded.
Acked(r) == pc[r] = "done" /\ outcome[r].code = "ok"

\* The committed rows show the effect of the request.
Shown(r) ==
    /\ call[r].kind = "ingest" => db[Subject(r)].event = "processed"
    /\ call[r].kind = "approve" => db[Subject(r)].approval = "approved"
    /\ call[r].kind = "reject" => db[Subject(r)].approval = "rejected"

\* A request answered with success and over is in the database for good: no
\* later crash, failure or request undoes it.
AckedIsDurable == \A r \in Req : Acked(r) => Shown(r)

\* An approval is resolved by one human: of two approve or reject requests for
\* the same approval, at most one is answered with success.
OneResolution ==
    \A r, s \in Req : r # s /\ Resolving(r) /\ Resolving(s) /\ Subject(r) = Subject(s)
        => ~(Acked(r) /\ Acked(s))

\* On-call was called about every decision that waits for a human (the call may
\* have failed: the notifier adapter only logs that).
PagedBeforePending == \A e \in Req : db[e].approval = "pending" => paged[e] # "none"

\* As long as every transaction commits, one incident makes the orchestrator
\* act at most once over all deliveries and approvals, and not at all
\* once it is rejected.
ActsOn(k) == {r \in Req : performed[r] # "none" /\ KeyOf(Subject(r)) = k}
PerformedOnce ==
    \A e \in Req : call[e].kind = "ingest" =>
        /\ Cardinality(ActsOn(KeyOf(e))) <= 1
        /\ db[e].approval = "rejected" => ActsOn(KeyOf(e)) = {}

\* Whatever fails, is lost or interleaves: two requests make the orchestrator act on
\* one incident only if the server has forgotten one of them (its transaction was
\* rolled back, failed to commit or died with the process), and so with a request that
\* acted on an incident whose rejection is on record.
Forgotten(r) == r \notin durable /\ pc[r] \in Ended \cup {"raising"}
SameIncident(r, s) == KeyOf(Subject(r)) = KeyOf(Subject(s))
RepeatsFollowLosses ==
    \A r, s \in Req : performed[r] # "none" /\ r # s =>
        /\ performed[s] # "none" /\ SameIncident(r, s) => Forgotten(r) \/ Forgotten(s)
        /\ s \in durable /\ call[s].kind = "reject" /\ SameIncident(r, s) => Forgotten(r)

\* With a history limit that R4 can reach, a workload gets at most
\* HighIncidentThreshold automatic remediations, ever.
AutoBounded ==
    HistoryLimit >= HighIncidentThreshold =>
        \A w \in Workloads :
            Cardinality({e \in Req : db[e].auto /\ WorkloadOf[KeyOf(e)] = w})
                <= HighIncidentThreshold

-----------------------------------------------------------------------------
(* The inductive invariant behind the safety properties *)

\* The connection belongs to the request whose handler is under way.
Exclusive == \A r \in Req : conn = r <=> pc[r] \in HoldingPhases

\* Only the event that the holder works on has uncommitted changes.
TransactionIsLocal == \A e \in Req : conn = NoReq \/ e # Subject(conn) => view[e] = db[e]

\* Rows belong to ingested events, are never lost by the holder, and are whole.
RowsAreSound ==
    \A e \in Req :
        /\ view[e].event # "absent" => call[e].kind = "ingest"
        /\ view[e].event = "absent" => view[e] = NoRow
        /\ db[e].event # "absent" => view[e].event # "absent"

KeysAreUnique ==
    \A e, f \in Req :
        view[e].event # "absent" /\ view[f].event # "absent" /\ KeyOf(e) = KeyOf(f) => e = f

ProcessingRow == [NoRow EXCEPT !.event = "processing"]
RequestedRow(action) ==
    [ProcessingRow EXCEPT !.action = action, !.auto = FALSE,
                          !.decision = "pending_approval", !.approval = "pending"]
AwaitsHuman(row) == SettledRow(row) /\ row.approval = "pending"

\* What the connection sees at each phase of the handler that holds it.
Progress(r) ==
    /\ pc[r] = "fresh" => call[r].kind = "ingest" /\ Existing(KeyOf(r)) = {}
    /\ pc[r] \in {"processing", "reasoning", "decided"} =>
          call[r].kind = "ingest" /\ view[r] = ProcessingRow
    /\ pc[r] = "decided" => mem[r].action \in Actions
    /\ pc[r] \in {"requested", "notified"} =>
          call[r].kind = "ingest" /\ mem[r].action \in Actions
            /\ view[r] = RequestedRow(mem[r].action)
    /\ pc[r] = "validated" => Resolving(r) /\ AwaitsHuman(view[Subject(r)])
    /\ pc[r] = "executed" =>
          \/ call[r].kind = "ingest" /\ mem[r].action \in Actions /\ view[r] = ProcessingRow
          \/ call[r].kind = "approve" /\ AwaitsHuman(view[Subject(r)])
    /\ pc[r] \in {"returning", "answered"} =>
          \A e \in Req : view[e] = NoRow \/ SettledRow(view[e])

HandlerProgress == \A r \in Req : conn = r => Progress(r)

\* Every reachable state satisfies the conjunction, and every step keeps it.
IInv ==
    /\ TypeOK
    /\ Exclusive
    /\ TransactionIsLocal
    /\ RowsAreSound
    /\ KeysAreUnique
    /\ HandlerProgress
    /\ RecordsAgree
    /\ DuplicateNamesDurableEvent
-----------------------------------------------------------------------------
(* What the documentation or the tests say and the code does not do *)

\* README: "El sistema puede recibir el mismo webhook multiples veces sin efectos
\* secundarios": over all deliveries of one incident, and without a human, the
\* orchestrator acts at most once.
WebhookIsIdempotent ==
    \A k \in Keys :
        Cardinality({r \in Req : call[r].kind = "ingest" /\ KeyOf(r) = k
                                    /\ performed[r] # "none"}) <= 1

\* test_execute_reasoning_failure_marks_event_failed: once a webhook is answered
\* with an error of its processing, the event is in the database as FAILED.
FailureLeavesFailedEvent ==
    \A r \in Req : call[r].kind = "ingest" /\ pc[r] = "done" /\ outcome[r].code = "error"
        => db[r].event = "failed"

\* Every request that arrives is answered, or lost in a crash: no request waits
\* for the connection for ever.
EveryRequestEnds == \A r \in Req : pc[r] = "waiting" ~> pc[r] \in Ended
=============================================================================

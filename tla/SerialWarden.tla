----------------------------- MODULE SerialWarden -----------------------------
(***************************************************************************)
(* The Warden API as its clients may think of it: a request is served in   *)
(* one step, on the tables as the requests served before it left them.     *)
(* There are no sessions, no faults and nothing in flight; a request that  *)
(* fails is one that is never served.                                      *)
(***************************************************************************)
EXTENDS Restrictions, FiniteSets

CONSTANTS
    Req,             \* the requests; an event is named by the one that ingests it
    NoReq,           \* no event
    WorkloadOf,      \* the workload of a dedup key
    ProdWorkloads,   \* production workloads
    LLMAnswers,      \* raw decisions the LLM may return
    HistoryLimit     \* history entries that a decision loads at most

VARIABLES
    call,      \* what each request asks
    table,     \* the rows of each event
    verdict    \* what became of each request

KeyOf(e) == call[e].body.key
Existing(k) == {e \in Req : table[e].event # "absent" /\ KeyOf(e) = k}
Incidents(w) == {e \in Req : table[e].history # "none" /\ WorkloadOf[KeyOf(e)] = w}

Unserved == [code |-> "none", event |-> NoReq]
Absent == [event |-> "absent", action |-> "none", auto |-> FALSE,
           decision |-> "none", approval |-> "none", history |-> "none"]

AutomaticRow(action, success) ==
    [event |-> "processed", action |-> action, auto |-> TRUE,
     decision |-> IF success THEN "executed" ELSE "failed",
     approval |-> "none",
     history |-> IF success THEN "success" ELSE "failed"]

WaitingRow(action) ==
    [event |-> "processed", action |-> action, auto |-> FALSE,
     decision |-> "pending_approval", approval |-> "pending", history |-> "pending"]

ApprovedRow(row, success) ==
    [row EXCEPT !.decision = IF success THEN "executed" ELSE "failed",
                !.approval = "approved",
                !.history = IF success THEN "approved_by_human" ELSE "failed"]

RejectedRow(row) == [row EXCEPT !.approval = "rejected", !.history = "rejected_by_human"]

\* What an action may come to: doing nothing always succeeds.
Results(action) == IF action = "no_action" THEN {TRUE} ELSE BOOLEAN

\* The decision for r may be `action`, on its own authority or not, given the
\* incidents of the workload that are on record.
Decides(r, action, auto) ==
    LET w == WorkloadOf[KeyOf(r)]
    IN  \E raw \in IF call[r].body.suspicious THEN {Fallback} ELSE LLMAnswers \cup {Fallback} :
           /\ raw.action = action
           /\ auto = SafeToAuto(call[r].body.severity, w \in ProdWorkloads, raw,
                                Limited(Cardinality(Incidents(w)), HistoryLimit))
-----------------------------------------------------------------------------
\* The rows that serving r may leave of its event, if the action is this one.
Ingested(r, action) ==
    {AutomaticRow(action, success) : success \in {s \in Results(action) : Decides(r, action, TRUE)}}
    \cup {row \in {WaitingRow(action)} : Decides(r, action, FALSE)}

Resolved(r, row) ==
    IF call[r].kind = "approve"
    THEN {ApprovedRow(row, success) : success \in Results(row.action)}
    ELSE {RejectedRow(row)}
-----------------------------------------------------------------------------
Init ==
    /\ table = [e \in Req |-> Absent]
    /\ verdict = [r \in Req |-> Unserved]

\* The verdict on r, and on nobody else.
Says(r, code, e) ==
    /\ verdict[r] = Unserved
    /\ verdict'[r] = [code |-> code, event |-> e]
    /\ verdict' = [verdict EXCEPT ![r] = verdict'[r]]
    /\ UNCHANGED call

Ingest(r) ==
    /\ call[r].kind = "ingest"
    /\ Says(r, "ok", r)
    /\ Existing(KeyOf(r)) = {}
    /\ \E action \in Actions : \E row \in Ingested(r, action) : table' = [table EXCEPT ![r] = row]

Conflict(r) ==
    /\ call[r].kind = "ingest"
    /\ \E e \in Existing(KeyOf(r)) : Says(r, "duplicate", e)
    /\ UNCHANGED table

Resolve(r) ==
    LET e == call[r].event
    IN  /\ call[r].kind \in {"approve", "reject"}
        /\ Says(r, "ok", e)
        /\ table[e].approval = "pending"
        /\ \E row \in Resolved(r, table[e]) : table' = [table EXCEPT ![e] = row]

AlreadyResolved(r) ==
    /\ call[r].kind \in {"approve", "reject"}
    /\ Says(r, "resolved", NoReq)
    /\ table[call[r].event].approval \in {"approved", "rejected"}
    /\ UNCHANGED table

Read(r) ==
    /\ call[r].kind = "read"
    /\ Says(r, "ok", call[r].event)
    /\ table[call[r].event].event # "absent"
    /\ UNCHANGED table

\* There is no such approval, or no such event.
NotFound(r) ==
    /\ Says(r, "not_found", NoReq)
    /\ \/ call[r].kind \in {"approve", "reject"} /\ table[call[r].event].approval = "none"
       \/ call[r].kind = "read" /\ table[call[r].event].event = "absent"
    /\ UNCHANGED table

Next ==
    \E r \in Req :
        \/ Ingest(r) \/ Conflict(r)
        \/ Resolve(r) \/ AlreadyResolved(r)
        \/ Read(r) \/ NotFound(r)

Spec == Init /\ [][Next]_<<call, table, verdict>>
=============================================================================

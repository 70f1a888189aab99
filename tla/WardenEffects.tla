---------------------------- MODULE WardenEffects ----------------------------
(***************************************************************************)
(* What the rows of Warden have to do with the requests that wrote them    *)
(* and with what the orchestrator and the on-call service did: the         *)
(* invariant behind the properties that relate the two.  It is inductive   *)
(* relative to IInv.                                                       *)
(***************************************************************************)
EXTENDS Warden

\* The rules let the orchestrator do this for the webhook without a human.
Permitted(r, action) ==
    /\ call[r].body.severity # "critical"
    /\ ~call[r].body.suspicious
    /\ WorkloadOf[KeyOf(r)] \in ProdWorkloads => action \notin ProdRestrictedActions

\* Phases of a handler that has not called the executor.
Before == {"idle", "waiting", "fresh", "processing", "reasoning", "decided",
           "requested", "notified", "validated"}

\* Only ingestion and approve act, in this order: decide or validate, act, record.
Acts(r) ==
    /\ performed[r] # "none" => call[r].kind \in {"ingest", "approve"} /\ pc[r] \notin Before
    /\ pc[r] = "decided" /\ mem[r].auto =>
          Permitted(r, mem[r].action) /\ mem[r].seen < HighIncidentThreshold
    /\ pc[r] = "executed" /\ mem[r].success /\ mem[r].action \in OrchestratedActions =>
          performed[r] = mem[r].action
    /\ pc[r] \in {"validated", "executed"} /\ call[r].kind = "approve" =>
          mem[r].action = view[Subject(r)].action
ActsOnce == \A r \in Req : Acts(r)

\* The row says of its action what r knows.
Vouches(r, row) ==
    row.decision = "executed" /\ row.action \in OrchestratedActions => performed[r] = row.action

\* What a request that ends well leaves in the row of its event.
Effect(r, row) ==
    /\ call[r].kind = "ingest" =>
          /\ row.event = "processed"
          /\ performed[r] # "none" => row.auto
          /\ row.auto => Vouches(r, row)
    /\ call[r].kind = "approve" => row.approval = "approved" /\ Vouches(r, row)
    /\ call[r].kind = "reject" => row.approval = "rejected"

\* What the holder of the connection found committed, and what it will commit.
Knows(r) ==
    /\ call[r].kind = "ingest" => db[r] = NoRow /\ view[r].approval \in {"none", "pending"}
    /\ Resolving(r) => db[Subject(r)].approval = "pending"
    /\ call[r].kind = "read" => view = db
    /\ pc[r] \in {"returning", "answered"} => Effect(r, view[Subject(r)])
HolderKnows == \A r \in Req : conn = r /\ pc[r] # "raising" => Knows(r)

\* Committed rows are the work of committed requests, and stay it.
RowsHaveAuthors ==
    /\ \A r \in durable : pc[r] \in {"committed", "done", "lost"} /\ Effect(r, db[Subject(r)])
    /\ \A r, s \in durable :
          Resolving(r) /\ Resolving(s) /\ Subject(r) = Subject(s) => r = s
    /\ \A e \in Req : db[e].event # "absent" => e \in durable
    /\ \A e \in Req : db[e].approval = "approved" =>
          \E r \in durable : call[r].kind = "approve" /\ Subject(r) = e

\* On-call is paged before the approval can be committed.
PagesComeFirst ==
    \A e \in Req : view[e].approval = "pending" =>
        paged[e] # "none" \/ pc[e] \in {"requested", "raising"}

\* R4 keeps the automatic decisions of a workload within its history.
AutoRows(rows, w) == {e \in Req : rows[e].auto /\ WorkloadOf[KeyOf(e)] = w}
ActsAlone(r) ==
    /\ conn = r /\ call[r].kind = "ingest"
    /\ pc[r] = "executed" \/ (pc[r] \in {"returning", "answered"} /\ view[r].auto)
R4Holds ==
    HistoryLimit >= HighIncidentThreshold =>
        /\ \A r \in Req : ActsAlone(r) =>
              Cardinality(Entries(WorkloadOf[KeyOf(r)]) \ {r}) < HighIncidentThreshold
        /\ \A e \in Req : view[e].auto => view[e].history # "none"
        /\ \A w \in Workloads : Cardinality(AutoRows(view, w)) <= HighIncidentThreshold

\* No fault can lose a transaction after the answer.
AnswersAreFinal == CommitFirst \/ Faults \cap {"crash", "commit"} = {}
FollowsCommit(r) ==
    /\ pc[r] = "committed" => r \in durable
    /\ pc[r] = "answered" => ~CommitFirst
    /\ pc[r] = "raising" => outcome[r].code # "ok"
    /\ AnswersAreFinal /\ Acked(r) => r \in durable
AnswersFollowCommits == \A r \in Req : FollowsCommit(r)

\* Every reachable state satisfies the conjunction, and every step keeps it: behind every
\* committed row there are the requests that wrote it and the calls they made.
EInv ==
    /\ ActsOnce
    /\ NoUnsafeAutonomy
    /\ HolderKnows
    /\ RowsHaveAuthors
    /\ PagesComeFirst /\ PagedBeforePending
    /\ IncidentCountIsFresh
    /\ R4Holds /\ AutoBounded
    /\ AnswersFollowCommits
=============================================================================

---------------------------- MODULE FeedbackLoop ----------------------------
(***************************************************************************)
(* How Warden learns: every ingested event leaves an entry in              *)
(* workload_history, the resolution of its approval adds what the human    *)
(* said, and the prompt for a later event of the workload shows the newest *)
(* entries to the LLM.                                                     *)
(*                                                                         *)
(* A request that succeeds is one step: its session has the only           *)
(* connection from its first statement to its COMMIT (Warden!Exclusive).   *)
(* One that fails leaves nothing, and is no step.                          *)
(*                                                                         *)
(* Events are numbered in the order in which they are ingested, which is   *)
(* that of created_at in workload_history.                                 *)
(***************************************************************************)
EXTENDS DedupKey, FiniteSets

CONSTANTS
    Payloads,       \* webhooks: [project, environment, signal, timestamp, suspicious]
    Comments,       \* what a human may write about an approval: [comment, reason, alternative]
    NoText,         \* None or ""
    HistoryLimit    \* WORKLOAD_HISTORY_LIMIT

ASSUME PayloadAssumption ==
    \A p \in Payloads :
        /\ DOMAIN p = {"project", "environment", "signal", "timestamp", "suspicious"}
        /\ p.project \in Seq(STRING) /\ p.environment \in Seq(STRING) /\ p.signal \in Seq(STRING)
        /\ p.timestamp \in STRING /\ p.suspicious \in BOOLEAN
ASSUME CommentAssumption ==
    \A c \in Comments : DOMAIN c = {"comment", "reason", "alternative"}
ASSUME NoTextAssumption == NoText \notin {"approved", "rejected"}
ASSUME LimitAssumption == HistoryLimit \in Nat

VARIABLES
    events,     \* the payloads of the ingested events
    history,    \* the entry of workload_history of each event
    approval,   \* the approval request of each event, if it has one
    prompt,     \* the entries the prompt for each event showed to the LLM
    heardAt     \* how many events there were when a human resolved each

vars == <<events, history, approval, prompt, heardAt>>

Ids == 1..Len(events)

NoApproval == [status |-> "none", comment |-> NoText]
Pending == [status |-> "pending", comment |-> NoText]

Init ==
    /\ events = <<>>
    /\ history = <<>>
    /\ approval = <<>>
    /\ prompt = <<>>
    /\ heardAt = <<>>

SameWorkload(p, q) == p.project = q.project /\ p.environment = q.environment

\* Events whose dedup_key is that of the webhook.
Existing(p) == {i \in Ids : DedupKeyOf(events[i]) = DedupKeyOf(p)}

Incidents(p) == {i \in Ids : SameWorkload(events[i], p)}

\* Mutant of FindByWorkload: ascending order, so that LIMIT keeps the oldest.
FindOldest(p) ==
    {i \in Incidents(p) : Cardinality({j \in Incidents(p) : j < i}) < HistoryLimit}

\* ORDER BY created_at DESC LIMIT: fewer than HistoryLimit entries are newer.
FindByWorkload(p) ==
    {i \in Incidents(p) : Cardinality({j \in Incidents(p) : j > i}) < HistoryLimit}

\* build_user_prompt over the entries: what is empty is left out.
BuildPrompt(ids) == {[id |-> i, entry |-> history[i]] : i \in ids}

Entry(auto, outcome) ==
    [auto |-> auto, outcome |-> outcome,
     feedback |-> NoText, reason |-> NoText, alternative |-> NoText]

\* A suspicious payload is not shown to the LLM.
PromptFor(p) == BuildPrompt(IF p.suspicious THEN {} ELSE FindByWorkload(p))

AutoEntries == {Entry(TRUE, outcome) : outcome \in {"success", "failed"}}

Add(p, entry, request) ==
    /\ events' = Append(events, p)
    /\ prompt' = Append(prompt, PromptFor(p))
    /\ history' = Append(history, entry)
    /\ approval' = Append(approval, request)
    /\ heardAt' = Append(heardAt, 0)

\* R4 leaves no automatic branch to a workload with three entries in the prompt,
\* R2 none to a suspicious payload; otherwise it is the LLM's choice.
Remediate(p) ==
    /\ Existing(p) = {}
    /\ ~p.suspicious
    /\ Cardinality(FindByWorkload(p)) < 3
    /\ \E entry \in AutoEntries : Add(p, entry, NoApproval)

Escalate(p) ==
    /\ Existing(p) = {}
    /\ Add(p, Entry(FALSE, "pending"), Pending)

\* The answer is 409 and names the event that has the key.
Conflict(p) ==
    /\ Existing(p) # {}
    /\ UNCHANGED vars
-----------------------------------------------------------------------------
(* ApprovalService: both endpoints require that the approval is pending *)

IsPending(i) == approval[i].status = "pending"

Or(text, default) == IF text = NoText THEN default ELSE text

Resolve(i, status, comment) ==
    /\ approval' = [approval EXCEPT ![i] = [status |-> status, comment |-> comment]]
    /\ heardAt' = [heardAt EXCEPT ![i] = Len(events)]
    /\ UNCHANGED <<events, prompt>>

\* Mutant of UpdateOutcome: the entries of the workload, not that of the event.
UpdateOutcomes(i, outcome, feedback, reason, alternative) ==
    history' = [j \in DOMAIN history |->
                  IF j \notin Incidents(events[i]) THEN history[j]
                  ELSE [history[j] EXCEPT !.outcome = outcome, !.feedback = feedback,
                                          !.reason = reason, !.alternative = alternative]]

UpdateOutcome(i, outcome, feedback, reason, alternative) ==
    history' = [history EXCEPT ![i] =
                  [@ EXCEPT !.outcome = outcome, !.feedback = feedback,
                            !.reason = reason, !.alternative = alternative]]

\* Mutant of Approve: the status of the approval is stored as the outcome.
ApproveMixingEnums(i, said) ==
    /\ IsPending(i)
    /\ UpdateOutcome(i, "approved", Or(said.comment, "approved"), NoText, NoText)
    /\ Resolve(i, "approved", said.comment)

Approve(i, said) ==
    /\ IsPending(i)
    /\ \E outcome \in {"approved_by_human", "failed"} :
          UpdateOutcome(i, outcome, Or(said.comment, "approved"), NoText, NoText)
    /\ Resolve(i, "approved", said.comment)

\* Mutant of Reject: the comment is not passed on to the history.
RejectSilently(i, said) ==
    /\ IsPending(i)
    /\ UpdateOutcome(i, "rejected_by_human", "rejected", said.reason, said.alternative)
    /\ Resolve(i, "rejected", said.comment)

Reject(i, said) ==
    /\ IsPending(i)
    /\ UpdateOutcome(i, "rejected_by_human", Or(said.comment, "rejected"),
                     said.reason, said.alternative)
    /\ Resolve(i, "rejected", said.comment)
-----------------------------------------------------------------------------
Next ==
    \/ \E p \in Payloads : Remediate(p) \/ Escalate(p) \/ Conflict(p)
    \/ \E i \in Ids, said \in Comments : Approve(i, said) \/ Reject(i, said)

Spec == Init /\ [][Next]_vars
-----------------------------------------------------------------------------
Outcomes == {"success", "failed", "pending", "approved_by_human", "rejected_by_human"}
Feedbacks == {NoText, "approved", "rejected"} \cup {c.comment : c \in Comments}
Entries == [auto : BOOLEAN, outcome : Outcomes, feedback : Feedbacks,
            reason : {NoText} \cup {c.reason : c \in Comments},
            alternative : {NoText} \cup {c.alternative : c \in Comments}]
Approvals == [status : {"none", "pending", "approved", "rejected"},
              comment : {NoText} \cup {c.comment : c \in Comments}]

\* Every variable stays in the range the code gives it, and has an entry for each event.
TypeOK ==
    /\ events \in Seq(Payloads)
    /\ history \in [Ids -> Entries]
    /\ approval \in [Ids -> Approvals]
    /\ heardAt \in [Ids -> 0..Len(events)]
    /\ prompt \in [Ids -> SUBSET [id : Ids, entry : Entries]]

\* A webhook about another workload, or about another incident of the same one, is
\* never taken for a duplicate: the one event that a 409 can name has every field of the
\* key in common with the webhook (if project and environment names have no colon).
Names == {p.project : p \in Payloads} \cup {p.environment : p \in Payloads}
ConflictsAreDuplicates ==
    (\A name \in Names : HasNoColon(name)) =>
        \A p \in Payloads : \A i \in Existing(p) :
            /\ SameWorkload(p, events[i])
            /\ p.signal = events[i].signal /\ p.timestamp = events[i].timestamp
            /\ Existing(p) = {i}

\* approval_requests and workload_history tell the same story of an event: who was not
\* asked said nothing, what a human wrote is in both, and a reason or an
\* alternative is there only when the action was rejected.
SameStory(entry, request) ==
    /\ request.status = "none" <=> entry.auto
    /\ request.status = "pending" <=> entry.outcome = "pending"
    /\ request.status = "rejected" <=> entry.outcome = "rejected_by_human"
    /\ request.status \in {"approved", "rejected"} <=> entry.feedback # NoText
    /\ request.comment # NoText => entry.feedback = request.comment
    /\ entry.reason # NoText \/ entry.alternative # NoText => request.status = "rejected"
TablesTellTheSame == \A i \in Ids : SameStory(history[i], approval[i])

\* What a human said is never altered afterwards.
FeedbackIsFinal ==
    [][\A i \in Ids : heardAt[i] # 0 =>
          i \in Ids' /\ history'[i] = history[i] /\ approval'[i] = approval[i]]_vars

Between(i, n) == {j \in (i + 1)..(n - 1) : SameWorkload(events[j], events[n])}
Asked(n) == ~events[n].suspicious

\* Whatever a human said about an incident before a later event of the
\* workload is in the prompt for that event, as it was said, unless HistoryLimit newer
\* incidents have displaced it.
FeedbackReachesPrompts ==
    \A n \in Ids : \A i \in 1..(n - 1) :
        /\ SameWorkload(events[i], events[n]) /\ Asked(n)
        /\ heardAt[i] \in 1..(n - 1)
        /\ Cardinality(Between(i, n)) < HistoryLimit
        => [id |-> i, entry |-> history[i]] \in prompt[n]

\* README: "El feedback queda en workload_history y el LLM lo recibe en el siguiente
\* evento del mismo workload".
FeedbackReachesNextEvent ==
    \A n \in Ids : \A i \in 1..(n - 1) :
        /\ SameWorkload(events[i], events[n]) /\ Asked(n)
        /\ heardAt[i] \in 1..(n - 1)
        /\ \A j \in (heardAt[i] + 1)..(n - 1) : ~SameWorkload(events[j], events[n])
        => [id |-> i, entry |-> history[i]] \in prompt[n]
-----------------------------------------------------------------------------
(* The inductive invariant *)

KeysAreUnique ==
    \A i, j \in Ids : DedupKeyOf(events[i]) = DedupKeyOf(events[j]) => i = j

HeardMeansResolved ==
    \A i \in Ids : heardAt[i] # 0 <=> approval[i].status \in {"approved", "rejected"}

\* What makes the two tables and the prompts stay true: a dedup key belongs to one
\* event, and exactly the approvals that were resolved were heard.
IInv ==
    /\ TypeOK
    /\ KeysAreUnique
    /\ HeardMeansResolved
    /\ TablesTellTheSame
    /\ FeedbackReachesPrompts
=============================================================================

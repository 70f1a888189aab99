------------------------ MODULE WardenGuaranteesProofs ------------------------
(***************************************************************************)
(* The parts of EInv about committed rows, pages, rule R4 and answers; the *)
(* invariance of EInv; and the guarantees that follow from it: who is      *)
(* allowed to act, what a record vouches for, and what an answer promises. *)
(***************************************************************************)
EXTENDS WardenEffectsProofs

(* The committed rows and their authors *)

\* Who has committed takes no step but to be answered.
LEMMA DurableIsOver ==
    ASSUME TypeOK, Exclusive, RowsHaveAuthors,
           NEW r \in durable, r \in Req, Arrive(r) \/ Serve(r) \/ Fail(r)
    PROVE  pc'[r] = "done" /\ UNCHANGED <<outcome, performed, db, durable>> /\ pc[r] = "committed"
  <1>1. pc[r] \in {"committed", "done", "lost"} /\ conn # r
    BY DEF RowsHaveAuthors, Exclusive, HoldingPhases
  <1>2. Answer(r)
    BY <1>1 DEF Serve, Fail, Arrive, FindByDedupKey, FindDuplicate, SaveEvent, ReadHistory, Decide,
         RecordAutoDecision, RequestApproval, NotifyOncall, RecordPending, CallOrchestrator,
         NotifyHuman, NoAction, ToExecute, LoadAndValidate, ApprovalNotFound,
         ApprovalAlreadyResolved, RecordApproval, RecordRejection, GetEvent, Rollback, Commit,
         Committing, CommitFails, LookupFails, StoreFails, ProcessingRaises, PoolTimeout, Checkout, At
  <1> QED
    BY <1>1, <1>2 DEF Answer, Goto, TypeOK

\* Only a commit changes what is committed.
LEMMA OnlyCommits ==
    ASSUME NEW r \in Req, Arrive(r) \/ Serve(r) \/ Fail(r), ~Commit(r)
    PROVE  UNCHANGED <<db, durable>>
  BY DEF Serve, Fail, Arrive, FindByDedupKey, FindDuplicate, SaveEvent, ReadHistory, Decide,
         RecordAutoDecision, RequestApproval, NotifyOncall, RecordPending, CallOrchestrator,
         NotifyHuman, NoAction, LoadAndValidate, ApprovalNotFound, ApprovalAlreadyResolved,
         RecordApproval, RecordRejection, GetEvent, Rollback, Answer, CommitFails, LookupFails, StoreFails,
         ProcessingRaises, PoolTimeout

\* The effect of the other committed requests survives a commit.
LEMMA EffectsSurvive ==
    ASSUME TypeOK, Rest, HolderKnows, RowsHaveAuthors,
           NEW r \in Req, Commit(r), NEW t \in durable, t \in Req, t # r
    PROVE  Effect(t, view[Subject(t)])
  <1> DEFINE e == Subject(t)
  <1>1. conn = r /\ pc[r] \in {"returning", "answered"}
    BY DEF Commit, Committing, At
  <1>2. Knows(r) /\ Effect(r, view[Subject(r)])
    BY <1>1 DEF HolderKnows, Knows
  <1>3. Effect(t, db[e])
    BY DEF RowsHaveAuthors
  <1>4. /\ e \in Req /\ call[r].kind \in AllKinds
        /\ call[r].kind = "ingest" => Subject(r) = r
        /\ call[t].kind = "ingest" => e = t
    BY TypedParts
  <1>5. CASE view[e] = db[e]
    BY <1>3, <1>5
  <1>6. CASE view[e] # db[e] /\ call[r].kind = "ingest"
    <2>1. e = r /\ db[e] = NoRow
      BY <1>1, <1>2, <1>4, <1>6, ReqAssumption DEF Rest, TransactionIsLocal, Knows
    <2> QED
      BY <1>3, <1>4, <2>1 DEF Effect, NoRow
  <1>7. CASE view[e] # db[e] /\ Resolving(r)
    <2>1. e = Subject(r) /\ db[e].approval = "pending"
      BY <1>1, <1>2, <1>4, <1>7, ReqAssumption DEF Rest, TransactionIsLocal, Knows
    <2>2. SettledRow(db[e])
      BY <1>4, <2>1 DEF Rest, RowInvariant, RecordsAgree, NoRow
    <2>3. db[e].auto = FALSE /\ db[e].event # "absent"
      BY <2>1, <2>2 DEF SettledRow
    <2>4. view[e].approval \in {"approved", "rejected"}
      BY <1>2, <1>7, <2>1 DEF Effect, Resolving
    <2>5. SettledRow(view[e])
      BY <1>1, <1>4, <2>4 DEF Rest, HandlerProgress, Progress, NoRow
    <2>6. view[e].auto = FALSE /\ view[e].event = "processed"
      BY <2>4, <2>5 DEF SettledRow
    <2> QED
      BY <1>3, <2>1, <2>3, <2>6 DEF Effect
  <1>8. CASE call[r].kind = "read"
    BY <1>2, <1>3, <1>8 DEF Knows
  <1> QED
    BY <1>4, <1>5, <1>6, <1>7, <1>8 DEF AllKinds, Resolving

LEMMA CommitHasAuthor ==
    ASSUME TypeOK, Rest, HolderKnows, RowsHaveAuthors, NEW r \in Req, Commit(r)
    PROVE  RowsHaveAuthors'
  <1>1. /\ conn = r /\ pc[r] \in {"returning", "answered"} /\ pc'[r] \in {"committed", "done"}
        /\ db' = view /\ durable' = durable \cup {r} /\ call' = call /\ performed' = performed
        /\ \A t \in Req : t # r => pc'[t] = pc[t]
    BY DEF Commit, Committing, At, Goto, TypeOK
  <1>2. Knows(r) /\ Effect(r, view[Subject(r)])
    BY <1>1 DEF HolderKnows, Knows
  <1>3. durable \subseteq Req /\ \A t \in Req : Subject(t) \in Req /\ call[t].kind \in AllKinds
    BY TypedParts DEF TypeOK
  <1>4. \A e \in Req : e # Subject(r) => view[e] = db[e]
    BY <1>1, ReqAssumption DEF Rest, TransactionIsLocal
  <1>5. \A t \in durable' : Effect(t, view[Subject(t)])
    BY <1>1, <1>2, <1>3, EffectsSurvive
  <1>6. \A t \in durable' : Effect(t, db[Subject(t)])'
    BY <1>1, <1>5 DEF Effect, Vouches, Subject
  <1>7. \A t \in durable' : pc'[t] \in {"committed", "done", "lost"}
    BY <1>1, <1>3 DEF RowsHaveAuthors
  <1>8. ASSUME NEW s \in durable, NEW t \in {r}, Resolving(s), Resolving(t), Subject(s) = Subject(t)
        PROVE  s = t
    <2>1. db[Subject(s)].approval = "pending"
      BY <1>2, <1>8 DEF Knows
    <2>2. db[Subject(s)].approval \in {"approved", "rejected"}
      BY <1>8 DEF RowsHaveAuthors, Effect, Resolving
    <2> QED
      BY <2>1, <2>2
  <1>9. \A s, t \in durable' : Resolving(s) /\ Resolving(t) /\ Subject(s) = Subject(t) => s = t
    BY <1>1, <1>8 DEF RowsHaveAuthors
  <1>10. ASSUME NEW e \in Req, view[e].event # "absent" PROVE e \in durable'
    <2>1. CASE db[e].event # "absent"
      BY <1>1, <2>1 DEF RowsHaveAuthors
    <2>2. CASE db[e].event = "absent"
      <3>1. e = Subject(r) /\ call[r].kind # "read"
        BY <1>2, <1>4, <1>10, <2>2 DEF Knows
      <3>2. db[e] = NoRow
        BY <2>2 DEF Rest, RowInvariant, RecordsAgree, SettledRow
      <3>3. ~Resolving(r)
        BY <1>2, <3>1, <3>2 DEF Knows, NoRow
      <3>4. e = r
        BY <1>3, <3>1, <3>3, TypedParts DEF AllKinds, Resolving
      <3> QED
        BY <1>1, <3>4
    <2> QED
      BY <2>1, <2>2
  <1>11. ASSUME NEW e \in Req, view[e].approval = "approved"
         PROVE  \E t \in durable' : call[t].kind = "approve" /\ Subject(t) = e
    <2>1. CASE db[e].approval = "approved"
      BY <1>1, <2>1 DEF RowsHaveAuthors
    <2>2. CASE db[e].approval # "approved"
      <3>1. e = Subject(r) /\ call[r].kind # "read"
        BY <1>2, <1>4, <1>11, <2>2 DEF Knows
      <3>2. call[r].kind # "ingest" /\ call[r].kind # "reject"
        BY <1>2, <1>11, <3>1, TypedParts DEF Knows, Effect
      <3> QED
        BY <1>1, <1>3, <3>1, <3>2 DEF AllKinds
    <2> QED
      BY <2>1, <2>2
  <1> QED
    BY <1>1, <1>6, <1>7, <1>9, <1>10, <1>11 DEF RowsHaveAuthors, Resolving, Subject

LEMMA AuthorsKeep ==
    ASSUME TypeOK, Rest, HolderKnows, RowsHaveAuthors,
           NEW r \in Req, Arrive(r) \/ Serve(r) \/ Fail(r)
    PROVE  RowsHaveAuthors'
  <1>0. Own(r) /\ durable \subseteq Req
    BY Frame DEF TypeOK
  <1>1. CASE Commit(r)
    BY <1>1, CommitHasAuthor
  <1>2. CASE ~Commit(r)
    <2>1. UNCHANGED <<db, durable>> /\ call' = call
      BY <1>0, <1>2, OnlyCommits DEF Own
    <2>2. ASSUME NEW t \in durable
          PROVE  pc'[t] \in {"committed", "done", "lost"} /\ performed'[t] = performed[t]
      <3>1. CASE t = r
        BY <2>2, <3>1, DurableIsOver DEF Rest
      <3>2. CASE t # r
        BY <1>0, <2>2, <3>2 DEF Own, TypeOK, RowsHaveAuthors
      <3> QED
        BY <3>1, <3>2
    <2>3. \A t \in durable : Effect(t, db[Subject(t)])'
      BY <2>1, <2>2 DEF RowsHaveAuthors, Effect, Vouches, Subject
    <2> QED
      BY <2>1, <2>2, <2>3 DEF RowsHaveAuthors, Resolving, Subject
  <1> QED
    BY <1>1, <1>2
-----------------------------------------------------------------------------
(* The rows that a step writes *)

\* A step shows the rows it saw, the committed rows, an automatic decision, or
\* another write of the holder, which makes no row automatic.
LEMMA Written ==
    ASSUME TypeOK, Rest, NEW r \in Req, Arrive(r) \/ Serve(r) \/ Fail(r)
    PROVE  \/ view' = view
           \/ view' = db'
           \/ RecordAutoDecision(r)
           \/ /\ conn = r
              /\ \A e \in Req : e # Subject(r) => view'[e] = view[e]
              /\ view'[Subject(r)].auto =>
                    /\ view[Subject(r)].auto
                    /\ view'[Subject(r)].history \in {view[Subject(r)].history, "pending",
                                                     "approved_by_human", "failed", "rejected_by_human"}
              /\ view'[Subject(r)].approval = "pending" =>
                    Subject(r) = r /\ (pc'[r] \in {"requested", "raising"} \/ pc[r] = "notified")
  <1>1. /\ Subject(r) \in Req /\ view[r] \in Rows /\ view[Subject(r)] \in Rows
        /\ call[r].kind = "ingest" => Subject(r) = r
        /\ conn = r => Progress(r)
        /\ view \in [Req -> Rows] /\ pc \in [Req -> Phases]
    BY TypedParts DEF Rest, HandlerProgress, TypeOK
  <1>2. CASE SaveEvent(r)
    <2>1. conn = r /\ pc[r] = "fresh" /\ view' = [view EXCEPT ![r] = [@ EXCEPT !.event = "processing"]]
      BY <1>2 DEF SaveEvent, At
    <2>2. Subject(r) = r /\ Existing(KeyOf(r)) = {}
      BY <1>1, <2>1 DEF Progress
    <2>3. view[r] = NoRow
      BY <2>2 DEF Existing, Rest, RowInvariant, RowsAreSound
    <2>4. view'[r] = ProcessingRow
      BY <1>1, <2>1, <2>3 DEF ProcessingRow
    <2> QED
      BY <1>1, <2>1, <2>2, <2>4 DEF ProcessingRow, NoRow
  <1>3. CASE RequestApproval(r)
    <2>1. conn = r /\ pc[r] = "decided" /\ pc'[r] = "requested" /\ Subject(r) = r
      BY <1>1, <1>3 DEF RequestApproval, At, Goto, Progress
    <2>2. view'[r].auto = FALSE /\ \A e \in Req : e # r => view'[e] = view[e]
      BY <1>1, <1>3 DEF RequestApproval, Rows
    <2> QED
      BY <2>1, <2>2
  <1>4. CASE RecordPending(r)
    <2>1. conn = r /\ pc[r] = "notified" /\ Subject(r) = r
      BY <1>1, <1>4 DEF RecordPending, At, Progress
    <2>2. /\ view'[r] = [view[r] EXCEPT !.event = "processed", !.history = "pending"]
          /\ \A e \in Req : e # r => view'[e] = view[e]
      BY <1>1, <1>4 DEF RecordPending
    <2>3. view'[r].auto = view[r].auto /\ view'[r].history = "pending"
      BY <1>1, <2>2 DEF Rows
    <2> QED
      BY <2>1, <2>2, <2>3
  <1>5. CASE RecordApproval(r)
    <2>1. conn = r /\ \A e \in Req : e # Subject(r) => view'[e] = view[e]
      BY <1>1, <1>5 DEF RecordApproval, At
    <2>2. /\ view'[Subject(r)].auto = view[Subject(r)].auto
          /\ view'[Subject(r)].approval = "approved"
          /\ view'[Subject(r)].history \in {"approved_by_human", "failed"}
      BY <1>1, <1>5 DEF RecordApproval, Rows
    <2> QED
      BY <2>1, <2>2
  <1>6. CASE RecordRejection(r)
    <2>1. conn = r /\ \A e \in Req : e # Subject(r) => view'[e] = view[e]
      BY <1>1, <1>6 DEF RecordRejection, At
    <2>2. view'[Subject(r)] = [view[Subject(r)] EXCEPT !.approval = "rejected",
                                                       !.history = "rejected_by_human"]
      BY <1>1, <1>6 DEF RecordRejection
    <2>3. /\ view'[Subject(r)].auto = view[Subject(r)].auto
          /\ view'[Subject(r)].approval = "rejected"
          /\ view'[Subject(r)].history = "rejected_by_human"
      BY <1>1, <2>2 DEF Rows
    <2> QED
      BY <2>1, <2>3
  <1>7. CASE ProcessingRaises(r)
    <2>1. conn = r /\ pc[r] \in {"reasoning", "requested"} /\ pc'[r] = "raising" /\ Subject(r) = r
      BY <1>1, <1>7 DEF ProcessingRaises, At, Raise, Leave, Goto, Progress
    <2>2. /\ view'[r] = [view[r] EXCEPT !.event = "failed"]
          /\ \A e \in Req : e # r => view'[e] = view[e]
      BY <1>1, <1>7 DEF ProcessingRaises
    <2>3. view'[r].auto = view[r].auto /\ view'[r].history = view[r].history
      BY <1>1, <2>2 DEF Rows
    <2> QED
      BY <2>1, <2>2, <2>3
  <1>8. CASE ~(SaveEvent(r) \/ RequestApproval(r) \/ RecordPending(r) \/ RecordApproval(r)
                 \/ RecordRejection(r) \/ ProcessingRaises(r))
    BY <1>8 DEF Serve, Fail, Arrive, FindByDedupKey, FindDuplicate, ReadHistory, Decide,
         NotifyOncall, CallOrchestrator, NotifyHuman, NoAction, LoadAndValidate, ApprovalNotFound,
         ApprovalAlreadyResolved, GetEvent, Rollback, Commit, Answer, CommitFails, LookupFails, StoreFails,
         PoolTimeout
  <1> QED
    BY <1>2, <1>3, <1>4, <1>5, <1>6, <1>7, <1>8
-----------------------------------------------------------------------------
(* Paging *)

\* The handler moves on from "requested" by paging, and from an exception by a rollback.
LEMMA LeavesRequested ==
    ASSUME TypeOK, Exclusive, NEW r \in Req, Arrive(r) \/ Serve(r) \/ Fail(r),
           pc[r] \in {"requested", "raising"}
    PROVE  \/ pc'[r] = "raising"
           \/ paged'[r] # "none"
           \/ view' = db'
  BY DEF Serve, Fail, Arrive, FindByDedupKey, FindDuplicate, SaveEvent, ReadHistory, Decide,
         RecordAutoDecision, RequestApproval, NotifyOncall, RecordPending, CallOrchestrator,
         NotifyHuman, NoAction, ToExecute, LoadAndValidate, ApprovalNotFound,
         ApprovalAlreadyResolved, RecordApproval, RecordRejection, GetEvent, Rollback, Commit,
         Committing, Answer, CommitFails, LookupFails, StoreFails, ProcessingRaises, PoolTimeout, Checkout, At,
         Page, Raise, Leave, Goto, TypeOK

LEMMA PagesKeep ==
    ASSUME TypeOK, Rest, PagesComeFirst, PagedBeforePending,
           NEW r \in Req, Arrive(r) \/ Serve(r) \/ Fail(r)
    PROVE  PagesComeFirst' /\ PagedBeforePending'
  <1>0. Own(r)
    BY Frame
  <1>1. PagedBeforePending'
    <2>1. CASE Commit(r)
      <3>1. db' = view /\ pc[r] \in {"returning", "answered"} /\ conn = r
        BY <2>1 DEF Commit, Committing, At
      <3>2. \A e \in Req : pc[e] \notin {"requested", "raising"}
        BY <3>1 DEF Rest, Exclusive, HoldingPhases
      <3> QED
        BY <1>0, <3>1, <3>2 DEF PagesComeFirst, PagedBeforePending, Own
    <2>2. CASE ~Commit(r)
      BY <1>0, <2>2, OnlyCommits DEF PagedBeforePending, Own
    <2> QED
      BY <2>1, <2>2
  <1>2. ASSUME NEW e \in Req, view'[e].approval = "pending", paged'[e] = "none",
               pc'[e] \notin {"requested", "raising"}
        PROVE  FALSE
    <2>1. view' # db'
      BY <1>1, <1>2 DEF PagedBeforePending
    <2>2. ASSUME view[e].approval = "pending" PROVE FALSE
      <3>1. pc[e] \in {"requested", "raising"}
        BY <1>0, <1>2, <2>2 DEF PagesComeFirst, Own
      <3>2. e = r
        BY <1>0, <1>2, <3>1 DEF Own, TypeOK
      <3> QED
        BY <1>2, <2>1, <3>1, <3>2, LeavesRequested DEF Rest
    <2>3. ~RecordAutoDecision(r)
      BY <1>2, <2>2 DEF RecordAutoDecision, TypeOK
    <2>4. e = Subject(r) /\ e = r /\ pc[r] = "notified" /\ conn = r
      BY <1>2, <2>1, <2>2, <2>3, Written
    <2>5. view[r] = RequestedRow(mem[r].action) /\ mem[r].action \in Actions
      BY <2>4 DEF Rest, HandlerProgress, Progress
    <2>6. view[r].approval = "pending"
      BY <2>5 DEF RequestedRow, ProcessingRow, NoRow
    <2> QED
      BY <2>2, <2>4, <2>6
  <1> QED
    BY <1>1, <1>2 DEF PagesComeFirst
-----------------------------------------------------------------------------
(* Rule R4 *)

LEMMA SameEntries ==
    ASSUME view' = view, call' = call, NEW w
    PROVE  Entries(w)' = Entries(w) /\ SeenHistory(w)' = SeenHistory(w)
  BY DEF Entries, SeenHistory, KeyOf

LEMMA CountsKeep ==
    ASSUME TypeOK, Rest, IncidentCountIsFresh, NEW r \in Req, Arrive(r) \/ Serve(r) \/ Fail(r)
    PROVE  IncidentCountIsFresh'
  <1>0. Own(r) /\ Shared(r)
    BY Frame
  <1> SUFFICES ASSUME NEW s \in Req, call'[s].kind = "ingest", pc'[s] \in {"reasoning", "decided"}
               PROVE  mem'[s].seen = SeenHistory(WorkloadOf[KeyOf(s)])'
    BY DEF IncidentCountIsFresh
  <1>1. KeyOf(s)' = KeyOf(s) /\ call' = call
    BY <1>0 DEF Own, KeyOf
  <1>2. CASE s # r
    <2>1. pc'[s] = pc[s] /\ mem'[s] = mem[s]
      BY <1>0, <1>2 DEF Own, TypeOK
    <2>2. conn = s
      BY <2>1 DEF Rest, Exclusive, HoldingPhases
    <2>3. view' = view
      BY <1>0, <1>2, <2>2 DEF Shared
    <2> QED
      BY <1>1, <2>1, <2>3, SameEntries DEF IncidentCountIsFresh
  <1>3. CASE s = r
    <2>1. ReadHistory(r) \/ Decide(r)
      BY <1>3 DEF Serve, Fail, Arrive, FindByDedupKey, FindDuplicate, SaveEvent,
         RecordAutoDecision, RequestApproval, NotifyOncall, RecordPending, CallOrchestrator,
         NotifyHuman, NoAction, Executed, LoadAndValidate, ApprovalNotFound,
         ApprovalAlreadyResolved, RecordApproval, RecordRejection, GetEvent, Rollback, Commit,
         Answer, CommitFails, LookupFails, StoreFails, ProcessingRaises, PoolTimeout, Raise, Return, Leave,
         Goto, TypeOK
    <2>2. view' = view
      BY <2>1 DEF ReadHistory, Decide
    <2>3. CASE ReadHistory(r)
      BY <1>1, <1>3, <2>2, <2>3, SameEntries DEF ReadHistory, TypeOK, Mems
    <2>4. CASE Decide(r)
      <3>1. pc[r] = "reasoning" /\ mem'[r].seen = mem[r].seen
        BY <2>4 DEF Decide, At, TypeOK, Mems
      <3> QED
        BY <1>1, <1>3, <2>2, <3>1, SameEntries DEF IncidentCountIsFresh
    <2> QED
      BY <2>1, <2>3, <2>4
  <1> QED
    BY <1>2, <1>3

\* The entries of a workload, and its automatic rows, are finitely many.
LEMMA Countable ==
    ASSUME NEW w
    PROVE  /\ IsFiniteSet(Entries(w)) /\ Cardinality(Entries(w)) \in Nat
           /\ IsFiniteSet(AutoRows(view, w)) /\ Cardinality(AutoRows(view, w)) \in Nat
  <1>1. Entries(w) \subseteq Req /\ AutoRows(view, w) \subseteq Req
    BY DEF Entries, AutoRows
  <1> QED
    BY <1>1, ReqAssumption, FS_Subset, FS_CardinalityType

\* A committed automatic row has its history entry.
LEMMA AutoIsHistory ==
    ASSUME NEW row, row = NoRow \/ SettledRow(row), row.auto
    PROVE  row.history # "none"
  <1>1. SettledRow(row)
    BY DEF NoRow
  <1> QED
    BY <1>1 DEF SettledRow

\* Who executes the automatic branch was decided on fewer than three incidents.
LEMMA ActsOnFewIncidents ==
    ASSUME TypeOK, Rest, ActsOnce, IncidentCountIsFresh, HistoryLimit >= HighIncidentThreshold,
           NEW r \in Req, call[r].kind = "ingest", ToExecute(r)
    PROVE  Cardinality(Entries(WorkloadOf[KeyOf(r)])) < HighIncidentThreshold
  <1> DEFINE w == WorkloadOf[KeyOf(r)]
             n == Cardinality(Entries(w))
  <1>1. pc[r] = "decided" /\ mem[r].auto
    BY DEF ToExecute, At
  <1>2. SeenHistory(w) < HighIncidentThreshold
    BY <1>1 DEF ActsOnce, Acts, IncidentCountIsFresh
  <1>3. n \in Nat
    BY Countable
  <1>4. Limited(n, HistoryLimit) < HighIncidentThreshold
    BY <1>2 DEF SeenHistory
  <1> HIDE DEF n
  <1>5. n < HighIncidentThreshold
    BY <1>3, <1>4, InputAssumption DEF Limited, HighIncidentThreshold
  <1> QED
    BY <1>5 DEF n

LEMMA R4Keeps ==
    ASSUME TypeOK, Rest, ActsOnce, IncidentCountIsFresh, R4Holds, AutoBounded,
           NEW r \in Req, Arrive(r) \/ Serve(r) \/ Fail(r)
    PROVE  R4Holds' /\ AutoBounded'
  <1> SUFFICES ASSUME HistoryLimit >= HighIncidentThreshold PROVE R4Holds' /\ AutoBounded'
    BY DEF R4Holds, AutoBounded
  <1>0. Own(r) /\ Shared(r) /\ call' = call
    BY Frame DEF Own
  <1>1. AutoBounded'
    <2>1. CASE Commit(r)
      BY <1>0, <2>1 DEF Commit, R4Holds, AutoRows, AutoBounded, KeyOf
    <2>2. CASE ~Commit(r)
      BY <1>0, <2>2, OnlyCommits DEF AutoBounded, KeyOf
    <2> QED
      BY <2>1, <2>2
  <1>2. ASSUME NEW s \in Req, ActsAlone(s)'
        PROVE  (Cardinality(Entries(WorkloadOf[KeyOf(s)]) \ {s}) < HighIncidentThreshold)'
    <2> DEFINE w == WorkloadOf[KeyOf(s)]
    <2>1. KeyOf(s)' = KeyOf(s) /\ conn' = s
      BY <1>0, <1>2 DEF KeyOf, ActsAlone
    <2>2. CASE ActsAlone(s) /\ Entries(w)' \ {s} = Entries(w) \ {s}
      BY <2>1, <2>2 DEF R4Holds
    <2>0. view' = view => Entries(w)' = Entries(w)
      BY <1>0 DEF Entries, KeyOf
    <2>3. CASE s # r
      <3>1. conn = s /\ view' = view /\ pc'[s] = pc[s]
        BY <1>0, <2>1, <2>3, ReqAssumption DEF Shared, Own, TypeOK
      <3> QED
        BY <1>0, <1>2, <2>0, <2>2, <3>1 DEF ActsAlone
    <2>4. CASE s = r /\ pc'[r] = "executed"
      <3>1. ToExecute(r) /\ view' = view /\ call[r].kind = "ingest"
        BY <1>0, <1>2, <2>4 DEF ActsAlone, Serve, Fail, Arrive, FindByDedupKey, FindDuplicate,
         SaveEvent, ReadHistory, Decide, RecordAutoDecision, RequestApproval, NotifyOncall,
         RecordPending, CallOrchestrator, NotifyHuman, NoAction, LoadAndValidate, ApprovalNotFound,
         ApprovalAlreadyResolved, RecordApproval, RecordRejection, GetEvent, Rollback, Commit,
         Committing, Answer, CommitFails, LookupFails, StoreFails, ProcessingRaises, PoolTimeout, Checkout, At,
         Raise, Return, Leave, Goto, TypeOK
      <3>2. Cardinality(Entries(w)) < HighIncidentThreshold
        BY <2>4, <3>1, ActsOnFewIncidents
      <3>3. Cardinality(Entries(w) \ {s}) <= Cardinality(Entries(w))
        BY Countable, FS_RemoveElement
      <3>4. Cardinality(Entries(w) \ {s}) \in Nat /\ Cardinality(Entries(w)) \in Nat
        BY Countable, FS_RemoveElement, FS_CardinalityType
      <3>5. Cardinality(Entries(w) \ {s}) < HighIncidentThreshold
        BY <3>2, <3>3, <3>4 DEF HighIncidentThreshold
      <3> QED
        BY <1>0, <2>1, <3>1, <3>5, SameEntries
    <2>5. CASE s = r /\ RecordAutoDecision(r)
      <3>1. ActsAlone(s) /\ \A e \in Req : e # r => view'[e] = view[e]
        BY <2>5 DEF ActsAlone, RecordAutoDecision, At, TypeOK
      <3>2. Entries(w)' \ {s} = Entries(w) \ {s}
        BY <1>0, <2>5, <3>1 DEF Entries, KeyOf
      <3> QED
        BY <2>2, <3>1, <3>2
    <2>6. CASE s = r /\ Answer(r)
      <3>1. ActsAlone(s) /\ view' = view
        BY <1>0, <1>2, <2>6 DEF ActsAlone, Answer, Goto, TypeOK
      <3> QED
        BY <2>0, <2>2, <3>1
    <2>7. CASE s = r /\ pc'[r] # "executed" /\ ~RecordAutoDecision(r) /\ ~Answer(r)
      <3>1. pc'[r] \in {"returning", "answered"} /\ view'[r].auto /\ call[r].kind = "ingest"
        BY <1>0, <1>2, <2>7 DEF ActsAlone
      <3>2. RecordPending(r)
        BY <2>1, <2>7, <3>1, ReqAssumption DEF Serve, Fail, Arrive, FindByDedupKey, FindDuplicate,
         SaveEvent, ReadHistory, Decide, RequestApproval, NotifyOncall, CallOrchestrator,
         NotifyHuman, NoAction, Executed, LoadAndValidate, ApprovalNotFound,
         ApprovalAlreadyResolved, RecordApproval, RecordRejection, GetEvent, Rollback, Commit,
         CommitFails, LookupFails, StoreFails, ProcessingRaises, PoolTimeout, Raise, Leave, Goto, Resolving, TypeOK
      <3>3. view'[r].auto = view[r].auto
        <4>1. view[r] \in Rows /\ view'[r] = [view[r] EXCEPT !.event = "processed", !.history = "pending"]
          BY <3>2 DEF RecordPending, TypeOK
        <4> QED
          BY <4>1 DEF Rows
      <3>4. conn = r /\ pc[r] = "notified"
        BY <3>2 DEF RecordPending, At
      <3>5. mem[r].action \in Actions /\ view[r] = RequestedRow(mem[r].action)
        BY <3>4 DEF Rest, HandlerProgress, Progress
      <3>6. view[r].auto = FALSE
        BY <3>5 DEF RequestedRow, ProcessingRow, NoRow
      <3> QED
        BY <3>1, <3>3, <3>6
    <2> QED
      BY <2>3, <2>4, <2>5, <2>6, <2>7
  <1>3. CASE RecordAutoDecision(r)
    <2>1. /\ conn = r /\ pc[r] = "executed" /\ call[r].kind = "ingest"
          /\ view'[r].auto /\ view'[r].history \in {"success", "failed"}
          /\ \A e \in Req : e # r => view'[e] = view[e]
      BY <1>3 DEF RecordAutoDecision, At, TypeOK
    <2>2. \A e \in Req : view'[e].auto => view'[e].history # "none"
      BY <2>1 DEF R4Holds
    <2>3. ASSUME NEW w \in Workloads PROVE Cardinality(AutoRows(view', w)) <= HighIncidentThreshold
      <3>1. CASE w # WorkloadOf[KeyOf(r)]
        <4>1. AutoRows(view', w) = AutoRows(view, w)
          BY <2>1, <3>1 DEF AutoRows
        <4> QED
          BY <4>1 DEF R4Holds
      <3>2. CASE w = WorkloadOf[KeyOf(r)]
        <4> DEFINE Others == Entries(w) \ {r}
        <4>1. AutoRows(view', w) \subseteq Others \cup {r}
          BY <2>1 DEF AutoRows, Entries, R4Holds
        <4>2. Cardinality(Others) < HighIncidentThreshold
          BY <2>1, <3>2 DEF R4Holds, ActsAlone
        <4>3. IsFiniteSet(Others) /\ r \notin Others
          BY Countable, FS_RemoveElement
        <4> HIDE DEF Others
        <4>4. IsFiniteSet(Others \cup {r}) /\ Cardinality(Others \cup {r}) = Cardinality(Others) + 1
          BY <4>3, FS_AddElement
        <4>5. /\ Cardinality(AutoRows(view', w)) <= Cardinality(Others \cup {r})
              /\ IsFiniteSet(AutoRows(view', w))
          BY <4>1, <4>4, FS_Subset
        <4>6. Cardinality(AutoRows(view', w)) \in Nat /\ Cardinality(Others) \in Nat
          BY <4>3, <4>5, FS_CardinalityType
        <4> QED
          BY <4>2, <4>4, <4>5, <4>6 DEF HighIncidentThreshold
      <3> QED
        BY <3>1, <3>2
    <2> QED
      BY <1>0, <1>1, <1>2, <2>2, <2>3 DEF R4Holds, AutoRows, KeyOf
  <1>4. CASE view' = db'
    <2>1. \A e \in Req : db'[e].auto => db'[e].history # "none"
      <3>1. CASE db' = view
        BY <3>1 DEF R4Holds
      <3>2. CASE db' = db
        BY <3>2, AutoIsHistory DEF Rest, RowInvariant, RecordsAgree
      <3> QED
        BY <1>0, <3>1, <3>2 DEF Shared
    <2> QED
      BY <1>0, <1>1, <1>2, <1>4, <2>1 DEF R4Holds, AutoBounded, AutoRows, KeyOf
  <1>5. CASE ~RecordAutoDecision(r) /\ view' # db'
    <2>1. \A e \in Req : view'[e].auto => view[e].auto /\ view'[e].history # "none"
      BY <1>5, Written, TypedParts DEF R4Holds
    <2>2. ASSUME NEW w \in Workloads PROVE Cardinality(AutoRows(view', w)) <= HighIncidentThreshold
      <3>1. AutoRows(view', w) \subseteq AutoRows(view, w)
        BY <2>1 DEF AutoRows
      <3>2. Cardinality(AutoRows(view', w)) <= Cardinality(AutoRows(view, w))
              /\ IsFiniteSet(AutoRows(view', w))
        BY <3>1, Countable, FS_Subset
      <3>3. Cardinality(AutoRows(view', w)) \in Nat
        BY <3>2, FS_CardinalityType
      <3> QED
        BY <3>2, <3>3, Countable DEF R4Holds, HighIncidentThreshold
    <2> QED
      BY <1>0, <1>1, <1>2, <2>1, <2>2 DEF R4Holds, AutoRows, KeyOf
  <1> QED
    BY <1>3, <1>4, <1>5
-----------------------------------------------------------------------------
(* Answers *)

LEMMA AnswersKeep ==
    ASSUME TypeOK, Rest, AnswersFollowCommits, NEW r \in Req, Arrive(r) \/ Serve(r) \/ Fail(r)
    PROVE  AnswersFollowCommits'
  <1>0. Own(r) /\ FollowsCommit(r) /\ outcome \in [Req -> Outcomes] /\ pc \in [Req -> Phases]
    BY Frame DEF AnswersFollowCommits, TypeOK
  <1>1. \A s \in Req : s # r => FollowsCommit(s)'
    BY <1>0 DEF Own, AnswersFollowCommits, FollowsCommit, Acked
  <1> SUFFICES FollowsCommit(r)'
    BY <1>1 DEF AnswersFollowCommits
  <1>2. CASE Rollback(r) \/ Commit(r) \/ Answer(r)
    BY <1>0, <1>2 DEF Rollback, Commit, Committing, Answer, At, Goto, Acked, FollowsCommit
  <1>3. CASE CommitFails(r)
    <2>1. pc'[r] = "done" /\ (CommitFirst => outcome'[r].code = "error") /\ "commit" \in Faults
      BY <1>0, <1>3 DEF CommitFails, Goto
    <2> QED
      BY <2>1 DEF Acked, AnswersAreFinal, FollowsCommit
  <1>4. CASE PoolTimeout(r)
    BY <1>0, <1>4 DEF PoolTimeout, Goto, Acked, FollowsCommit
  <1>5. CASE FindDuplicate(r) \/ ApprovalNotFound(r) \/ ApprovalAlreadyResolved(r)
               \/ LookupFails(r) \/ StoreFails(r) \/ ProcessingRaises(r)
    <2>1. \E e : \E code \in {"duplicate", "not_found", "resolved", "error"} : Raise(r, code, e)
      BY <1>5 DEF FindDuplicate, ApprovalNotFound, ApprovalAlreadyResolved, LookupFails,
                  StoreFails, ProcessingRaises
    <2> QED
      BY <1>0, <2>1 DEF Raise, Leave, Goto, Acked, FollowsCommit
  <1>6. CASE GetEvent(r)
    <2>1. Raise(r, "not_found", NoReq) \/ Return(r)
      BY <1>6 DEF GetEvent
    <2> QED
      BY <1>0, <2>1 DEF Raise, Return, Leave, Goto, Acked, FollowsCommit
  <1>7. CASE ~(Rollback(r) \/ Commit(r) \/ Answer(r) \/ CommitFails(r) \/ PoolTimeout(r)
                 \/ FindDuplicate(r) \/ ApprovalNotFound(r) \/ ApprovalAlreadyResolved(r)
                 \/ LookupFails(r) \/ StoreFails(r) \/ ProcessingRaises(r) \/ GetEvent(r))
    <2>1. pc'[r] \notin {"committed", "answered", "raising", "done"}
      BY <1>0, <1>7 DEF Serve, Fail, Arrive, FindByDedupKey, SaveEvent, ReadHistory, Decide,
         RecordAutoDecision, RequestApproval, NotifyOncall, RecordPending, CallOrchestrator,
         NotifyHuman, NoAction, Executed, LoadAndValidate, RecordApproval, RecordRejection,
         Return, Leave, Goto
    <2> QED
      BY <2>1 DEF Acked, FollowsCommit
  <1> QED
    BY <1>2, <1>3, <1>4, <1>5, <1>6, <1>7
-----------------------------------------------------------------------------
(* The invariant *)

\* After a crash nothing is under way: what was committed stays as it was.
LEMMA CrashEffects ==
    ASSUME TypeOK, Rest, EInv, Crash
    PROVE  EInv'
  <1>1. /\ UNCHANGED <<call, outcome, db, performed, paged, durable>> /\ view' = db /\ conn' = NoReq
        /\ "crash" \in Faults
        /\ \A r \in Req : pc'[r] = IF pc[r] = "answered" THEN "done"
                                   ELSE IF InFlight(r) THEN "lost" ELSE pc[r]
    BY DEF Crash
  <1>2. \A r \in Req : /\ pc'[r] \in {"idle", "done", "lost"}
                       /\ pc'[r] = "done" => pc[r] \in {"done", "answered"}
                       /\ pc'[r] = "idle" => pc[r] = "idle"
                       /\ pc[r] \in {"committed", "done", "lost"} => pc'[r] \in {"done", "lost"}
    BY <1>1 DEF InFlight, Ended
  <1>3. ActsOnce' /\ NoUnsafeAutonomy'
    <2>1. \A r \in Req : Acts(r)'
      BY <1>1, <1>2 DEF EInv, ActsOnce, Acts, Before
    <2> QED
      BY <1>1, <2>1 DEF EInv, ActsOnce, NoUnsafeAutonomy, KeyOf
  <1>4. HolderKnows'
    BY <1>1, ReqAssumption DEF HolderKnows
  <1>5. RowsHaveAuthors'
    <2>1. \A t \in durable : pc'[t] \in {"done", "lost"}
      BY <1>2 DEF EInv, RowsHaveAuthors, TypeOK
    <2>2. \A t \in durable : Effect(t, db[Subject(t)])'
      BY <1>1 DEF EInv, RowsHaveAuthors, Effect, Vouches, Subject
    <2> QED
      BY <1>1, <2>1, <2>2 DEF EInv, RowsHaveAuthors, Resolving, Subject
  <1>6. PagesComeFirst' /\ PagedBeforePending'
    BY <1>1 DEF EInv, PagesComeFirst, PagedBeforePending
  <1>7. IncidentCountIsFresh'
    BY <1>2 DEF IncidentCountIsFresh
  <1>8. R4Holds' /\ AutoBounded'
    <2>1. \A e \in Req : db[e].auto => db[e].history # "none"
      BY AutoIsHistory DEF Rest, RowInvariant, RecordsAgree
    <2>2. AutoBounded'
      BY <1>1 DEF EInv, AutoBounded, KeyOf
    <2> QED
      BY <1>1, <2>1, <2>2, ReqAssumption DEF R4Holds, ActsAlone, AutoBounded, AutoRows, KeyOf
  <1>9. AnswersFollowCommits'
    BY <1>1, <1>2 DEF EInv, AnswersFollowCommits, FollowsCommit, AnswersAreFinal, Acked
  <1> QED
    BY <1>3, <1>4, <1>5, <1>6, <1>7, <1>8, <1>9 DEF EInv

LEMMA InitEffects ==
    ASSUME Init
    PROVE  EInv
  <1>1. /\ conn = NoReq /\ durable = {}
        /\ \A r \in Req : /\ pc[r] = "idle" /\ performed[r] = "none" /\ view[r] = NoRow /\ db[r] = NoRow
                          /\ outcome[r] = NoOutcome
    BY DEF Init
  <1>2. ActsOnce /\ NoUnsafeAutonomy /\ IncidentCountIsFresh
    BY <1>1 DEF ActsOnce, Acts, NoUnsafeAutonomy, IncidentCountIsFresh
  <1>3. HolderKnows /\ AnswersFollowCommits
    BY <1>1, ReqAssumption DEF HolderKnows, AnswersFollowCommits, FollowsCommit, Acked
  <1>4. RowsHaveAuthors /\ PagesComeFirst /\ PagedBeforePending
    BY <1>1 DEF RowsHaveAuthors, PagesComeFirst, PagedBeforePending, NoRow
  <1>5. R4Holds /\ AutoBounded
    <2>1. \A w : AutoRows(view, w) = {} /\ AutoRows(db, w) = {}
      BY <1>1 DEF AutoRows, NoRow
    <2>2. Cardinality({}) = 0
      BY FS_EmptySet
    <2>3. \A w : Cardinality(AutoRows(view, w)) <= HighIncidentThreshold
                   /\ Cardinality(AutoRows(db, w)) <= HighIncidentThreshold
      BY <2>1, <2>2 DEF HighIncidentThreshold
    <2> QED
      BY <1>1, <2>3, ReqAssumption DEF R4Holds, ActsAlone, AutoBounded, AutoRows, NoRow
  <1> QED
    BY <1>2, <1>3, <1>4, <1>5 DEF EInv

LEMMA StutterEffects ==
    ASSUME EInv, UNCHANGED vars
    PROVE  EInv'
  BY SMTT(30) DEF vars, EInv, ActsOnce, Acts, Permitted, NoUnsafeAutonomy, HolderKnows, Knows, RowsHaveAuthors,
         Effect, Vouches, PagesComeFirst, PagedBeforePending, IncidentCountIsFresh, SeenHistory,
         R4Holds, ActsAlone, AutoRows, Entries, AutoBounded, AnswersFollowCommits, FollowsCommit, Acked, KeyOf,
         Subject, Resolving

LEMMA StepEffects ==
    ASSUME IInv, EInv, [Next]_vars
    PROVE  EInv'
  <1>1. TypeOK /\ Rest
    BY InvariantParts
  <1>2. CASE \E r \in Req : Arrive(r) \/ Serve(r) \/ Fail(r)
    <2>1. PICK r \in Req : Arrive(r) \/ Serve(r) \/ Fail(r)
      BY <1>2
    <2>2. /\ ActsOnce /\ NoUnsafeAutonomy /\ HolderKnows /\ RowsHaveAuthors /\ PagesComeFirst
          /\ PagedBeforePending /\ IncidentCountIsFresh /\ R4Holds /\ AutoBounded
          /\ AnswersFollowCommits
      BY DEF EInv
    <2>3. ActsOnce' /\ NoUnsafeAutonomy' /\ HolderKnows'
      BY <1>1, <2>1, <2>2, ActsKeep, HolderKeeps
    <2>4. RowsHaveAuthors' /\ PagesComeFirst' /\ PagedBeforePending'
      BY <1>1, <2>1, <2>2, AuthorsKeep, PagesKeep
    <2>5. IncidentCountIsFresh' /\ R4Holds' /\ AutoBounded' /\ AnswersFollowCommits'
      BY <1>1, <2>1, <2>2, CountsKeep, R4Keeps, AnswersKeep
    <2> QED
      BY <2>3, <2>4, <2>5 DEF EInv
  <1> QED
    BY <1>1, <1>2, CrashEffects, StutterEffects DEF Next, Quiescent
-----------------------------------------------------------------------------
(* The guarantees *)

\* EInv holds in every reachable state: what the tables say of a remediation is
\* what committed requests did, whatever the LLM, the orchestrator and the faults do.
THEOREM EffectsInvariant == Spec => []EInv
  <1>1. Init => EInv
    BY InitEffects
  <1>2. IInv /\ EInv /\ [Next]_vars => EInv'
    BY StepEffects
  <1> QED
    BY <1>1, <1>2, InductiveInvariant, PTL DEF Spec

\* Without a human the orchestrator acts only where the rules of
\* ReasoningEngineService let it, whatever the LLM answered.
THEOREM AutonomyIsSafe == Spec => []NoUnsafeAutonomy
  <1>1. EInv => NoUnsafeAutonomy
    BY DEF EInv
  <1> QED
    BY <1>1, EffectsInvariant, PTL

\* The incident count that R4 compares after the await of the LLM is not stale.
THEOREM IncidentCountStaysFresh == Spec => []IncidentCountIsFresh
  <1>1. EInv => IncidentCountIsFresh
    BY DEF EInv
  <1> QED
    BY <1>1, EffectsInvariant, PTL

\* IngestEventUseCase pages on-call before it commits a decision that waits.
THEOREM PagesPrecedePending == Spec => []PagedBeforePending
  <1>1. EInv => PagedBeforePending
    BY DEF EInv
  <1> QED
    BY <1>1, EffectsInvariant, PTL

\* With a history limit that R4 can reach, R4 bounds the automatic decisions of
\* a workload for good.
THEOREM R4BoundsAutonomy == Spec => []AutoBounded
  <1>1. EInv => AutoBounded
    BY DEF EInv
  <1> QED
    BY <1>1, EffectsInvariant, PTL

LEMMA AuthorsVouch == IInv /\ EInv => ExecutedMeansPerformed
  <1> SUFFICES ASSUME IInv, EInv, NEW e \in Req, db[e].decision = "executed",
                      db[e].action \in OrchestratedActions
               PROVE  \E r \in durable : Subject(r) = e /\ performed[r] = db[e].action
    BY DEF ExecutedMeansPerformed
  <1>1. TypeOK /\ RowsHaveAuthors /\ RowsAreSound /\ durable \subseteq Req
    BY DEF IInv, EInv, TypeOK
  <1>2. SettledRow(db[e])
    BY DEF IInv, RecordsAgree, NoRow
  <1>3. CASE db[e].auto
    <2>1. e \in durable /\ call[e].kind = "ingest" /\ Subject(e) = e
      BY <1>1, <1>2, TypedParts DEF SettledRow, RowsHaveAuthors, RowsAreSound
    <2>2. Effect(e, db[e])
      BY <1>1, <2>1 DEF RowsHaveAuthors
    <2>3. performed[e] = db[e].action
      BY <1>3, <2>1, <2>2 DEF Effect, Vouches
    <2> QED
      BY <2>1, <2>3
  <1>4. CASE ~db[e].auto
    <2>1. db[e].approval = "approved"
      BY <1>2, <1>4 DEF SettledRow
    <2>2. PICK r \in durable : call[r].kind = "approve" /\ Subject(r) = e
      BY <1>1, <2>1 DEF RowsHaveAuthors
    <2>3. Effect(r, db[e])
      BY <1>1, <2>2 DEF RowsHaveAuthors
    <2>4. performed[r] = db[e].action
      BY <2>2, <2>3 DEF Effect, Vouches
    <2> QED
      BY <2>2, <2>4
  <1> QED
    BY <1>3, <1>4

\* A record that says "executed" is vouched for by a committed request that the
\* orchestrator served (ActionExecutorService.execute and its two callers).
THEOREM RecordsVouch == Spec => []ExecutedMeansPerformed
  BY AuthorsVouch, InductiveInvariant, EffectsInvariant, PTL

\* Whom the records of e can credit with a call: its ingestion, if the decision
\* was automatic, or the one who approved it.
LEMMA Credited ==
    ASSUME IInv, EInv, NEW e \in Req, db[e].event # "absent", NEW r \in Recorded(e)
    PROVE  /\ r \in Req /\ Subject(r) = e
           /\ \/ call[r].kind = "ingest" /\ r = e /\ db[e].auto
              \/ call[r].kind = "approve" /\ db[e].approval = "approved"
  <1>1. r \in durable /\ performed[r] # "none" /\ KeyOf(Subject(r)) = KeyOf(e)
    BY DEF Recorded
  <1>2. /\ TypeOK /\ RowsHaveAuthors /\ RowsAreSound /\ KeysAreUnique /\ durable \subseteq Req
        /\ Acts(r)
    BY <1>1 DEF IInv, EInv, TypeOK, ActsOnce
  <1>3. r \in Req /\ Subject(r) \in Req /\ call[r].kind \in {"ingest", "approve"}
        /\ (call[r].kind = "ingest" => Subject(r) = r)
    BY <1>1, <1>2, TypedParts DEF Acts
  <1>4. Effect(r, db[Subject(r)])
    BY <1>1, <1>2 DEF RowsHaveAuthors
  <1>5. db[Subject(r)].event # "absent"
    <2>1. CASE call[r].kind = "ingest"
      BY <1>4, <2>1 DEF Effect
    <2>2. CASE call[r].kind = "approve"
      <3>1. db[Subject(r)] # NoRow
        BY <1>4, <2>2 DEF Effect, NoRow
      <3> QED
        BY <1>3, <3>1 DEF IInv, RecordsAgree, SettledRow
    <2> QED
      BY <1>3, <2>1, <2>2
  <1>6. Subject(r) = e
    BY <1>1, <1>2, <1>3, <1>5 DEF RowsAreSound, KeysAreUnique
  <1> QED
    BY <1>1, <1>3, <1>4, <1>6 DEF Effect

\* A set without two different elements.
LEMMA AtMostOne ==
    ASSUME NEW S, \A r, s \in S : r = s
    PROVE  Cardinality(S) <= 1
  <1>1. CASE S = {}
    BY <1>1, FS_EmptySet
  <1>2. CASE S # {}
    <2>1. PICK r \in S : TRUE
      BY <1>2
    <2>2. S = {r}
      BY <2>1
    <2>3. Cardinality({r}) = 1
      BY FS_Singleton
    <2> QED
      BY <2>2, <2>3
  <1> QED
    BY <1>1, <1>2

\* The records of an event never credit two requests.
LEMMA OneIsCredited ==
    ASSUME IInv, EInv, NEW e \in Req, db[e].event # "absent",
           NEW r \in Recorded(e), NEW s \in Recorded(e)
    PROVE  r = s
  <1>1. db[e].auto => db[e].approval = "none"
    <2>1. SettledRow(db[e])
      BY DEF IInv, RecordsAgree, NoRow
    <2> QED
      BY <2>1 DEF SettledRow
  <1>2. Recorded(e) \subseteq durable
    BY DEF Recorded
  <1>3. CASE call[r].kind = "ingest"
    BY <1>1, <1>3, Credited
  <1>4. CASE call[r].kind = "approve"
    <2>1. Resolving(r) /\ Resolving(s) /\ Subject(r) = Subject(s)
      BY <1>1, <1>4, Credited DEF Resolving
    <2> QED
      BY <1>2, <2>1 DEF EInv, RowsHaveAuthors
  <1> QED
    BY <1>3, <1>4, Credited

LEMMA AuthorsAreCreditedOnce == IInv /\ EInv => RecordedOnce
  <1> SUFFICES ASSUME IInv, EInv, NEW e \in Req, db[e].event # "absent"
               PROVE  /\ Cardinality(Recorded(e)) <= 1
                      /\ db[e].approval = "rejected" => Recorded(e) = {}
    BY DEF RecordedOnce
  <1>1. SettledRow(db[e])
    BY DEF IInv, RecordsAgree, NoRow
  <1>2. db[e].auto => db[e].approval = "none"
    BY <1>1 DEF SettledRow
  <1>3. \A r, s \in Recorded(e) : r = s
    BY OneIsCredited
  <1>4. Cardinality(Recorded(e)) <= 1
    BY <1>3, AtMostOne
  <1>5. db[e].approval = "rejected" => Recorded(e) = {}
    BY <1>2, Credited
  <1> QED
    BY <1>4, <1>5

\* The records of an incident never credit two requests with a remediation, and
\* none when a human rejected it.
THEOREM RemediationsAreRecordedOnce == Spec => []RecordedOnce
  BY AuthorsAreCreditedOnce, InductiveInvariant, EffectsInvariant, PTL

\* If get_session commits before the answer, or neither a crash nor a failed
\* COMMIT can come between the two, an answered success is in the tables for good.
THEOREM AnswersAreKept == AnswersAreFinal => (Spec => []AckedIsDurable)
  <1> SUFFICES ASSUME AnswersAreFinal PROVE Spec => []AckedIsDurable
    OBVIOUS
  <1>1. ASSUME EInv PROVE AckedIsDurable
    <2>1. ASSUME NEW r \in Req, Acked(r) PROVE Shown(r)
      <3>1. r \in durable
        BY <1>1, <2>1 DEF EInv, AnswersFollowCommits, FollowsCommit
      <3>2. Effect(r, db[Subject(r)])
        BY <1>1, <3>1 DEF EInv, RowsHaveAuthors
      <3> QED
        BY <3>2 DEF Effect, Shown
    <2> QED
      BY <2>1 DEF AckedIsDurable
  <1> QED
    BY <1>1, EffectsInvariant, PTL

\* Under the same condition, of two humans who resolve one approval at most one
\* is answered with success.
THEOREM OneHumanResolves == AnswersAreFinal => (Spec => []OneResolution)
  <1> SUFFICES ASSUME AnswersAreFinal PROVE Spec => []OneResolution
    OBVIOUS
  <1>1. ASSUME EInv PROVE OneResolution
    <2>1. ASSUME NEW r \in Req, NEW s \in Req, Resolving(r), Resolving(s), Subject(r) = Subject(s),
                 Acked(r), Acked(s)
          PROVE  r = s
      <3>1. r \in durable /\ s \in durable
        BY <1>1, <2>1 DEF EInv, AnswersFollowCommits, FollowsCommit
      <3> QED
        BY <1>1, <2>1, <3>1 DEF EInv, RowsHaveAuthors
    <2> QED
      BY <2>1 DEF OneResolution
  <1> QED
    BY <1>1, EffectsInvariant, PTL
-----------------------------------------------------------------------------
(* What a second action takes *)

\* Phases in which what was done is about to be recorded and committed.
Closing == {"executed", "returning", "answered"}

\* Who has acted and is not forgotten has a row: committed with it, or still its own.
LEMMA ActedOnRow ==
    ASSUME IInv, EInv, NEW r \in Req, performed[r] # "none", ~Forgotten(r)
    PROVE  /\ Subject(r) \in Req /\ view[Subject(r)].event # "absent"
           /\ call[r].kind \in {"ingest", "approve"} /\ (call[r].kind = "ingest" => Subject(r) = r)
           /\ \/ r \in durable /\ db[Subject(r)].event # "absent"
              \/ conn = r /\ Knows(r)
  <1>1. /\ TypeOK /\ RowsHaveAuthors /\ RowsAreSound /\ Acts(r) /\ Exclusive
        /\ RecordsAgree /\ HandlerProgress /\ HolderKnows
    BY DEF IInv, EInv, ActsOnce
  <1>2. /\ Subject(r) \in Req /\ call[r].kind \in {"ingest", "approve"}
        /\ (call[r].kind = "ingest" => Subject(r) = r)
    BY <1>1, TypedParts DEF Acts
  <1>3. CASE r \in durable
    <2>1. Effect(r, db[Subject(r)])
      BY <1>1, <1>3 DEF RowsHaveAuthors
    <2>2. db[Subject(r)].event # "absent"
      <3>1. CASE call[r].kind = "ingest"
        BY <2>1, <3>1 DEF Effect
      <3>2. CASE call[r].kind = "approve"
        <4>1. db[Subject(r)] # NoRow
          BY <2>1, <3>2 DEF Effect, NoRow
        <4> QED
          BY <1>1, <1>2, <4>1 DEF RecordsAgree, SettledRow
      <3> QED
        BY <1>2, <3>1, <3>2
    <2> QED
      BY <1>1, <1>2, <1>3, <2>2 DEF RowsAreSound
  <1>4. CASE pc[r] \in Closing
    <2>1. conn = r /\ Knows(r) /\ Progress(r)
      <3>1. conn = r /\ pc[r] # "raising"
        <4>1. pc[r] \in HoldingPhases /\ pc[r] # "raising"
          BY <1>4 DEF Closing, HoldingPhases, EInv, AnswersFollowCommits, FollowsCommit
        <4> QED
          BY <1>1, <4>1 DEF Exclusive
      <3> QED
        BY <1>1, <3>1 DEF HolderKnows, HandlerProgress
    <2>2. view[Subject(r)].event # "absent"
      <3>1. CASE pc[r] = "executed"
        BY <1>2, <2>1, <3>1 DEF Progress, ProcessingRow, NoRow, AwaitsHuman, SettledRow
      <3>2. CASE pc[r] \in {"returning", "answered"}
        <4>1. Effect(r, view[Subject(r)])
          BY <2>1, <3>2 DEF Knows
        <4>2. view[Subject(r)] # NoRow
          BY <1>2, <4>1 DEF Effect, NoRow
        <4>3. SettledRow(view[Subject(r)])
          BY <1>2, <2>1, <3>2, <4>2 DEF Progress
        <4> QED
          BY <4>3 DEF SettledRow
      <3> QED
        BY <1>4, <3>1, <3>2 DEF Closing
    <2> QED
      BY <1>2, <2>1, <2>2
  <1>5. r \in durable \/ pc[r] \in Closing
    <2>1. pc[r] \in Phases \ (Before \cup Ended \cup {"raising"}) \/ r \in durable
      BY <1>1 DEF Acts, Forgotten, TypeOK
    <2>2. pc[r] = "committed" => r \in durable
      BY DEF EInv, AnswersFollowCommits, FollowsCommit
    <2> QED
      BY <2>1, <2>2 DEF Closing, Phases, Before, Ended
  <1> QED
    BY <1>3, <1>4, <1>5

\* Who acts for an incident finds its row new or pending, so nobody has acted for it.
LEMMA OneActs ==
    ASSUME IInv, EInv, NEW k, NEW r \in ActsOn(k), NEW s \in ActsOn(k),
           ~Forgotten(r), ~Forgotten(s)
    PROVE  r = s
  <1> DEFINE e == Subject(r)
  <1>1. /\ r \in Req /\ s \in Req /\ performed[r] # "none" /\ performed[s] # "none"
        /\ KeyOf(Subject(r)) = k /\ KeyOf(Subject(s)) = k
    BY DEF ActsOn
  <1>2. /\ e \in Req /\ view[e].event # "absent"
        /\ Subject(s) \in Req /\ view[Subject(s)].event # "absent"
    BY <1>1, ActedOnRow
  <1>3. Subject(s) = e
    BY <1>1, <1>2 DEF IInv, KeysAreUnique
  <1>4. db[e].auto => db[e].approval = "none"
    <2>1. db[e] = NoRow \/ SettledRow(db[e])
      BY <1>2 DEF IInv, RecordsAgree
    <2> QED
      BY <2>1 DEF NoRow, SettledRow
  <1>5. ASSUME NEW t \in Req, NEW u \in Req, performed[t] # "none", performed[u] # "none",
               ~Forgotten(t), ~Forgotten(u), Subject(t) = e, Subject(u) = e, t \in durable, db[e].event # "absent",
               conn = u, Knows(u)
        PROVE  FALSE
    <2>1. t \in Recorded(e)
      BY <1>5 DEF Recorded
    <2>2. db[e].auto \/ db[e].approval = "approved"
      BY <1>2, <1>5, <2>1, Credited
    <2>3. CASE call[u].kind = "ingest"
      <3>1. u = e
        BY <1>5, <2>3, ActedOnRow
      <3> QED
        BY <1>5, <2>3, <3>1 DEF Knows, NoRow
    <2>4. CASE call[u].kind = "approve"
      BY <1>4, <1>5, <2>2, <2>4 DEF Knows, Resolving
    <2> QED
      BY <1>5, <2>3, <2>4, ActedOnRow
  <1>6. \/ r \in durable /\ db[e].event # "absent"
        \/ conn = r /\ Knows(r)
    BY <1>1, ActedOnRow
  <1>7. \/ s \in durable /\ db[e].event # "absent"
        \/ conn = s /\ Knows(s)
    BY <1>1, <1>3, ActedOnRow
  <1>8. CASE r \in durable /\ s \in durable /\ db[e].event # "absent"
    <2>1. r \in Recorded(e) /\ s \in Recorded(e)
      BY <1>1, <1>3, <1>8 DEF Recorded
    <2> QED
      BY <1>2, <1>8, <2>1, OneIsCredited
  <1> QED
    BY <1>1, <1>3, <1>5, <1>6, <1>7, <1>8

\* Nobody has acted for an incident whose rejection is committed, and is remembered.
LEMMA RejectedIsLeftAlone ==
    ASSUME IInv, EInv, NEW e \in Req, db[e].approval = "rejected",
           NEW r \in ActsOn(KeyOf(e)), ~Forgotten(r)
    PROVE  FALSE
  <1>1. SettledRow(db[e]) /\ db[e].event # "absent"
    <2>1. db[e] # NoRow
      BY DEF NoRow
    <2>2. SettledRow(db[e])
      BY <2>1 DEF IInv, RecordsAgree
    <2> QED
      BY <2>2 DEF SettledRow
  <1>2. r \in Req /\ performed[r] # "none" /\ KeyOf(Subject(r)) = KeyOf(e)
    BY DEF ActsOn
  <1>3. /\ Subject(r) \in Req /\ view[Subject(r)].event # "absent"
        /\ call[r].kind \in {"ingest", "approve"} /\ (call[r].kind = "ingest" => Subject(r) = r)
        /\ \/ r \in durable /\ db[Subject(r)].event # "absent"
           \/ conn = r /\ Knows(r)
    BY <1>2, ActedOnRow
  <1>4. Subject(r) = e
    BY <1>1, <1>2, <1>3 DEF IInv, RowsAreSound, KeysAreUnique
  <1>5. CASE r \in durable
    <2>1. r \in Recorded(e)
      BY <1>2, <1>5 DEF Recorded
    <2>2. db[e].auto \/ db[e].approval = "approved"
      BY <1>1, <2>1, Credited
    <2> QED
      BY <1>1, <2>2 DEF SettledRow
  <1>6. CASE Knows(r)
    BY <1>1, <1>3, <1>4, <1>6 DEF Knows, Resolving, NoRow
  <1> QED
    BY <1>3, <1>5, <1>6

LEMMA RepeatsAreOfForgotten == IInv /\ EInv => RepeatsFollowLosses
  <1> SUFFICES ASSUME IInv, EInv, NEW r \in Req, NEW s \in Req, performed[r] # "none", r # s,
                      SameIncident(r, s), ~Forgotten(r)
               PROVE  /\ performed[s] # "none" => Forgotten(s)
                      /\ ~(s \in durable /\ call[s].kind = "reject")
    BY DEF RepeatsFollowLosses
  <1>1. r \in ActsOn(KeyOf(Subject(s)))
    BY DEF ActsOn, SameIncident
  <1>2. ASSUME performed[s] # "none" PROVE Forgotten(s)
    <2>1. s \in ActsOn(KeyOf(Subject(s)))
      BY <1>2 DEF ActsOn
    <2> QED
      BY <1>1, <2>1, OneActs
  <1>3. ASSUME s \in durable, call[s].kind = "reject" PROVE FALSE
    <2>1. Subject(s) \in Req
      BY TypedParts DEF IInv
    <2>2. db[Subject(s)].approval = "rejected"
      BY <1>3 DEF EInv, RowsHaveAuthors, Effect
    <2> QED
      BY <1>1, <2>1, <2>2, RejectedIsLeftAlone
  <1> QED
    BY <1>2, <1>3

\* Under every fault and interleaving, a second action on an incident, or one on a
\* rejected incident, takes a request that the server has forgotten: the loss of a
\* transaction is the only way in which Warden repeats itself.
THEOREM OnlyLossesRepeat == Spec => []RepeatsFollowLosses
  BY RepeatsAreOfForgotten, InductiveInvariant, EffectsInvariant, PTL
-----------------------------------------------------------------------------
(* Without lost transactions *)

\* No fault loses a transaction that has reached the orchestrator.
NothingIsLost == Faults \cap {"crash", "store", "commit"} = {}

\* Who has acted commits, or is about to.
EffectsCommit == \A r \in Req : performed[r] # "none" => r \in durable \/ pc[r] \in Closing

\* The steps that lead on from a call.
LEMMA ClosingStep ==
    ASSUME NothingIsLost, TypeOK, NEW r \in Req, Arrive(r) \/ Serve(r) \/ Fail(r)
    PROVE  /\ performed'[r] = performed[r] \/ pc'[r] \in Closing
           /\ pc[r] \in Closing => pc'[r] \in Closing \/ r \in durable'
  BY DEF NothingIsLost, Closing, Serve, Fail, Arrive, FindByDedupKey, FindDuplicate, SaveEvent,
         ReadHistory, Decide, RecordAutoDecision, RequestApproval, NotifyOncall, RecordPending,
         CallOrchestrator, NotifyHuman, NoAction, ToExecute, Executed, LoadAndValidate,
         ApprovalNotFound, ApprovalAlreadyResolved, RecordApproval, RecordRejection, GetEvent,
         Rollback, Commit, Committing, Answer, CommitFails, LookupFails, StoreFails, ProcessingRaises,
         PoolTimeout, Checkout, At, Raise, Return, Leave, Goto, TypeOK

LEMMA ClosingKeeps ==
    ASSUME NothingIsLost, TypeOK, EffectsCommit, [Next]_vars
    PROVE  EffectsCommit'
  <1>1. CASE \E r \in Req : Arrive(r) \/ Serve(r) \/ Fail(r)
    <2>1. PICK r \in Req : Arrive(r) \/ Serve(r) \/ Fail(r)
      BY <1>1
    <2>2. Own(r)
      BY <2>1, Frame
    <2>3. ASSUME NEW s \in Req, performed'[s] # "none"
          PROVE  s \in durable' \/ pc'[s] \in Closing
      <3>1. CASE s = r
        BY <2>1, <2>2, <2>3, <3>1, ClosingStep DEF EffectsCommit, Own
      <3>2. CASE s # r
        <4>1. performed'[s] = performed[s] /\ pc'[s] = pc[s]
          BY <2>2, <3>2 DEF Own, TypeOK
        <4> QED
          BY <2>2, <2>3, <4>1 DEF EffectsCommit, Own
      <3> QED
        BY <3>1, <3>2
    <2> QED
      BY <2>3 DEF EffectsCommit
  <1>2. CASE UNCHANGED vars
    BY <1>2 DEF EffectsCommit, vars
  <1> QED
    BY <1>1, <1>2 DEF Next, Crash, Quiescent, NothingIsLost

\* If neither a crash nor a failing statement or COMMIT loses a transaction, the
\* orchestrator acts at most once for an incident, over all deliveries of its webhook
\* and all approvals, and never once it was rejected.
THEOREM IncidentsAreRemediatedOnce == NothingIsLost => (Spec => []PerformedOnce)
  <1> SUFFICES ASSUME NothingIsLost PROVE Spec => []PerformedOnce
    OBVIOUS
  <1>1. Init => EffectsCommit
    BY DEF Init, EffectsCommit
  <1>2. IInv /\ EffectsCommit /\ [Next]_vars => EffectsCommit'
    BY ClosingKeeps DEF IInv
  <1>3. ASSUME IInv, EInv, EffectsCommit PROVE PerformedOnce
    <2> SUFFICES ASSUME NEW e \in Req, call[e].kind = "ingest"
                 PROVE  /\ Cardinality(ActsOn(KeyOf(e))) <= 1
                        /\ db[e].approval = "rejected" => ActsOn(KeyOf(e)) = {}
      BY DEF PerformedOnce
    <2>1. \A r \in ActsOn(KeyOf(e)) : ~Forgotten(r)
      BY <1>3 DEF ActsOn, EffectsCommit, Closing, Forgotten, Ended
    <2>2. Cardinality(ActsOn(KeyOf(e))) <= 1
      BY <1>3, <2>1, OneActs, AtMostOne
    <2>3. db[e].approval = "rejected" => ActsOn(KeyOf(e)) = {}
      BY <1>3, <2>1, RejectedIsLeftAlone
    <2> QED
      BY <2>2, <2>3
  <1> QED
    BY <1>1, <1>2, <1>3, InductiveInvariant, EffectsInvariant, PTL DEF Spec
=============================================================================

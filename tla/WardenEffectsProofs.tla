------------------------- MODULE WardenEffectsProofs -------------------------
(***************************************************************************)
(* EInv is inductive relative to IInv: behind every committed row there    *)
(* are the requests that wrote it and the calls they made.  From it follow *)
(* the properties about the orchestrator, the on-call service and the      *)
(* answers.                                                                *)
(*                                                                         *)
(* One lemma, Frame, says what the step of a request leaves alone; then    *)
(* each part of EInv has a lemma, which looks at the actions that can      *)
(* disturb the part.                                                       *)
(***************************************************************************)
EXTENDS WardenSafetyProofs, WardenEffects

\* What a step of r changes of its own.
Own(r) ==
    /\ pc' = [pc EXCEPT ![r] = pc'[r]]
    /\ mem' = [mem EXCEPT ![r] = mem'[r]]
    /\ outcome' = [outcome EXCEPT ![r] = outcome'[r]]
    /\ performed' = [performed EXCEPT ![r] = performed'[r]]
    /\ call' = call
    /\ durable \subseteq durable' /\ durable' \subseteq durable \cup {r}
    /\ \A e \in Req : paged[e] # "none" => paged'[e] # "none"

\* What it does to the connection and the rows.
Shared(r) ==
    /\ conn = r \/ conn = NoReq \/ UNCHANGED <<conn, view, db, durable>>
    /\ conn # r => UNCHANGED <<view, db, durable>>
    /\ conn' \in {conn, r, NoReq}
    /\ db' = db \/ (db' = view /\ view' = view)

LEMMA Frame ==
    ASSUME TypeOK, NEW r \in Req, Arrive(r) \/ Serve(r) \/ Fail(r)
    PROVE  Own(r) /\ Shared(r)
  <1> USE ReqAssumption DEF TypeOK, Own, Shared, Goto, Leave, Raise, Return, Checkout, ConnectionFree, At
  <1>1. CASE Arrive(r)
    BY <1>1 DEF Arrive
  <1>2. CASE FindByDedupKey(r)
    BY <1>2 DEF FindByDedupKey
  <1>3. CASE FindDuplicate(r)
    BY <1>3 DEF FindDuplicate
  <1>4. CASE SaveEvent(r)
    BY <1>4 DEF SaveEvent
  <1>5. CASE ReadHistory(r)
    BY <1>5 DEF ReadHistory
  <1>6. CASE Decide(r)
    BY <1>6 DEF Decide
  <1>7. CASE RecordAutoDecision(r)
    BY <1>7 DEF RecordAutoDecision
  <1>8. CASE RequestApproval(r)
    BY <1>8 DEF RequestApproval
  <1>9. CASE NotifyOncall(r)
    BY <1>9 DEF NotifyOncall, Page
  <1>10. CASE RecordPending(r)
    BY <1>10 DEF RecordPending
  <1>11. CASE CallOrchestrator(r)
    BY <1>11 DEF CallOrchestrator, Executed, ToExecute
  <1>12. CASE NotifyHuman(r)
    BY <1>12, TypedParts DEF NotifyHuman, Executed, ToExecute, Page
  <1>13. CASE NoAction(r)
    BY <1>13 DEF NoAction, Executed, ToExecute
  <1>14. CASE LoadAndValidate(r)
    BY <1>14 DEF LoadAndValidate
  <1>15. CASE ApprovalNotFound(r) \/ ApprovalAlreadyResolved(r)
    BY <1>15 DEF ApprovalNotFound, ApprovalAlreadyResolved
  <1>16. CASE RecordApproval(r)
    BY <1>16 DEF RecordApproval
  <1>17. CASE RecordRejection(r)
    BY <1>17 DEF RecordRejection
  <1>18. CASE GetEvent(r)
    BY <1>18 DEF GetEvent
  <1>19. CASE Rollback(r)
    BY <1>19 DEF Rollback
  <1>20. CASE Commit(r)
    BY <1>20 DEF Commit, Committing
  <1>21. CASE Answer(r)
    BY <1>21 DEF Answer
  <1>22. CASE CommitFails(r)
    BY <1>22 DEF CommitFails, Committing
  <1>23. CASE StoreFails(r)
    BY <1>23 DEF StoreFails
  <1>24. CASE ProcessingRaises(r)
    BY <1>24 DEF ProcessingRaises
  <1>25. CASE PoolTimeout(r)
    BY <1>25 DEF PoolTimeout
  <1>26. CASE LookupFails(r)
    BY <1>26 DEF LookupFails
  <1> QED
    BY <1>1, <1>2, <1>3, <1>4, <1>5, <1>6, <1>7, <1>8, <1>9, <1>10, <1>11, <1>12, <1>13, <1>14,
       <1>15, <1>16, <1>17, <1>18, <1>19, <1>20, <1>21, <1>22, <1>23, <1>24, <1>25, <1>26
       DEF Serve, Fail
-----------------------------------------------------------------------------
(* Acting *)

\* What the rules let through is permitted.
LEMMA RestrictedPermits ==
    ASSUME NEW r \in Req, NEW raw \in RawFor(r), Restricted(r, raw), mem[r].seen \in Nat
    PROVE  Permitted(r, raw.action) /\ mem[r].seen < HighIncidentThreshold
  <1>1. raw.safe /\ RestrictionsApplied(call[r].body.severity,
                       WorkloadOf[KeyOf(r)] \in ProdWorkloads, raw, mem[r].seen) = {}
    BY DEF Restricted, SafeToAuto
  <1>2. \A rule \in Rules : ~Fires(rule, call[r].body.severity,
                       WorkloadOf[KeyOf(r)] \in ProdWorkloads, raw, mem[r].seen)
    BY <1>1 DEF RestrictionsApplied
  <1>3. ~call[r].body.suspicious
    BY <1>1 DEF RawFor, Fallback
  <1> QED
    BY <1>2, <1>3 DEF Rules, Fires, Permitted, HighIncidentThreshold

\* The requests that take no step keep their part.
LEMMA OthersAct ==
    ASSUME TypeOK, Exclusive, ActsOnce, NEW r \in Req, Own(r), Shared(r),
           NEW s \in Req, s # r
    PROVE  Acts(s)'
  <1>1. pc[s] \in {"validated", "executed"} => view' = view
    BY DEF Exclusive, HoldingPhases, Shared
  <1>2. /\ pc'[s] = pc[s] /\ mem'[s] = mem[s] /\ performed'[s] = performed[s] /\ call'[s] = call[s]
    BY DEF Own, TypeOK
  <1>3. Acts(s)
    BY DEF ActsOnce
  <1> QED
    BY <1>1, <1>2, <1>3 DEF Acts, Permitted, KeyOf, Subject, Own

LEMMA ActsKeep ==
    ASSUME TypeOK, Rest, ActsOnce, NoUnsafeAutonomy,
           NEW r \in Req, Arrive(r) \/ Serve(r) \/ Fail(r)
    PROVE  ActsOnce' /\ NoUnsafeAutonomy'
  <1>0. Own(r) /\ Shared(r)
    BY Frame
  <1>1. Acts(r) /\ call' = call /\ mem[r] \in Mems /\ (conn = r => Progress(r))
    BY <1>0, TypedParts DEF ActsOnce, Own, Rest, HandlerProgress
  <1>2. CASE CallOrchestrator(r)
    <2>1. PICK reply \in OrchestratorReplies :
             /\ performed' = [performed EXCEPT ![r] = IF reply.carriedOut THEN mem[r].action ELSE @]
             /\ Executed(r, reply.success)
      BY <1>2 DEF CallOrchestrator
    <2>2. /\ performed'[r] \in {"none", mem[r].action} /\ performed[r] = "none"
          /\ reply.success => performed'[r] = mem[r].action
      BY <1>1, <1>2, <2>1 DEF CallOrchestrator, ToExecute, At, OrchestratorReplies, Acts, Before, TypeOK
    <2>3. /\ pc'[r] = "executed" /\ mem'[r].action = mem[r].action /\ mem'[r].success = reply.success
      BY <2>1 DEF Executed, Goto, TypeOK, Mems
    <2>4. \/ call[r].kind = "ingest" /\ Permitted(r, mem[r].action)
          \/ call[r].kind = "approve" /\ mem[r].action = view[Subject(r)].action
      BY <1>1, <1>2 DEF CallOrchestrator, ToExecute, At, Progress, Acts
    <2>5. Acts(r)'
      BY <1>1, <1>2, <2>2, <2>3, <2>4 DEF Acts, Before, CallOrchestrator, Subject
    <2>6. NoUnsafeAutonomy'
      BY <1>0, <1>1, <2>2, <2>4 DEF NoUnsafeAutonomy, Permitted, KeyOf, Own, TypeOK
    <2> QED
      BY <1>0, <2>5, <2>6, OthersAct DEF ActsOnce, Rest
  <1>3. ASSUME ~CallOrchestrator(r) PROVE performed' = performed
    BY <1>3 DEF Serve, Fail, Arrive, FindByDedupKey, FindDuplicate, SaveEvent, ReadHistory, Decide,
         RecordAutoDecision, RequestApproval, NotifyOncall, RecordPending, NotifyHuman, NoAction,
         LoadAndValidate, ApprovalNotFound, ApprovalAlreadyResolved, RecordApproval, RecordRejection,
         GetEvent, Rollback, Commit, Answer, CommitFails, LookupFails, StoreFails, ProcessingRaises,
         PoolTimeout
  <1>4. performed' = performed => NoUnsafeAutonomy'
    BY <1>1 DEF NoUnsafeAutonomy, KeyOf
  <1>5. CASE Decide(r)
    <2>1. PICK raw \in RawFor(r) : mem' = [mem EXCEPT ![r] =
                     [@ EXCEPT !.action = raw.action, !.auto = Restricted(r, raw)]]
      BY <1>5 DEF Decide
    <2>2. /\ mem'[r].action = raw.action /\ mem'[r].seen = mem[r].seen
          /\ mem'[r].auto = Restricted(r, raw)
      BY <1>1, <2>1 DEF TypeOK, Mems
    <2>3. mem'[r].auto => Permitted(r, mem'[r].action) /\ mem'[r].seen < HighIncidentThreshold
      BY <1>1, <2>2, RestrictedPermits DEF Mems
    <2>4. /\ pc[r] = "reasoning" /\ pc'[r] = "decided" /\ performed' = performed
      BY <1>5 DEF Decide, At, Goto, TypeOK
    <2>5. Acts(r)'
      BY <1>1, <2>3, <2>4 DEF Acts, Before, Permitted, KeyOf
    <2> QED
      BY <1>0, <1>4, <2>4, <2>5, OthersAct DEF ActsOnce, Rest
  <1>6. CASE LoadAndValidate(r)
    <2>1. /\ pc[r] = "waiting" /\ pc'[r] = "validated" /\ performed' = performed
          /\ mem'[r].action = view'[Subject(r)].action
      BY <1>1, <1>6 DEF LoadAndValidate, Checkout, Goto, TypeOK, Mems
    <2>2. Acts(r)'
      BY <1>1, <2>1 DEF Acts, Before, Subject
    <2> QED
      BY <1>0, <1>4, <2>1, <2>2, OthersAct DEF ActsOnce, Rest
  <1>7. CASE NotifyHuman(r) \/ NoAction(r)
    <2>1. /\ pc'[r] = "executed" /\ mem'[r].action = mem[r].action /\ performed' = performed
          /\ pc[r] \in {"decided", "validated"} /\ view' = view
          /\ mem[r].action \notin OrchestratedActions
      <3>1. PICK success : Executed(r, success)
        BY <1>7 DEF NotifyHuman, NoAction
      <3>2. pc'[r] = "executed" /\ mem'[r].action = mem[r].action
        BY <1>1, <3>1 DEF Executed, Goto, TypeOK, Mems
      <3> QED
        BY <1>7, <3>2 DEF NotifyHuman, NoAction, ToExecute, At, OrchestratedActions
    <2>2. pc[r] = "validated" \/ call[r].kind = "ingest"
      BY <1>1, <1>7 DEF NotifyHuman, NoAction, ToExecute, At, Progress
    <2>3. Acts(r)'
      BY <1>1, <2>1, <2>2 DEF Acts, Before, Subject
    <2> QED
      BY <1>0, <1>4, <2>1, <2>3, OthersAct DEF ActsOnce, Rest
  <1>8. ASSUME ~CallOrchestrator(r), ~Decide(r), ~LoadAndValidate(r), ~NotifyHuman(r), ~NoAction(r)
        PROVE  /\ performed[r] = "none" \/ pc'[r] \notin Before
               /\ pc'[r] \notin {"decided", "executed", "validated"}
    <2> USE <1>1 DEF Acts, Before, Goto, Leave, Raise, Return, Checkout, At, TypeOK
    <2>1. CASE Arrive(r) \/ FindByDedupKey(r) \/ SaveEvent(r) \/ ReadHistory(r)
                 \/ RequestApproval(r) \/ NotifyOncall(r)
      BY <2>1 DEF Arrive, FindByDedupKey, SaveEvent, ReadHistory, RequestApproval, NotifyOncall
    <2>2. CASE \E code, e : Raise(r, code, e)
      BY <2>2
    <2>3. CASE Return(r)
      BY <2>3
    <2>4. CASE Rollback(r) \/ Commit(r) \/ Answer(r) \/ CommitFails(r) \/ PoolTimeout(r)
      BY <2>4 DEF Rollback, Commit, Answer, CommitFails, PoolTimeout
    <2> QED
      BY <1>8, <2>1, <2>2, <2>3, <2>4
         DEF Serve, Fail, FindDuplicate, ApprovalNotFound, ApprovalAlreadyResolved, GetEvent,
             RecordAutoDecision, RecordPending, RecordApproval, RecordRejection, LookupFails,
             StoreFails, ProcessingRaises
  <1>9. ASSUME ~CallOrchestrator(r), ~Decide(r), ~LoadAndValidate(r), ~NotifyHuman(r), ~NoAction(r)
        PROVE  ActsOnce' /\ NoUnsafeAutonomy'
    <2>1. Acts(r)'
      BY <1>1, <1>3, <1>8, <1>9 DEF Acts
    <2> QED
      BY <1>0, <1>3, <1>4, <1>9, <2>1, OthersAct DEF ActsOnce, Rest
  <1> QED
    BY <1>2, <1>5, <1>6, <1>7, <1>9
-----------------------------------------------------------------------------
(* The holder of the connection *)

\* A holder other than r sees nothing of the step.
LEMMA OthersKnow ==
    ASSUME TypeOK, HolderKnows, NEW r \in Req, Own(r), Shared(r),
           NEW s \in Req, s # r, conn' = s, pc'[s] # "raising"
    PROVE  Knows(s)'
  <1>1. conn = s /\ view' = view /\ db' = db
    BY ReqAssumption DEF Shared
  <1>2. pc'[s] = pc[s] /\ performed'[s] = performed[s] /\ call' = call
    BY DEF Own, TypeOK
  <1>3. Knows(s)
    BY <1>1, <1>2 DEF HolderKnows
  <1> QED
    BY <1>1, <1>2, <1>3 DEF Knows, Effect, Vouches, Resolving, Subject

\* A step of the holder that writes nothing and does not return.
LEMMA KnowsOn ==
    ASSUME HolderKnows, NEW r \in Req, conn = r, pc[r] # "raising",
           UNCHANGED <<call, view, db>>, pc'[r] \notin {"returning", "answered"}
    PROVE  Knows(r)'
  BY DEF HolderKnows, Knows, Resolving, Subject

\* The requests that have read their row find it pending, missing or as it is.
LEMMA HolderKeeps ==
    ASSUME TypeOK, Rest, ActsOnce, HolderKnows,
           NEW r \in Req, Arrive(r) \/ Serve(r) \/ Fail(r)
    PROVE  HolderKnows'
  <1>0. Own(r) /\ Shared(r)
    BY Frame
  <1>1. /\ Acts(r) /\ call' = call /\ (conn = r => Progress(r))
        /\ mem[r] \in Mems /\ view[r] \in Rows /\ Subject(r) \in Req
        /\ call[r].kind = "ingest" => Subject(r) = r
        /\ call[r].kind \in AllKinds /\ view \in [Req -> Rows]
    BY <1>0, TypedParts DEF ActsOnce, Own, Rest, HandlerProgress, TypeOK
  <1> SUFFICES ASSUME conn' = r, pc'[r] # "raising"
               PROVE  Knows(r)'
    BY <1>0, OthersKnow DEF HolderKnows
  <1>2. CASE FindByDedupKey(r)
    <2>1. view = db /\ db' = db /\ view' = view
      BY <1>2, CheckedOut DEF FindByDedupKey, Rest, Uncommitted
    <2>2. view[r] = NoRow /\ call[r].kind = "ingest" /\ pc'[r] = "fresh"
      BY <1>2 DEF FindByDedupKey, Existing, Rest, RowInvariant, RowsAreSound, Goto, TypeOK
    <2> QED
      BY <1>1, <2>1, <2>2 DEF Knows, Resolving, NoRow
  <1>3. CASE LoadAndValidate(r)
    <2>1. view = db /\ db' = db /\ view' = view
      BY <1>3, CheckedOut DEF LoadAndValidate, Rest, Uncommitted
    <2> QED
      BY <1>1, <1>3, <2>1 DEF LoadAndValidate, Knows, Resolving, Subject, Goto, TypeOK
  <1>4. CASE GetEvent(r)
    <2>1. view = db /\ db' = db /\ view' = view
      BY <1>4, CheckedOut DEF GetEvent, Rest, Uncommitted
    <2> QED
      BY <1>1, <1>4, <2>1 DEF GetEvent, Knows, Resolving, Subject, Effect
  <1>5. CASE SaveEvent(r)
    <2>1. conn = r /\ pc[r] = "fresh" /\ pc'[r] = "processing" /\ db' = db
      BY <1>5 DEF SaveEvent, At, Goto, TypeOK
    <2>2. call[r].kind = "ingest" /\ Existing(KeyOf(r)) = {}
      BY <1>1, <2>1 DEF Progress
    <2>3. view'[r] = ProcessingRow
      BY <1>1, <1>5, <2>1, <2>2, InsertedRow DEF SaveEvent, Rest, Uncommitted
    <2> QED
      BY <1>1, <2>1, <2>2, <2>3 DEF HolderKnows, Knows, ProcessingRow, NoRow, Resolving
  <1>6. CASE RequestApproval(r)
    <2>1. conn = r /\ pc[r] = "decided" /\ pc'[r] = "requested" /\ db' = db /\ view'[r].approval = "pending"
      BY <1>1, <1>6 DEF RequestApproval, At, Goto, TypeOK, Rows
    <2>2. call[r].kind = "ingest"
      BY <1>1, <2>1 DEF Progress
    <2> QED
      BY <1>1, <2>1, <2>2 DEF HolderKnows, Knows, Resolving
  <1>7. CASE RecordAutoDecision(r)
    <2>1. conn = r /\ pc[r] = "executed" /\ pc'[r] = "returning" /\ db' = db /\ performed' = performed
            /\ call[r].kind = "ingest"
      BY <1>7 DEF RecordAutoDecision, At, Return, Leave, Goto, TypeOK
    <2>2. /\ view'[r].event = "processed" /\ view'[r].action = mem[r].action /\ view'[r].auto = TRUE
          /\ view'[r].decision = IF mem[r].success THEN "executed" ELSE "failed"
          /\ view'[r].approval = "none"
      BY <1>7 DEF RecordAutoDecision, TypeOK
    <2>3. Vouches(r, view[r])'
      BY <1>1, <2>1, <2>2 DEF Vouches, Acts
    <2> QED
      BY <1>1, <2>1, <2>2, <2>3 DEF HolderKnows, Knows, Effect, Resolving, Subject
  <1>8. CASE RecordPending(r)
    <2>1. conn = r /\ pc[r] = "notified" /\ pc'[r] = "returning" /\ db' = db /\ performed' = performed
      BY <1>8 DEF RecordPending, At, Return, Leave, Goto, TypeOK
    <2>2. call[r].kind = "ingest" /\ view[r] = RequestedRow(mem[r].action) /\ mem[r].action \in Actions
      BY <1>1, <2>1 DEF Progress
    <2>3. view[r].auto = FALSE /\ view[r].approval = "pending"
      BY <2>2, RequestedColumns
    <2>4. view'[r] = [view[r] EXCEPT !.event = "processed", !.history = "pending"]
      BY <1>1, <1>8 DEF RecordPending
    <2>5. view'[r].event = "processed" /\ view'[r].auto = FALSE /\ view'[r].approval = "pending"
      BY <1>1, <2>3, <2>4 DEF Rows
    <2>6. performed'[r] = "none"
      BY <1>1, <2>1 DEF Acts, Before
    <2>7. Effect(r, view[r])'
      BY <1>1, <2>2, <2>5, <2>6 DEF Effect
    <2>8. db'[r] = NoRow
      BY <2>1, <2>2 DEF HolderKnows, Knows
    <2> QED
      BY <1>1, <2>2, <2>5, <2>7, <2>8 DEF Knows, Resolving, Subject
  <1>9. CASE RecordApproval(r)
    <2>1. conn = r /\ pc[r] = "executed" /\ pc'[r] = "returning" /\ db' = db /\ performed' = performed
            /\ call[r].kind = "approve"
      BY <1>9 DEF RecordApproval, At, Return, Leave, Goto, TypeOK
    <2>2. view[Subject(r)] \in Rows
      BY <1>1
    <2>3. /\ view'[Subject(r)].approval = "approved" /\ view'[Subject(r)].action = view[Subject(r)].action
          /\ view'[Subject(r)].decision = IF mem[r].success THEN "executed" ELSE "failed"
      BY <1>1, <1>9, <2>2 DEF RecordApproval, Rows
    <2>4. Vouches(r, view[Subject(r)])'
      BY <1>1, <2>1, <2>3 DEF Vouches, Acts, Subject
    <2> QED
      BY <1>1, <2>1, <2>3, <2>4 DEF HolderKnows, Knows, Effect, Resolving, Subject
  <1>10. CASE RecordRejection(r)
    <2>1. conn = r /\ pc[r] = "validated" /\ pc'[r] = "returning" /\ db' = db /\ call[r].kind = "reject"
      BY <1>10 DEF RecordRejection, At, Return, Leave, Goto, TypeOK
    <2>2. view'[Subject(r)] = [view[Subject(r)] EXCEPT !.approval = "rejected",
                                                       !.history = "rejected_by_human"]
      BY <1>1, <1>10 DEF RecordRejection
    <2>3. view'[Subject(r)].approval = "rejected"
      BY <1>1, <2>2 DEF Rows
    <2>4. Subject(r)' = Subject(r)
      BY <1>1 DEF Subject
    <2>5. Effect(r, view[Subject(r)])'
      BY <1>1, <2>1, <2>3, <2>4 DEF Effect
    <2>6. db[Subject(r)].approval = "pending"
      BY <2>1 DEF HolderKnows, Knows, Resolving
    <2> QED
      BY <1>1, <2>1, <2>4, <2>5, <2>6 DEF Knows, Resolving
  <1>11. CASE ReadHistory(r) \/ Decide(r) \/ NotifyOncall(r)
                \/ CallOrchestrator(r) \/ NotifyHuman(r) \/ NoAction(r)
    <2>1. /\ conn = r /\ UNCHANGED <<call, view, db>>
          /\ pc[r] \in {"processing", "reasoning", "requested", "decided", "validated"}
      BY <1>11 DEF ReadHistory, Decide, NotifyOncall, CallOrchestrator, NotifyHuman, NoAction,
                   ToExecute, At
    <2>2. pc'[r] \in {"reasoning", "decided", "notified", "executed"}
      BY <1>11 DEF ReadHistory, Decide, NotifyOncall, CallOrchestrator, NotifyHuman, NoAction,
                   Executed, Goto, TypeOK
    <2> QED
      BY <2>1, <2>2, KnowsOn
  <1>12. CASE Answer(r)
    <2>1. /\ pc[r] \in {"committed", "returning"} /\ conn = r
          /\ UNCHANGED <<call, view, db, performed>>
      BY <1>12 DEF Answer
    <2>2. pc[r] = "returning"
      BY <2>1 DEF Rest, Exclusive, HoldingPhases
    <2> QED
      BY <2>1, <2>2 DEF HolderKnows, Knows, Effect, Vouches, Resolving, Subject
  <1>13. CASE Arrive(r) \/ FindDuplicate(r) \/ ApprovalNotFound(r) \/ ApprovalAlreadyResolved(r)
                \/ Rollback(r) \/ Commit(r) \/ Fail(r)
    <2> USE DEF Raise, Leave, Goto, TypeOK
    <2>1. CASE Arrive(r) \/ PoolTimeout(r)
      BY <2>1, ReqAssumption DEF Arrive, PoolTimeout, Rest, Exclusive, HoldingPhases
    <2>2. CASE FindDuplicate(r) \/ ApprovalNotFound(r) \/ ApprovalAlreadyResolved(r)
                 \/ LookupFails(r) \/ StoreFails(r) \/ ProcessingRaises(r)
      BY <2>2 DEF FindDuplicate, ApprovalNotFound, ApprovalAlreadyResolved, LookupFails, StoreFails,
                  ProcessingRaises
    <2>3. CASE Rollback(r) \/ Commit(r) \/ CommitFails(r)
      BY <2>3, ReqAssumption DEF Rollback, Commit, CommitFails
    <2> QED
      BY <1>13, <2>1, <2>2, <2>3 DEF Fail
  <1> QED
    BY <1>2, <1>3, <1>4, <1>5, <1>6, <1>7, <1>8, <1>9, <1>10, <1>11, <1>12, <1>13 DEF Serve
=============================================================================

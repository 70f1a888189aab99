-------------------------- MODULE WardenSafetyProofs --------------------------
(***************************************************************************)
(* TypeOK is inductive, and so is IInv: for every set of requests,         *)
(* payloads, LLM answers, faults, history limit and commit order, the      *)
(* variables stay in their ranges, the records of every committed event    *)
(* agree, the insert of an event never meets its own key, and a 409 names  *)
(* an event that stays.                                                    *)
(*                                                                         *)
(* A step either leaves the rows alone, writes a row that the connection   *)
(* already sees, inserts a row, resets the view to the committed rows, or  *)
(* commits it.  One lemma per class says what the class keeps; the steps   *)
(* are then told apart by what the holder of the connection knows.         *)
(***************************************************************************)
EXTENDS Warden, FiniteSetTheorems, TLAPS

\* What the fields of a call are.
LEMMA CallIsTyped ==
    ASSUME NEW r \in Req, NEW c \in Calls(r)
    PROVE  /\ c.event \in Req
           /\ c.kind \in AllKinds
           /\ c.kind = "ingest" => c.event = r /\ c.body \in AllBodies
  BY InputAssumption DEF Calls, AllKinds

\* A limited count of rows is a number.
LEMMA LimitedIsNat ==
    ASSUME NEW rows \in Nat, NEW limit \in Nat
    PROVE  Limited(rows, limit) \in Nat
  BY DEF Limited

LEMMA SeenHistoryIsNat ==
    ASSUME NEW w
    PROVE  SeenHistory(w) \in Nat
  <1>1. Entries(w) \subseteq Req
    BY DEF Entries
  <1>2. IsFiniteSet(Entries(w))
    BY <1>1, ReqAssumption, FS_Subset
  <1>3. Cardinality(Entries(w)) \in Nat
    BY <1>2, FS_CardinalityType
  <1> QED
    BY <1>3, InputAssumption, LimitedIsNat DEF SeenHistory

\* The raw decisions that a request may be given are typed.
LEMMA RawIsTyped ==
    ASSUME NEW r, NEW raw \in RawFor(r)
    PROVE  raw \in RawDecisions
  <1>1. Fallback \in RawDecisions
    BY DEF Fallback, RawDecisions, Actions, Confidences
  <1> QED
    BY <1>1, InputAssumption DEF RawFor

LEMMA InitTyped == Init => TypeOK
  <1> SUFFICES ASSUME Init PROVE TypeOK
    OBVIOUS
  <1>1. NoMem \in Mems
    BY DEF NoMem, Mems
  <1>2. NoRow \in Rows
    BY DEF NoRow, Rows, EventStatuses, ExecutionStatuses, ApprovalStatuses, OutcomeStatuses
  <1>3. NoOutcome \in Outcomes
    BY DEF NoOutcome, Outcomes, Codes
  <1> QED
    BY <1>1, <1>2, <1>3 DEF Init, TypeOK, Phases
-----------------------------------------------------------------------------
(* Type correctness.  The leaves of a step expand the ranges they write to. *)

\* The parts of TypeOK that an action can change.
LEMMA TypedParts ==
    ASSUME TypeOK
    PROVE  /\ \A r \in Req : /\ Subject(r) \in Req
                             /\ pc[r] \in Phases /\ mem[r] \in Mems /\ outcome[r] \in Outcomes
                             /\ view[r] \in Rows /\ db[r] \in Rows
                             /\ call[r] \in Calls(r)
                             /\ call[r].kind \in AllKinds
                             /\ call[r].kind = "ingest" => Subject(r) = r
  BY CallIsTyped DEF TypeOK, Subject

\* The variables that the end of a handler writes.
LEMMA LeaveTyped ==
    ASSUME TypeOK, NEW r \in Req, NEW phase \in Phases, Leave(r, phase)
    PROVE  pc' \in [Req -> Phases] /\ mem' \in [Req -> Mems]
  <1>1. NoMem \in Mems
    BY DEF NoMem, Mems
  <1> QED
    BY <1>1 DEF TypeOK, Leave, Goto

LEMMA RaiseTyped ==
    ASSUME TypeOK, NEW r \in Req, NEW code \in Codes, NEW e \in Req \cup {NoReq},
           Raise(r, code, e)
    PROVE  pc' \in [Req -> Phases] /\ mem' \in [Req -> Mems] /\ outcome' \in [Req -> Outcomes]
  <1>1. "raising" \in Phases
    BY DEF Phases
  <1>2. [code |-> code, event |-> e] \in Outcomes
    BY DEF Outcomes
  <1> QED
    BY <1>1, <1>2, LeaveTyped DEF TypeOK, Raise

LEMMA ReturnTyped ==
    ASSUME TypeOK, NEW r \in Req, Return(r)
    PROVE  pc' \in [Req -> Phases] /\ mem' \in [Req -> Mems] /\ outcome' \in [Req -> Outcomes]
  <1>1. "returning" \in Phases
    BY DEF Phases
  <1>2. [code |-> "ok", event |-> Subject(r)] \in Outcomes
    BY TypedParts DEF Outcomes, Codes
  <1> QED
    BY <1>1, <1>2, LeaveTyped DEF TypeOK, Return

\* The updates of a row that the handlers make keep it a row.
LEMMA RowUpdates ==
    ASSUME NEW row \in Rows, NEW action \in Actions \cup {"none"}
    PROVE  /\ \A status \in EventStatuses : [row EXCEPT !.event = status] \in Rows
           /\ [row EXCEPT !.event = "processed", !.history = "pending"] \in Rows
           /\ [row EXCEPT !.action = action, !.auto = FALSE, !.decision = "pending_approval",
                          !.approval = "pending"] \in Rows
           /\ [row EXCEPT !.approval = "rejected", !.history = "rejected_by_human"] \in Rows
           /\ \A status \in {"executed", "failed"}, history \in {"approved_by_human", "failed"} :
                 [row EXCEPT !.decision = status, !.approval = "approved", !.history = history] \in Rows
  <1>1. \A status \in EventStatuses : [row EXCEPT !.event = status] \in Rows
    BY DEF Rows
  <1>2. [row EXCEPT !.event = "processed", !.history = "pending"] \in Rows
    BY DEF Rows, EventStatuses, OutcomeStatuses
  <1>3. [row EXCEPT !.action = action, !.auto = FALSE, !.decision = "pending_approval",
                    !.approval = "pending"] \in Rows
    BY DEF Rows, ExecutionStatuses, ApprovalStatuses
  <1>4. [row EXCEPT !.approval = "rejected", !.history = "rejected_by_human"] \in Rows
    BY DEF Rows, ApprovalStatuses, OutcomeStatuses
  <1>5. \A status \in {"executed", "failed"}, history \in {"approved_by_human", "failed"} :
           [row EXCEPT !.decision = status, !.approval = "approved", !.history = history] \in Rows
    BY DEF Rows, ExecutionStatuses, ApprovalStatuses, OutcomeStatuses
  <1> QED
    BY <1>1, <1>2, <1>3, <1>4, <1>5

LEMMA MemUpdates ==
    ASSUME NEW m \in Mems, NEW action \in Actions \cup {"none"}, NEW bool \in BOOLEAN, NEW n \in Nat
    PROVE  /\ [m EXCEPT !.seen = n] \in Mems
           /\ [m EXCEPT !.action = action] \in Mems
           /\ [m EXCEPT !.action = action, !.auto = bool] \in Mems
           /\ [m EXCEPT !.success = bool] \in Mems
  BY DEF Mems

LEMMA IngestTyped ==
    ASSUME TypeOK, NEW r \in Req,
           Arrive(r) \/ FindByDedupKey(r) \/ FindDuplicate(r) \/ SaveEvent(r) \/ ReadHistory(r)
             \/ Decide(r) \/ RecordAutoDecision(r) \/ RequestApproval(r)
             \/ NotifyOncall(r) \/ RecordPending(r)
    PROVE  TypeOK'
  <1> USE TypedParts DEF TypeOK, Goto
  <1>1. CASE Arrive(r)
    BY <1>1 DEF Arrive, Phases
  <1>2. CASE FindByDedupKey(r)
    BY <1>2 DEF FindByDedupKey, Checkout, Phases
  <1>3. CASE FindDuplicate(r)
    <2>1. PICK e \in Req : Raise(r, "duplicate", e)
      BY <1>3 DEF FindDuplicate, Existing
    <2> QED
      BY <1>3, <2>1, RaiseTyped DEF FindDuplicate, Checkout, Codes
  <1>4. CASE SaveEvent(r)
    <2>1. [view[r] EXCEPT !.event = "processing"] \in Rows
      BY RowUpdates DEF EventStatuses
    <2> QED
      BY <1>4, <2>1 DEF SaveEvent, Phases
  <1>5. CASE ReadHistory(r)
    <2>1. [mem[r] EXCEPT !.seen = SeenHistory(WorkloadOf[KeyOf(r)])] \in Mems
      BY SeenHistoryIsNat, MemUpdates
    <2> QED
      BY <1>5, <2>1 DEF ReadHistory, Phases
  <1>6. CASE Decide(r)
    <2>1. PICK raw \in RawFor(r) : mem' = [mem EXCEPT ![r] =
                     [@ EXCEPT !.action = raw.action, !.auto = Restricted(r, raw)]]
      BY <1>6 DEF Decide
    <2>2. raw.action \in Actions /\ Restricted(r, raw) \in BOOLEAN
      BY RawIsTyped DEF RawDecisions, Restricted, SafeToAuto
    <2>3. [mem[r] EXCEPT !.action = raw.action, !.auto = Restricted(r, raw)] \in Mems
      BY <2>2, MemUpdates
    <2> QED
      BY <1>6, <2>1, <2>3 DEF Decide, Phases
  <1>7. CASE RecordAutoDecision(r)
    <2>1. [event |-> "processed", action |-> mem[r].action, auto |-> TRUE,
           decision |-> IF mem[r].success THEN "executed" ELSE "failed",
           approval |-> "none",
           history |-> IF mem[r].success THEN "success" ELSE "failed"] \in Rows
      BY DEF Mems, Rows, EventStatuses, ExecutionStatuses, ApprovalStatuses, OutcomeStatuses
    <2> QED
      BY <1>7, <2>1, ReturnTyped DEF RecordAutoDecision
  <1>8. CASE RequestApproval(r)
    <2>1. mem[r].action \in Actions \cup {"none"}
      BY DEF Mems
    <2>2. [view[r] EXCEPT !.action = mem[r].action, !.auto = FALSE,
                          !.decision = "pending_approval", !.approval = "pending"] \in Rows
      BY <2>1, RowUpdates
    <2> QED
      BY <1>8, <2>2 DEF RequestApproval, Phases
  <1>9. CASE NotifyOncall(r)
    BY <1>9 DEF NotifyOncall, Page, Phases
  <1>10. CASE RecordPending(r)
    <2>1. [view[r] EXCEPT !.event = "processed", !.history = "pending"] \in Rows
      BY RowUpdates
    <2> QED
      BY <1>10, <2>1, ReturnTyped DEF RecordPending
  <1> QED
    BY <1>1, <1>2, <1>3, <1>4, <1>5, <1>6, <1>7, <1>8, <1>9, <1>10

LEMMA ExecuteTyped ==
    ASSUME TypeOK, NEW r \in Req, CallOrchestrator(r) \/ NotifyHuman(r) \/ NoAction(r)
    PROVE  TypeOK'
  <1> USE TypedParts DEF TypeOK, Goto
  <1>1. ASSUME NEW success \in BOOLEAN, Executed(r, success)
        PROVE  pc' \in [Req -> Phases] /\ mem' \in [Req -> Mems]
    <2>1. [mem[r] EXCEPT !.success = success] \in Mems
      BY MemUpdates
    <2> QED
      BY <1>1, <2>1 DEF Executed, Phases
  <1>2. CASE CallOrchestrator(r)
    <2>1. PICK reply \in OrchestratorReplies :
             /\ performed' = [performed EXCEPT ![r] = IF reply.carriedOut THEN mem[r].action ELSE @]
             /\ Executed(r, reply.success)
      BY <1>2 DEF CallOrchestrator
    <2>2. reply.success \in BOOLEAN
      BY DEF OrchestratorReplies
    <2> QED
      BY <1>1, <1>2, <2>1, <2>2 DEF CallOrchestrator
  <1>3. CASE NotifyHuman(r)
    BY <1>1, <1>3 DEF NotifyHuman, Page
  <1>4. CASE NoAction(r)
    BY <1>1, <1>4 DEF NoAction
  <1> QED
    BY <1>2, <1>3, <1>4

LEMMA ResolveTyped ==
    ASSUME TypeOK, NEW r \in Req,
           LoadAndValidate(r) \/ ApprovalNotFound(r) \/ ApprovalAlreadyResolved(r)
             \/ RecordApproval(r) \/ RecordRejection(r) \/ GetEvent(r)
    PROVE  TypeOK'
  <1> USE TypedParts DEF TypeOK, Goto
  <1>1. CASE LoadAndValidate(r)
    <2>1. view[Subject(r)].action \in Actions \cup {"none"}
      BY DEF Rows
    <2>2. [mem[r] EXCEPT !.action = view[Subject(r)].action] \in Mems
      BY <2>1, MemUpdates
    <2> QED
      BY <1>1, <2>2 DEF LoadAndValidate, Checkout, Phases
  <1>2. CASE ApprovalNotFound(r)
    BY <1>2, RaiseTyped DEF ApprovalNotFound, Checkout, Codes
  <1>3. CASE ApprovalAlreadyResolved(r)
    BY <1>3, RaiseTyped DEF ApprovalAlreadyResolved, Checkout, Codes
  <1>4. CASE RecordApproval(r)
    <2>1. [view[Subject(r)] EXCEPT
             !.decision = IF mem[r].success THEN "executed" ELSE "failed",
             !.approval = "approved",
             !.history = IF mem[r].success THEN "approved_by_human" ELSE "failed"] \in Rows
      BY RowUpdates
    <2> QED
      BY <1>4, <2>1, ReturnTyped DEF RecordApproval
  <1>5. CASE RecordRejection(r)
    <2>1. [view[Subject(r)] EXCEPT !.approval = "rejected", !.history = "rejected_by_human"] \in Rows
      BY RowUpdates
    <2> QED
      BY <1>5, <2>1, ReturnTyped DEF RecordRejection
  <1>6. CASE GetEvent(r)
    BY <1>6, RaiseTyped, ReturnTyped DEF GetEvent, Checkout, Codes
  <1> QED
    BY <1>1, <1>2, <1>3, <1>4, <1>5, <1>6

LEMMA EndTyped ==
    ASSUME TypeOK, NEW r \in Req, Rollback(r) \/ Commit(r) \/ Answer(r) \/ Fail(r)
    PROVE  TypeOK'
  <1> USE TypedParts DEF TypeOK, Goto
  <1>1. CASE Rollback(r)
    BY <1>1 DEF Rollback, Phases
  <1>2. CASE Commit(r)
    BY <1>2 DEF Commit, Phases
  <1>3. CASE Answer(r)
    BY <1>3 DEF Answer, Phases
  <1>4. [code |-> "error", event |-> NoReq] \in Outcomes
    BY DEF Outcomes, Codes
  <1>5. CASE CommitFails(r)
    BY <1>4, <1>5 DEF CommitFails, Phases
  <1>6. CASE StoreFails(r)
    BY <1>6, RaiseTyped DEF StoreFails, Codes
  <1>9. CASE LookupFails(r)
    BY <1>9, RaiseTyped DEF LookupFails, Checkout, Codes
  <1>7. CASE ProcessingRaises(r)
    <2>1. [view[r] EXCEPT !.event = "failed"] \in Rows
      BY RowUpdates DEF EventStatuses
    <2> QED
      BY <1>7, <2>1, RaiseTyped DEF ProcessingRaises, Codes
  <1>8. CASE PoolTimeout(r)
    BY <1>4, <1>8 DEF PoolTimeout, Phases
  <1> QED
    BY <1>1, <1>2, <1>3, <1>5, <1>6, <1>7, <1>8, <1>9 DEF Fail

LEMMA CrashTyped ==
    ASSUME TypeOK, Crash
    PROVE  TypeOK'
  <1>1. NoMem \in Mems
    BY DEF NoMem, Mems
  <1>2. \A r \in Req : (IF pc[r] = "answered" THEN "done"
                       ELSE IF InFlight(r) THEN "lost" ELSE pc[r]) \in Phases
    BY DEF TypeOK, Phases
  <1> QED
    BY <1>1, <1>2 DEF TypeOK, Crash

LEMMA StepTyped == TypeOK /\ [Next]_vars => TypeOK'
  <1> SUFFICES ASSUME TypeOK, [Next]_vars PROVE TypeOK'
    OBVIOUS
  <1>1. CASE \E r \in Req : Arrive(r) \/ Serve(r) \/ Fail(r)
    BY <1>1, IngestTyped, ExecuteTyped, ResolveTyped, EndTyped DEF Serve
  <1>2. CASE Crash
    BY <1>2, CrashTyped
  <1>3. CASE Quiescent \/ UNCHANGED vars
    BY <1>3 DEF TypeOK, Quiescent, vars
  <1> QED
    BY <1>1, <1>2, <1>3 DEF Next

\* The variables stay in their ranges: no handler, fault or crash writes a status
\* that its column, or a phase that its coroutine, does not have.
THEOREM TypeCorrect == Spec => []TypeOK
  BY InitTyped, StepTyped, PTL DEF Spec
-----------------------------------------------------------------------------
(* Steps by what they do to the rows *)

\* What a step may do to the committed rows and the calls, short of a commit.
Uncommitted == db' = db /\ call' = call

\* The parts of IInv that speak of rows and keys.
RowInvariant == RowsAreSound /\ KeysAreUnique /\ RecordsAgree

LEMMA SameRows ==
    ASSUME RowInvariant, Uncommitted, view' = view
    PROVE  RowInvariant'
  BY DEF RowInvariant, Uncommitted, RowsAreSound, KeysAreUnique, RecordsAgree, KeyOf

LEMMA ResetRows ==
    ASSUME RowInvariant, Uncommitted, view' = db
    PROVE  RowInvariant' /\ TransactionIsLocal'
  <1>1. \A e \in Req : db[e].event = "absent" => db[e] = NoRow
    BY DEF RowInvariant, RecordsAgree, SettledRow
  <1> QED
    BY <1>1 DEF RowInvariant, Uncommitted, RowsAreSound, KeysAreUnique, RecordsAgree, KeyOf,
                TransactionIsLocal

\* The holder writes the row of its event, which the connection sees already.
LEMMA WrittenRow ==
    ASSUME TypeOK, RowInvariant, TransactionIsLocal, Uncommitted,
           NEW r \in Req, conn = r, conn' = r, NEW e \in Req, e = Subject(r),
           view[e].event # "absent",
           NEW row, row.event # "absent", view' = [view EXCEPT ![e] = row]
    PROVE  RowInvariant' /\ TransactionIsLocal'
  <1>1. /\ view'[e] = row
        /\ \A f \in Req : f # e => view'[f] = view[f]
    BY DEF TypeOK
  <1>2. RowsAreSound'
    BY <1>1 DEF RowInvariant, Uncommitted, RowsAreSound
  <1>3. KeysAreUnique'
    BY <1>1 DEF RowInvariant, Uncommitted, KeysAreUnique, KeyOf
  <1>4. RecordsAgree'
    BY DEF RowInvariant, Uncommitted, RecordsAgree
  <1>5. TransactionIsLocal'
    BY <1>1, ReqAssumption DEF Uncommitted, TransactionIsLocal, Subject
  <1> QED
    BY <1>2, <1>3, <1>4, <1>5 DEF RowInvariant

\* The columns of the row that waits for its page and its history entry.
LEMMA RequestedColumns ==
    ASSUME NEW action \in Actions, NEW row, row = RequestedRow(action)
    PROVE  /\ row.event = "processing" /\ row.action = action /\ row.auto = FALSE
           /\ row.decision = "pending_approval" /\ row.approval = "pending"
           /\ row.history = "none"
           /\ SettledRow([row EXCEPT !.event = "processed", !.history = "pending"])
  BY DEF RequestedRow, ProcessingRow, NoRow, SettledRow

\* The holder inserts an event after it found no row with the key.
LEMMA InsertedRow ==
    ASSUME TypeOK, RowInvariant, TransactionIsLocal, Uncommitted,
           NEW r \in Req, conn = r, conn' = r, call[r].kind = "ingest", Existing(KeyOf(r)) = {},
           view' = [view EXCEPT ![r] = [@ EXCEPT !.event = "processing"]]
    PROVE  RowInvariant' /\ TransactionIsLocal' /\ view'[r] = ProcessingRow
  <1>1. view[r] = NoRow
    BY DEF Existing, RowInvariant, RowsAreSound
  <1>2. /\ view'[r] = ProcessingRow
        /\ \A f \in Req : f # r => view'[f] = view[f]
    BY <1>1 DEF TypeOK, ProcessingRow
  <1>3. ProcessingRow.event = "processing"
    BY DEF ProcessingRow, NoRow
  <1>4. RowsAreSound'
    BY <1>2, <1>3 DEF RowInvariant, Uncommitted, RowsAreSound
  <1>5. KeysAreUnique'
    BY <1>2, <1>3 DEF RowInvariant, Uncommitted, KeysAreUnique, KeyOf, Existing
  <1>6. RecordsAgree'
    BY DEF RowInvariant, Uncommitted, RecordsAgree
  <1>7. Subject(r) = r
    BY TypedParts
  <1>8. TransactionIsLocal'
    BY <1>2, <1>7, ReqAssumption DEF Uncommitted, TransactionIsLocal, Subject
  <1> QED
    BY <1>2, <1>4, <1>5, <1>6, <1>8 DEF RowInvariant

LEMMA CommittedRows ==
    ASSUME RowInvariant, call' = call, view' = view, db' = view,
           \A e \in Req : view[e] = NoRow \/ SettledRow(view[e])
    PROVE  RowInvariant' /\ TransactionIsLocal'
  BY DEF RowInvariant, RowsAreSound, KeysAreUnique, RecordsAgree, KeyOf, TransactionIsLocal, SettledRow

\* An exception other than DuplicateEventError, or no exception, names no event.
LEMMA SameDuplicates ==
    ASSUME TypeOK, DuplicateNamesDurableEvent, Uncommitted, NEW r \in Req,
           \/ outcome' = outcome
           \/ \E o : o.code # "duplicate" /\ outcome' = [outcome EXCEPT ![r] = o]
    PROVE  DuplicateNamesDurableEvent'
  BY DEF TypeOK, DuplicateNamesDurableEvent, Uncommitted, KeyOf
-----------------------------------------------------------------------------
(* The connection: a step takes it, keeps it, gives it back or has none. *)

LEMMA Takes ==
    ASSUME TypeOK, Exclusive, NEW r \in Req, NEW phase \in HoldingPhases,
           conn = NoReq, conn' = r, Goto(r, phase)
    PROVE  Exclusive'
  BY ReqAssumption DEF TypeOK, Exclusive, Goto

LEMMA Keeps ==
    ASSUME TypeOK, Exclusive, NEW r \in Req, NEW phase \in HoldingPhases,
           conn = r, conn' = r, Goto(r, phase)
    PROVE  Exclusive'
  BY ReqAssumption DEF TypeOK, Exclusive, Goto

LEMMA GivesBack ==
    ASSUME TypeOK, Exclusive, NEW r \in Req, NEW phase, phase \notin HoldingPhases,
           conn = r, conn' = NoReq, Goto(r, phase)
    PROVE  Exclusive' /\ HandlerProgress'
  BY ReqAssumption DEF TypeOK, Exclusive, Goto, HandlerProgress

LEMMA HolderProgresses ==
    ASSUME NEW r \in Req, conn' = r, Progress(r)'
    PROVE  HandlerProgress'
  BY DEF HandlerProgress

\* A request that does not hold the connection disturbs nobody.
LEMMA StandsAside ==
    ASSUME TypeOK, Exclusive, TransactionIsLocal, RowInvariant, HandlerProgress,
           NEW r \in Req, NEW phase, pc[r] \notin HoldingPhases, phase \notin HoldingPhases,
           Goto(r, phase), UNCHANGED <<call, mem, conn, view, db>>
    PROVE  Exclusive' /\ TransactionIsLocal' /\ RowInvariant' /\ HandlerProgress'
  <1>1. Exclusive'
    BY DEF TypeOK, Exclusive, Goto
  <1>2. TransactionIsLocal'
    BY DEF TransactionIsLocal, Subject
  <1>3. RowInvariant'
    BY SameRows DEF Uncommitted
  <1>4. ASSUME NEW s \in Req, conn' = s PROVE Progress(s)'
    <2>1. s # r /\ conn = s
      BY <1>4 DEF Exclusive
    <2>2. pc'[s] = pc[s]
      BY <2>1 DEF TypeOK, Goto
    <2>3. Progress(s)
      BY <2>1 DEF HandlerProgress
    <2> QED
      BY <2>2, <2>3 DEF Progress, Existing, KeyOf, Resolving, Subject
  <1> QED
    BY <1>1, <1>2, <1>3, <1>4 DEF HandlerProgress

\* A handler ends with an exception while its session holds the connection.
LEMMA Raises ==
    ASSUME TypeOK, Exclusive, NEW r \in Req, NEW code, NEW e, conn = r \/ conn = NoReq, conn' = r,
           conn = NoReq => pc[r] \notin HoldingPhases, Raise(r, code, e)
    PROVE  Exclusive' /\ HandlerProgress'
  <1>1. Goto(r, "raising") /\ "raising" \in HoldingPhases
    BY DEF Raise, Leave, HoldingPhases
  <1>2. pc'[r] = "raising"
    BY <1>1 DEF Goto, TypeOK
  <1>3. Progress(r)'
    BY <1>2 DEF Progress
  <1> QED
    BY <1>1, <1>3, Takes, Keeps, HolderProgresses

\* What a session that checks out the connection sees.
LEMMA CheckedOut ==
    ASSUME TypeOK, TransactionIsLocal, RowInvariant, NEW r \in Req, Checkout(r), Uncommitted,
           view' = view
    PROVE  /\ conn = NoReq /\ conn' = r
           /\ view = db
           /\ TransactionIsLocal' /\ RowInvariant'
  <1>1. conn = NoReq /\ conn' = r
    BY DEF Checkout, ConnectionFree
  <1>2. view = db
    BY <1>1 DEF TransactionIsLocal, TypeOK
  <1>3. TransactionIsLocal'
    BY <1>2 DEF TransactionIsLocal, Uncommitted
  <1> QED
    BY <1>1, <1>2, <1>3, SameRows
-----------------------------------------------------------------------------
(* The steps of the handlers *)

\* What remains of IInv once the types are known.
Rest == Exclusive /\ TransactionIsLocal /\ RowInvariant /\ HandlerProgress
          /\ DuplicateNamesDurableEvent

\* A step of the holder that neither writes rows nor ends the handler.
LEMMA HandlerGoesOn ==
    ASSUME TypeOK, Rest, NEW r \in Req, NEW phase \in HoldingPhases,
           conn = r, Goto(r, phase), UNCHANGED <<call, outcome, conn, view, db>>,
           Progress(r)'
    PROVE  Rest'
  <1>1. Exclusive' /\ HandlerProgress'
    BY Keeps, HolderProgresses DEF Rest
  <1>2. RowInvariant' /\ TransactionIsLocal'
    BY SameRows DEF Rest, Uncommitted, TransactionIsLocal, Subject
  <1>3. DuplicateNamesDurableEvent'
    BY SameDuplicates DEF Rest, Uncommitted
  <1> QED
    BY <1>1, <1>2, <1>3 DEF Rest

\* A step of the holder that writes the row of its event, and goes on.
LEMMA HandlerWrites ==
    ASSUME TypeOK, Rest, NEW r \in Req, NEW phase \in HoldingPhases,
           conn = r, Goto(r, phase), UNCHANGED <<call, conn, db>>,
           NEW e \in Req, e = Subject(r), view[e].event # "absent",
           NEW row, row.event # "absent", view' = [view EXCEPT ![e] = row],
           \/ outcome' = outcome
           \/ \E o : o.code # "duplicate" /\ outcome' = [outcome EXCEPT ![r] = o],
           Progress(r)'
    PROVE  Rest'
  <1>1. Exclusive' /\ HandlerProgress'
    BY Keeps, HolderProgresses DEF Rest
  <1>2. RowInvariant' /\ TransactionIsLocal'
    BY WrittenRow DEF Rest, Uncommitted
  <1>3. DuplicateNamesDurableEvent'
    BY SameDuplicates DEF Rest, Uncommitted
  <1> QED
    BY <1>1, <1>2, <1>3 DEF Rest

\* The holder writes a settled row and returns.
LEMMA HandlerRecords ==
    ASSUME TypeOK, Rest, NEW r \in Req, conn = r, Return(r), UNCHANGED <<call, conn, db>>,
           NEW e \in Req, e = Subject(r), view[e].event # "absent",
           NEW row, SettledRow(row), view' = [view EXCEPT ![e] = row]
    PROVE  Rest'
  <1>1. "returning" \in HoldingPhases /\ Goto(r, "returning")
    BY DEF HoldingPhases, Return, Leave
  <1>2. pc'[r] = "returning"
    BY <1>1 DEF Goto, TypeOK
  <1>3. /\ view'[e] = row
        /\ \A f \in Req : f # e => view'[f] = db[f]
    BY DEF Rest, TransactionIsLocal, TypeOK
  <1>4. \A f \in Req : view'[f] = NoRow \/ SettledRow(view'[f])
    BY <1>3 DEF Rest, RowInvariant, RecordsAgree
  <1>5. Progress(r)'
    BY <1>2, <1>4 DEF Progress
  <1>6. row.event # "absent"
    BY DEF SettledRow
  <1>7. \E o : o.code # "duplicate" /\ outcome' = [outcome EXCEPT ![r] = o]
    BY DEF Return
  <1> QED
    BY <1>1, <1>5, <1>6, <1>7, HandlerWrites

LEMMA IngestKeeps ==
    ASSUME TypeOK, Rest, NEW r \in Req,
           Arrive(r) \/ FindByDedupKey(r) \/ FindDuplicate(r) \/ SaveEvent(r) \/ ReadHistory(r)
             \/ Decide(r) \/ RecordAutoDecision(r) \/ RequestApproval(r)
             \/ NotifyOncall(r) \/ RecordPending(r)
    PROVE  Rest'
  <1>0. call[r].kind = "ingest" => Subject(r) = r
    BY TypedParts
  <1>1. CASE Arrive(r)
    <2>1. pc[r] \notin HoldingPhases /\ "waiting" \notin HoldingPhases
      BY <1>1 DEF Arrive, HoldingPhases
    <2>2. DuplicateNamesDurableEvent'
      BY <1>1, SameDuplicates DEF Arrive, Rest, Uncommitted
    <2> QED
      BY <1>1, <2>1, <2>2, StandsAside DEF Arrive, Rest
  <1>2. CASE FindByDedupKey(r)
    <2>1. /\ conn = NoReq /\ conn' = r /\ TransactionIsLocal' /\ RowInvariant'
      BY <1>2, CheckedOut DEF FindByDedupKey, Rest, Uncommitted
    <2>2. "fresh" \in HoldingPhases /\ Goto(r, "fresh")
      BY <1>2 DEF FindByDedupKey, HoldingPhases
    <2>3. pc'[r] = "fresh"
      BY <2>2 DEF Goto, TypeOK
    <2>4. Progress(r)'
      BY <1>2, <2>3 DEF Progress, FindByDedupKey, Existing, KeyOf
    <2>5. DuplicateNamesDurableEvent'
      BY <1>2, SameDuplicates DEF FindByDedupKey, Rest, Uncommitted
    <2> QED
      BY <2>1, <2>2, <2>4, <2>5, Takes, HolderProgresses DEF Rest
  <1>3. CASE FindDuplicate(r)
    <2>1. /\ conn = NoReq /\ conn' = r /\ TransactionIsLocal' /\ RowInvariant' /\ view = db
      BY <1>3, CheckedOut DEF FindDuplicate, Rest, Uncommitted
    <2>2. PICK e \in Existing(KeyOf(r)) : Raise(r, "duplicate", e)
      BY <1>3 DEF FindDuplicate
    <2>3. Exclusive' /\ HandlerProgress'
      BY <1>3, <2>1, <2>2, Raises DEF FindDuplicate, Checkout, HoldingPhases, Rest
    <2>4. e \in Req /\ db[e].event # "absent" /\ KeyOf(e) = KeyOf(r)
      BY <2>1 DEF Existing
    <2>5. DuplicateNamesDurableEvent'
      BY <1>3, <2>2, <2>4 DEF Raise, FindDuplicate, DuplicateNamesDurableEvent, Rest, KeyOf, TypeOK
    <2> QED
      BY <2>1, <2>3, <2>5 DEF Rest
  <1>4. CASE SaveEvent(r)
    <2>1. conn = r /\ call[r].kind = "ingest" /\ Existing(KeyOf(r)) = {}
      BY <1>4 DEF SaveEvent, At, Rest, HandlerProgress, Progress
    <2>2. RowInvariant' /\ TransactionIsLocal' /\ view'[r] = ProcessingRow
      BY <1>4, <2>1, InsertedRow DEF SaveEvent, Rest, Uncommitted
    <2>3. "processing" \in HoldingPhases /\ Goto(r, "processing") /\ pc'[r] = "processing"
      BY <1>4 DEF SaveEvent, HoldingPhases, Goto, TypeOK
    <2>4. Progress(r)'
      BY <1>4, <2>1, <2>2, <2>3 DEF Progress, SaveEvent
    <2>5. DuplicateNamesDurableEvent'
      BY <1>4, SameDuplicates DEF SaveEvent, Rest, Uncommitted
    <2> QED
      BY <1>4, <2>1, <2>2, <2>3, <2>4, <2>5, Keeps, HolderProgresses DEF SaveEvent, Rest
  <1>5. CASE ReadHistory(r)
    <2>1. conn = r /\ call[r].kind = "ingest" /\ view[r] = ProcessingRow
      BY <1>5 DEF ReadHistory, At, Rest, HandlerProgress, Progress
    <2>2. "reasoning" \in HoldingPhases /\ Goto(r, "reasoning") /\ pc'[r] = "reasoning"
      BY <1>5 DEF ReadHistory, HoldingPhases, Goto, TypeOK
    <2>3. Progress(r)'
      BY <1>5, <2>1, <2>2 DEF Progress, ReadHistory
    <2> QED
      BY <1>5, <2>1, <2>2, <2>3, HandlerGoesOn DEF ReadHistory
  <1>6. CASE Decide(r)
    <2>1. conn = r /\ call[r].kind = "ingest" /\ view[r] = ProcessingRow
      BY <1>6 DEF Decide, At, Rest, HandlerProgress, Progress
    <2>2. "decided" \in HoldingPhases /\ Goto(r, "decided") /\ pc'[r] = "decided"
      BY <1>6 DEF Decide, HoldingPhases, Goto, TypeOK
    <2>3. PICK raw \in RawFor(r) : mem' = [mem EXCEPT ![r] =
                     [@ EXCEPT !.action = raw.action, !.auto = Restricted(r, raw)]]
      BY <1>6 DEF Decide
    <2>4. raw.action \in Actions
      BY RawIsTyped DEF RawDecisions
    <2>5. mem[r] \in Mems /\ mem \in [Req -> Mems]
      BY DEF TypeOK
    <2>6. mem'[r].action = raw.action
      BY <2>3, <2>5 DEF Mems
    <2>7. Progress(r)'
      BY <1>6, <2>1, <2>2, <2>4, <2>6 DEF Progress, Decide
    <2> QED
      BY <1>6, <2>1, <2>2, <2>7, HandlerGoesOn DEF Decide
  <1>7. CASE RecordAutoDecision(r)
    <2> DEFINE row == [event |-> "processed", action |-> mem[r].action, auto |-> TRUE,
                       decision |-> IF mem[r].success THEN "executed" ELSE "failed",
                       approval |-> "none",
                       history |-> IF mem[r].success THEN "success" ELSE "failed"]
    <2>1. conn = r /\ call[r].kind = "ingest" /\ mem[r].action \in Actions /\ view[r] = ProcessingRow
      BY <1>7 DEF RecordAutoDecision, At, Rest, HandlerProgress, Progress
    <2>2. view[r].event # "absent"
      BY <2>1 DEF ProcessingRow, NoRow
    <2>3. SettledRow(row)
      BY <2>1 DEF SettledRow
    <2>4. view' = [view EXCEPT ![r] = row]
      BY <1>7 DEF RecordAutoDecision
    <2> HIDE DEF row
    <2> QED
      BY <1>0, <1>7, <2>1, <2>2, <2>3, <2>4, HandlerRecords DEF RecordAutoDecision
  <1>8. CASE RequestApproval(r)
    <2> DEFINE row == RequestedRow(mem[r].action)
    <2>1. conn = r /\ call[r].kind = "ingest" /\ mem[r].action \in Actions /\ view[r] = ProcessingRow
      BY <1>8 DEF RequestApproval, At, Rest, HandlerProgress, Progress
    <2>2. view[r].event # "absent" /\ row.event # "absent"
      BY <2>1 DEF ProcessingRow, NoRow, RequestedRow
    <2>3. view' = [view EXCEPT ![r] = row]
      <3>1. [view[r] EXCEPT !.action = mem[r].action, !.auto = FALSE,
                            !.decision = "pending_approval", !.approval = "pending"] = row
        BY <2>1 DEF RequestedRow
      <3>2. view' = [view EXCEPT ![r] =
                       [view[r] EXCEPT !.action = mem[r].action, !.auto = FALSE,
                                       !.decision = "pending_approval", !.approval = "pending"]]
        BY <1>8 DEF RequestApproval, TypeOK
      <3> HIDE DEF row
      <3> QED
        BY <3>1, <3>2
    <2>4. "requested" \in HoldingPhases /\ Goto(r, "requested") /\ pc'[r] = "requested"
      BY <1>8 DEF RequestApproval, HoldingPhases, Goto, TypeOK
    <2>5. view'[r] = row
      BY <2>3 DEF TypeOK
    <2>6. Progress(r)'
      BY <1>8, <2>1, <2>4, <2>5 DEF Progress, RequestApproval, RequestedRow
    <2> HIDE DEF row
    <2> QED
      BY <1>0, <1>8, <2>1, <2>2, <2>3, <2>4, <2>6, HandlerWrites DEF RequestApproval
  <1>9. CASE NotifyOncall(r)
    <2>1. /\ conn = r /\ call[r].kind = "ingest" /\ mem[r].action \in Actions
          /\ view[r] = RequestedRow(mem[r].action)
      BY <1>9 DEF NotifyOncall, At, Rest, HandlerProgress, Progress
    <2>2. "notified" \in HoldingPhases /\ Goto(r, "notified") /\ pc'[r] = "notified"
      BY <1>9 DEF NotifyOncall, HoldingPhases, Goto, TypeOK
    <2>3. Progress(r)'
      BY <1>9, <2>1, <2>2 DEF Progress, NotifyOncall, RequestedRow
    <2> QED
      BY <1>9, <2>1, <2>2, <2>3, HandlerGoesOn DEF NotifyOncall
  <1>10. CASE RecordPending(r)
    <2> DEFINE row == [view[r] EXCEPT !.event = "processed", !.history = "pending"]
    <2>1. /\ conn = r /\ call[r].kind = "ingest" /\ mem[r].action \in Actions
          /\ view[r] = RequestedRow(mem[r].action)
      BY <1>10 DEF RecordPending, At, Rest, HandlerProgress, Progress
    <2>2. view[r].event # "absent" /\ SettledRow(row)
      BY <2>1, RequestedColumns
    <2>3. view' = [view EXCEPT ![r] = row]
      BY <1>10 DEF RecordPending
    <2> HIDE DEF row
    <2> QED
      BY <1>0, <1>10, <2>1, <2>2, <2>3, HandlerRecords DEF RecordPending
  <1> QED
    BY <1>1, <1>2, <1>3, <1>4, <1>5, <1>6, <1>7, <1>8, <1>9, <1>10

LEMMA ExecuteKeeps ==
    ASSUME TypeOK, Rest, NEW r \in Req, CallOrchestrator(r) \/ NotifyHuman(r) \/ NoAction(r)
    PROVE  Rest'
  <1>1. ToExecute(r) /\ UNCHANGED <<call, outcome, conn, view, db>>
    BY DEF CallOrchestrator, NotifyHuman, NoAction
  <1>2. PICK success : Executed(r, success)
    BY DEF CallOrchestrator, NotifyHuman, NoAction
  <1>3. "executed" \in HoldingPhases /\ Goto(r, "executed") /\ pc'[r] = "executed"
    BY <1>2 DEF Executed, HoldingPhases, Goto, TypeOK
  <1>4. mem'[r].action = mem[r].action
    BY <1>2 DEF Executed, TypeOK, Mems
  <1>5. conn = r
    BY <1>1 DEF ToExecute, At
  <1>6. Progress(r)
    BY <1>5 DEF Rest, HandlerProgress
  <1>7. \/ call[r].kind = "ingest" /\ mem[r].action \in Actions /\ view[r] = ProcessingRow
        \/ call[r].kind = "approve" /\ AwaitsHuman(view[Subject(r)])
    BY <1>1, <1>6 DEF ToExecute, At, Progress
  <1>8. Progress(r)'
    BY <1>1, <1>3, <1>4, <1>7 DEF Progress, Subject
  <1> QED
    BY <1>1, <1>3, <1>5, <1>8, HandlerGoesOn

\* The row that a session loads as pending is one that waits for a human.
LEMMA PendingAwaits ==
    ASSUME RecordsAgree, NEW e \in Req, db[e].approval = "pending"
    PROVE  AwaitsHuman(db[e])
  BY DEF RecordsAgree, AwaitsHuman, NoRow

\* The exception of a session that only looked.
LEMMA LookupRaises ==
    ASSUME TypeOK, Rest, NEW r \in Req, NEW code, code # "duplicate", Checkout(r),
           Raise(r, code, NoReq), UNCHANGED <<call, view, db>>
    PROVE  Rest'
  <1>1. /\ conn = NoReq /\ conn' = r /\ TransactionIsLocal' /\ RowInvariant'
    BY CheckedOut DEF Rest, Uncommitted
  <1>2. Exclusive' /\ HandlerProgress'
    BY <1>1, Raises DEF Checkout, HoldingPhases, Rest
  <1>3. DuplicateNamesDurableEvent'
    BY SameDuplicates DEF Raise, Rest, Uncommitted
  <1> QED
    BY <1>1, <1>2, <1>3 DEF Rest

LEMMA ResolveKeeps ==
    ASSUME TypeOK, Rest, NEW r \in Req,
           LoadAndValidate(r) \/ ApprovalNotFound(r) \/ ApprovalAlreadyResolved(r)
             \/ RecordApproval(r) \/ RecordRejection(r) \/ GetEvent(r)
    PROVE  Rest'
  <1>0. Subject(r) \in Req
    BY TypedParts
  <1>1. CASE LoadAndValidate(r)
    <2>1. /\ conn = NoReq /\ conn' = r /\ view = db /\ TransactionIsLocal' /\ RowInvariant'
      BY <1>1, CheckedOut DEF LoadAndValidate, Rest, Uncommitted
    <2>2. "validated" \in HoldingPhases /\ Goto(r, "validated") /\ pc'[r] = "validated"
      BY <1>1 DEF LoadAndValidate, HoldingPhases, Goto, TypeOK
    <2>3. AwaitsHuman(view[Subject(r)])
      BY <1>0, <1>1, <2>1, PendingAwaits DEF LoadAndValidate, Rest, RowInvariant
    <2>4. Progress(r)'
      BY <1>1, <2>2, <2>3 DEF Progress, LoadAndValidate, Resolving, Subject
    <2>5. DuplicateNamesDurableEvent'
      BY <1>1, SameDuplicates DEF LoadAndValidate, Rest, Uncommitted
    <2> QED
      BY <2>1, <2>2, <2>4, <2>5, Takes, HolderProgresses DEF Rest
  <1>2. CASE ApprovalNotFound(r)
    BY <1>2, LookupRaises DEF ApprovalNotFound
  <1>3. CASE ApprovalAlreadyResolved(r)
    BY <1>3, LookupRaises DEF ApprovalAlreadyResolved
  <1>4. CASE RecordApproval(r)
    <2> DEFINE status == IF mem[r].success THEN "executed" ELSE "failed"
               history == IF mem[r].success THEN "approved_by_human" ELSE "failed"
               row == [view[Subject(r)] EXCEPT !.decision = status, !.approval = "approved",
                                               !.history = history]
    <2>1. conn = r /\ AwaitsHuman(view[Subject(r)])
      BY <1>4 DEF RecordApproval, At, Rest, HandlerProgress, Progress
    <2>2. view[Subject(r)] \in Rows
      BY TypedParts
    <2>3. view[Subject(r)].event # "absent"
      BY <2>1 DEF AwaitsHuman, SettledRow
    <2>4. SettledRow(row)
      BY <2>1, <2>2 DEF AwaitsHuman, SettledRow, Rows
    <2>5. view' = [view EXCEPT ![Subject(r)] = row]
      BY <1>4 DEF RecordApproval
    <2> HIDE DEF row
    <2> QED
      BY <1>0, <1>4, <2>1, <2>3, <2>4, <2>5, HandlerRecords DEF RecordApproval
  <1>5. CASE RecordRejection(r)
    <2> DEFINE row == [view[Subject(r)] EXCEPT !.approval = "rejected", !.history = "rejected_by_human"]
    <2>1. conn = r /\ AwaitsHuman(view[Subject(r)])
      BY <1>5 DEF RecordRejection, At, Rest, HandlerProgress, Progress
    <2>2. view[Subject(r)] \in Rows
      BY TypedParts
    <2>3. view[Subject(r)].event # "absent"
      BY <2>1 DEF AwaitsHuman, SettledRow
    <2>4. SettledRow(row)
      BY <2>1, <2>2 DEF AwaitsHuman, SettledRow, Rows
    <2>5. view' = [view EXCEPT ![Subject(r)] = row]
      BY <1>5 DEF RecordRejection
    <2> HIDE DEF row
    <2> QED
      BY <1>0, <1>5, <2>1, <2>3, <2>4, <2>5, HandlerRecords DEF RecordRejection
  <1>6. CASE GetEvent(r)
    <2>1. CASE view[Subject(r)].event = "absent"
      BY <1>6, <2>1, LookupRaises DEF GetEvent
    <2>2. CASE view[Subject(r)].event # "absent"
      <3>1. /\ conn = NoReq /\ conn' = r /\ view = db /\ TransactionIsLocal' /\ RowInvariant'
        BY <1>6, CheckedOut DEF GetEvent, Rest, Uncommitted
      <3>2. Return(r)
        BY <1>6, <2>2 DEF GetEvent
      <3>3. "returning" \in HoldingPhases /\ Goto(r, "returning") /\ pc'[r] = "returning"
        BY <3>2 DEF Return, Leave, HoldingPhases, Goto, TypeOK
      <3>4. Progress(r)'
        BY <1>6, <3>1, <3>3 DEF Progress, GetEvent, Rest, RowInvariant, RecordsAgree
      <3>5. DuplicateNamesDurableEvent'
        BY <1>6, <3>2, SameDuplicates DEF GetEvent, Return, Rest, Uncommitted
      <3> QED
        BY <3>1, <3>3, <3>4, <3>5, Takes, HolderProgresses DEF Rest
    <2> QED
      BY <2>1, <2>2
  <1> QED
    BY <1>1, <1>2, <1>3, <1>4, <1>5, <1>6
-----------------------------------------------------------------------------
(* The end of a request, the faults and the crash *)

\* Outcomes of a failure: none of them names an event.
LEMMA ErrorsNameNothing ==
    ASSUME NEW r \in Req
    PROVE  \E o : o.code # "duplicate"
                 /\ [outcome EXCEPT ![r] = [code |-> "error", event |-> NoReq]]
                      = [outcome EXCEPT ![r] = o]
  <1>1. [code |-> "error", event |-> NoReq].code # "duplicate"
    OBVIOUS
  <1> QED
    BY <1>1

\* A session that is closed without COMMIT: the holder's changes are gone.
LEMMA Discards ==
    ASSUME TypeOK, Rest, NEW r \in Req, NEW phase, phase \notin HoldingPhases,
           conn = r, conn' = NoReq, Goto(r, phase), view' = db, UNCHANGED <<call, db>>,
           \/ outcome' = outcome
           \/ \E o : o.code # "duplicate" /\ outcome' = [outcome EXCEPT ![r] = o]
    PROVE  Rest'
  <1>1. Exclusive' /\ HandlerProgress'
    BY GivesBack DEF Rest
  <1>2. RowInvariant' /\ TransactionIsLocal'
    BY ResetRows DEF Rest, Uncommitted
  <1>3. DuplicateNamesDurableEvent'
    BY SameDuplicates DEF Rest, Uncommitted
  <1> QED
    BY <1>1, <1>2, <1>3 DEF Rest

LEMMA EndKeeps ==
    ASSUME TypeOK, Rest, NEW r \in Req, Rollback(r) \/ Commit(r) \/ Answer(r)
    PROVE  Rest'
  <1>0. "done" \notin HoldingPhases /\ "committed" \notin HoldingPhases
    BY DEF HoldingPhases
  <1>1. CASE Rollback(r)
    BY <1>0, <1>1, Discards DEF Rollback, At
  <1>2. CASE Commit(r)
    <2>1. conn = r /\ pc[r] \in {"returning", "answered"}
      BY <1>2 DEF Commit, Committing, At
    <2>2. \A e \in Req : view[e] = NoRow \/ SettledRow(view[e])
      BY <2>1 DEF Rest, HandlerProgress, Progress
    <2>3. RowInvariant' /\ TransactionIsLocal'
      BY <1>2, <2>2, CommittedRows DEF Commit, Rest
    <2>4. PICK phase \in {"committed", "done"} : Goto(r, phase)
      BY <1>2 DEF Commit
    <2>5. Exclusive' /\ HandlerProgress'
      BY <1>0, <1>2, <2>1, <2>4, GivesBack DEF Commit, Rest
    <2>6. \A e \in Req : db[e].event # "absent" => db'[e].event # "absent"
      BY <1>2 DEF Commit, Rest, RowInvariant, RowsAreSound
    <2>7. DuplicateNamesDurableEvent'
      <3>1. outcome' = outcome /\ call' = call
        BY <1>2 DEF Commit
      <3>2. \A s \in Req : outcome[s].code = "duplicate" => outcome[s].event \in Req
        BY DEF Rest, DuplicateNamesDurableEvent
      <3> QED
        BY <2>6, <3>1, <3>2 DEF Rest, DuplicateNamesDurableEvent, KeyOf
    <2> QED
      BY <2>3, <2>5, <2>7 DEF Rest
  <1>3. CASE Answer(r)
    <2>1. CASE CommitFirst
      <3>1. pc[r] = "committed" /\ Goto(r, "done") /\ pc[r] \notin HoldingPhases
        BY <1>0, <1>3, <2>1 DEF Answer
      <3>2. DuplicateNamesDurableEvent'
        BY <1>3, SameDuplicates DEF Answer, Rest, Uncommitted
      <3> QED
        BY <1>0, <1>3, <3>1, <3>2, StandsAside DEF Answer, Rest
    <2>2. CASE ~CommitFirst
      <3>1. /\ pc[r] = "returning" /\ Goto(r, "answered")
            /\ "returning" \in HoldingPhases /\ "answered" \in HoldingPhases
        BY <1>3, <2>2 DEF Answer, HoldingPhases
      <3>2. conn = r
        BY <3>1 DEF Rest, Exclusive
      <3>3. pc'[r] = "answered"
        BY <3>1 DEF Goto, TypeOK
      <3>4. Progress(r)'
        BY <1>3, <3>1, <3>2, <3>3 DEF Answer, Rest, HandlerProgress, Progress
      <3> QED
        BY <1>3, <3>1, <3>2, <3>4, HandlerGoesOn DEF Answer
    <2> QED
      BY <2>1, <2>2
  <1> QED
    BY <1>1, <1>2, <1>3

LEMMA FailKeeps ==
    ASSUME TypeOK, Rest, NEW r \in Req, Fail(r)
    PROVE  Rest'
  <1>0. "done" \notin HoldingPhases
    BY DEF HoldingPhases
  <1>1. CASE CommitFails(r)
    <2>1. \/ outcome' = outcome
          \/ \E o : o.code # "duplicate" /\ outcome' = [outcome EXCEPT ![r] = o]
      BY <1>1, ErrorsNameNothing DEF CommitFails
    <2> QED
      BY <1>0, <1>1, <2>1, Discards DEF CommitFails, Committing, At
  <1>2. CASE StoreFails(r)
    <2>1. conn = r /\ conn' = r /\ Raise(r, "error", NoReq) /\ view' = db
            /\ UNCHANGED <<call, db>>
      BY <1>2 DEF StoreFails
    <2>2. Exclusive' /\ HandlerProgress'
      BY <2>1, ReqAssumption, Raises DEF Rest
    <2>3. RowInvariant' /\ TransactionIsLocal'
      BY <2>1, ResetRows DEF Rest, Uncommitted
    <2>4. DuplicateNamesDurableEvent'
      BY <2>1, SameDuplicates, ErrorsNameNothing DEF Raise, Rest, Uncommitted
    <2> QED
      BY <2>2, <2>3, <2>4 DEF Rest
  <1>3. CASE ProcessingRaises(r)
    <2> DEFINE row == [view[r] EXCEPT !.event = "failed"]
    <2>1. conn = r /\ conn' = r /\ Raise(r, "error", NoReq) /\ UNCHANGED <<call, db>>
      BY <1>3 DEF ProcessingRaises, At
    <2>2. Exclusive' /\ HandlerProgress'
      BY <2>1, ReqAssumption, Raises DEF Rest
    <2>3. /\ call[r].kind = "ingest"
          /\ \/ view[r] = ProcessingRow
             \/ mem[r].action \in Actions /\ view[r] = RequestedRow(mem[r].action)
      <3>1. Progress(r)
        BY <2>1 DEF Rest, HandlerProgress
      <3>2. pc[r] \in {"reasoning", "requested"}
        BY <1>3 DEF ProcessingRaises, At
      <3> QED
        BY <3>1, <3>2 DEF Progress
    <2>4. view[r].event # "absent"
      BY <2>3, RequestedColumns DEF ProcessingRow, NoRow
    <2>5. row.event # "absent"
      BY TypedParts DEF Rows
    <2>6. view' = [view EXCEPT ![r] = row] /\ Subject(r) = r
      BY <1>3, <2>3, TypedParts DEF ProcessingRaises
    <2> HIDE DEF row
    <2>7. RowInvariant' /\ TransactionIsLocal'
      BY <2>1, <2>4, <2>5, <2>6, WrittenRow DEF Rest, Uncommitted
    <2>8. DuplicateNamesDurableEvent'
      BY <2>1, SameDuplicates, ErrorsNameNothing DEF Raise, Rest, Uncommitted
    <2> QED
      BY <2>2, <2>7, <2>8 DEF Rest
  <1>4. CASE PoolTimeout(r)
    <2>1. pc[r] \notin HoldingPhases
      BY <1>4 DEF PoolTimeout, HoldingPhases
    <2>2. DuplicateNamesDurableEvent'
      BY <1>4, SameDuplicates, ErrorsNameNothing DEF PoolTimeout, Rest, Uncommitted
    <2> QED
      BY <1>0, <1>4, <2>1, <2>2, StandsAside DEF PoolTimeout, Rest
  <1>5. CASE LookupFails(r)
    BY <1>5, LookupRaises DEF LookupFails
  <1> QED
    BY <1>1, <1>2, <1>3, <1>4, <1>5 DEF Fail

\* After a crash nobody holds the connection, and it shows the committed rows.
LEMMA CrashKeeps ==
    ASSUME TypeOK, Rest, Crash
    PROVE  Rest'
  <1>1. \A r \in Req : pc'[r] \notin HoldingPhases
    BY DEF Crash, InFlight, Ended, HoldingPhases, TypeOK, Phases
  <1>2. Exclusive' /\ HandlerProgress'
    BY <1>1, ReqAssumption DEF Crash, Exclusive, HandlerProgress
  <1>3. RowInvariant' /\ TransactionIsLocal'
    BY ResetRows DEF Crash, Rest, Uncommitted
  <1>4. DuplicateNamesDurableEvent'
    BY DEF Crash, Rest, DuplicateNamesDurableEvent, KeyOf
  <1> QED
    BY <1>2, <1>3, <1>4 DEF Rest

LEMMA StutterKeeps ==
    ASSUME Rest, UNCHANGED vars
    PROVE  Rest'
  BY DEF vars, Rest, Exclusive, TransactionIsLocal, RowInvariant, RowsAreSound, KeysAreUnique,
         RecordsAgree, HandlerProgress, Progress, Existing, KeyOf, Subject, Resolving,
         DuplicateNamesDurableEvent
-----------------------------------------------------------------------------
(* The inductive invariant *)

LEMMA InvariantParts == IInv <=> TypeOK /\ Rest
  BY DEF IInv, Rest, RowInvariant

LEMMA InitKeeps ==
    ASSUME Init
    PROVE  IInv
  <1>1. TypeOK
    BY InitTyped
  <1>2. \A e \in Req : view[e] = NoRow /\ db[e] = NoRow /\ pc[e] = "idle" /\ outcome[e] = NoOutcome
    BY DEF Init
  <1>3. Exclusive /\ HandlerProgress /\ TransactionIsLocal
    BY <1>2, ReqAssumption DEF Init, Exclusive, HandlerProgress, TransactionIsLocal, HoldingPhases
  <1>4. RowInvariant
    BY <1>2 DEF RowInvariant, RowsAreSound, KeysAreUnique, RecordsAgree, NoRow
  <1>5. DuplicateNamesDurableEvent
    BY <1>2 DEF DuplicateNamesDurableEvent, NoOutcome
  <1> QED
    BY <1>1, <1>3, <1>4, <1>5, InvariantParts DEF Rest

LEMMA StepKeeps ==
    ASSUME IInv, [Next]_vars
    PROVE  IInv'
  <1>1. TypeOK /\ Rest
    BY InvariantParts
  <1>2. TypeOK'
    BY <1>1, StepTyped
  <1>3. Rest'
    <2>1. CASE Crash
      BY <1>1, <2>1, CrashKeeps
    <2>2. CASE UNCHANGED vars
      BY <1>1, <2>2, StutterKeeps
    <2>3. CASE \E r \in Req : Arrive(r) \/ Serve(r) \/ Fail(r)
      <3>1. PICK r \in Req : Arrive(r) \/ Serve(r) \/ Fail(r)
        BY <2>3
      <3> QED
        BY <1>1, <3>1, IngestKeeps, ExecuteKeeps, ResolveKeeps, EndKeeps, FailKeeps DEF Serve
    <2> QED
      BY <2>1, <2>2, <2>3 DEF Next, Quiescent
  <1>4. (IInv <=> TypeOK /\ Rest)'
    BY InvariantParts, PTL
  <1> QED
    BY <1>2, <1>3, <1>4

\* IInv holds in every reachable state, for any number of requests, keys and
\* workloads, any history limit, any faults and either order of commit and answer.
THEOREM InductiveInvariant == Spec => []IInv
  <1>1. Init => IInv
    BY InitKeeps
  <1>2. IInv /\ [Next]_vars => IInv'
    BY StepKeeps
  <1> QED
    BY <1>1, <1>2, PTL DEF Spec

\* The four tables never disagree about a committed event (get_session commits
\* only what a handler that returned has written).
THEOREM RecordsAlwaysAgree == Spec => []RecordsAgree
  <1>1. IInv => RecordsAgree
    BY DEF IInv
  <1> QED
    BY <1>1, InductiveInvariant, PTL

\* The insert of an event never meets UNIQUE(dedup_key): the connection is held
\* from the check to the insert (IngestEventUseCase.execute).
THEOREM SavesNeverCollide == Spec => []SaveNeverCollides
  <1>1. ASSUME IInv PROVE SaveNeverCollides
    <2>1. ASSUME NEW r \in Req, pc[r] = "fresh" PROVE Existing(KeyOf(r)) = {}
      <3>1. conn = r
        BY <1>1, <2>1 DEF IInv, Exclusive, HoldingPhases
      <3> QED
        BY <1>1, <2>1, <3>1 DEF IInv, HandlerProgress, Progress
    <2> QED
      BY <2>1 DEF SaveNeverCollides
  <1> QED
    BY <1>1, InductiveInvariant, PTL

\* The event that a 409 of the webhook names has the same key and is committed
\* for good (DuplicateEventError of IngestEventUseCase.execute).
THEOREM DuplicatesNameDurableEvents == Spec => []DuplicateNamesDurableEvent
  <1>1. IInv => DuplicateNamesDurableEvent
    BY DEF IInv
  <1> QED
    BY <1>1, InductiveInvariant, PTL
=============================================================================

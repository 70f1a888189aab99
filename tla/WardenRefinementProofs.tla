------------------------ MODULE WardenRefinementProofs ------------------------
(***************************************************************************)
(* Warden implements its two abstract specifications.                      *)
(*                                                                         *)
(* RemediationLedger: a commit enters one incident or resolves one, every  *)
(* other step is a stutter of the ledger.                                  *)
(*                                                                         *)
(* SerialWarden: a commit, or the statement that finds a conflict, is the  *)
(* whole request run alone; every other step is a stutter.                 *)
(***************************************************************************)
EXTENDS WardenLedger, WardenSerial, WardenGuaranteesProofs, FunctionTheorems

\* The event that entered an incident is the only one with its key.
LEMMA CommittedIsOne ==
    ASSUME IInv, NEW e \in Req, db[e].event # "absent"
    PROVE  Committed(KeyOf(e)) = {e} /\ KeyOf(e) \in Keys
  <1>1. TypeOK /\ RowsAreSound /\ KeysAreUnique
    BY DEF IInv
  <1>2. Committed(KeyOf(e)) = {e}
    BY <1>1 DEF Committed, RowsAreSound, KeysAreUnique
  <1>3. call[e].kind = "ingest" /\ call[e] \in Calls(e)
    BY <1>1, TypedParts DEF RowsAreSound
  <1>4. call[e].body \in AllBodies
    BY <1>3, CallIsTyped
  <1> QED
    BY <1>2, <1>4 DEF KeyOf, AllBodies

\* The state of an incident is that of the event that entered it.
LEMMA StateOfOne ==
    ASSUME NEW k \in Keys, NEW e, Committed(k) = {e}
    PROVE  IncidentStates[k] = StateOf(db[e])
  BY DEF IncidentStates

LEMMA StatesAreStates ==
    ASSUME NEW k \in Keys
    PROVE  /\ IncidentStates[k] = "unknown" <=> Committed(k) = {}
           /\ IncidentStates \in [Keys -> Ledger!States]
  <1>1. \A row : StateOf(row) \in Ledger!States /\ StateOf(row) # "unknown"
    BY DEF StateOf, Ledger!States
  <1> QED
    BY <1>1 DEF IncidentStates, Ledger!States

\* A step that changes no committed row is a stutter.
LEMMA SameLedger ==
    ASSUME db' = db, call' = call
    PROVE  IncidentStates' = IncidentStates
  BY DEF IncidentStates, Committed, KeyOf

\* A commit that changes the row of e, and leaves it there, is about the incident of e.
LEMMA OneIncidentChanges ==
    ASSUME IInv, IInv', call' = call, NEW e \in Req, db'[e].event # "absent",
           \A f \in Req : f # e => db'[f] = db[f]
    PROVE  /\ KeyOf(e) \in Keys
           /\ IncidentStates'[KeyOf(e)] = StateOf(db'[e])
           /\ IncidentStates' = [IncidentStates EXCEPT ![KeyOf(e)] = IncidentStates'[KeyOf(e)]]
  <1> DEFINE k == KeyOf(e)
  <1>1. TypeOK /\ RowsAreSound' /\ KeysAreUnique' /\ k' = k
    BY DEF IInv, KeyOf
  <1>2. Committed(k)' = {e}
    BY <1>1 DEF Committed, RowsAreSound, KeysAreUnique
  <1>3. call[e].kind = "ingest" /\ call[e] \in Calls(e)
    BY <1>1, TypedParts DEF RowsAreSound
  <1>4. k \in Keys
    BY <1>3, CallIsTyped DEF KeyOf, AllBodies
  <1>5. IncidentStates'[k] = StateOf(db'[e])
    BY <1>1, <1>2, <1>4 DEF IncidentStates
  <1>6. ASSUME NEW j \in Keys, j # k PROVE IncidentStates'[j] = IncidentStates[j]
    <2>1. Committed(j)' = Committed(j) /\ e \notin Committed(j)
      BY <1>6 DEF Committed, KeyOf
    <2>2. CASE Committed(j) = {}
      BY <2>1, <2>2 DEF IncidentStates
    <2>3. CASE Committed(j) # {}
      <3> DEFINE f == CHOOSE f \in Committed(j) : TRUE
      <3>1. f \in Committed(j) /\ f # e /\ f \in Req /\ f' = f
        BY <2>1, <2>3 DEF Committed
      <3>2. db'[f] = db[f]
        BY <3>1
      <3>3. IncidentStates[j] = StateOf(db[f])
        BY <2>3 DEF IncidentStates
      <3>4. IncidentStates'[j] = StateOf(db'[f])
        BY <2>1, <2>3, <3>1 DEF IncidentStates
      <3> QED
        BY <3>2, <3>3, <3>4
    <2> QED
      BY <2>2, <2>3
  <1>7. DOMAIN IncidentStates = Keys /\ DOMAIN IncidentStates' = Keys
    BY DEF IncidentStates
  <1>8. IncidentStates' = [j \in Keys |-> IncidentStates'[j]]
    BY DEF IncidentStates
  <1>9. IncidentStates = [j \in Keys |-> IncidentStates[j]]
    BY DEF IncidentStates
  <1> HIDE DEF k
  <1>10. IncidentStates' = [IncidentStates EXCEPT ![k] = IncidentStates'[k]]
    BY <1>4, <1>5, <1>6, <1>7, <1>8, <1>9
  <1> QED
    BY <1>4, <1>5, <1>10 DEF k
-----------------------------------------------------------------------------
\* The ledger counts as Warden does.
LEMMA SameCardinality ==
    ASSUME NEW S
    PROVE  Ledger!Cardinality(S) = Cardinality(S)
  BY Zenon DEF Ledger!Cardinality, Cardinality

\* Behind every incident of a workload but the one to be entered there is an entry that R4 counted.
LEMMA WithinBudget ==
    ASSUME IInv, EInv, NEW r \in Req, conn = r, pc[r] \in {"returning", "answered"},
           call[r].kind = "ingest", view[r].auto, db[r] = NoRow
    PROVE  Cardinality(Ledger!Incidents(WorkloadOf[KeyOf(r)])) < Budget
  <1> DEFINE w == WorkloadOf[KeyOf(r)]
             S == Ledger!Incidents(w)
             T == Entries(w) \ {r}
             f == [k \in S |-> CHOOSE e \in Committed(k) : TRUE]
  <1>1. Subject(r) = r /\ \A e \in Req : e # r => view[e] = db[e]
    BY TypedParts, ReqAssumption DEF IInv, TransactionIsLocal
  <1>2. ASSUME NEW k \in S PROVE f[k] \in T /\ KeyOf(f[k]) = k
    <2>1. Committed(k) # {} /\ WorkloadOf[k] = w
      BY StatesAreStates DEF Ledger!Incidents
    <2>2. PICK e \in Committed(k) : f[k] = e
      BY <2>1
    <2>3. e \in Req /\ db[e].event # "absent" /\ KeyOf(e) = k
      BY DEF Committed
    <2>4. e # r
      BY <2>3 DEF NoRow
    <2>5. SettledRow(db[e])
      BY <2>3 DEF IInv, RecordsAgree, NoRow
    <2>6. view[e].history # "none"
      BY <1>1, <2>3, <2>4, <2>5 DEF SettledRow
    <2>7. e \in T
      BY <2>1, <2>3, <2>4, <2>6 DEF Entries
    <2> HIDE DEF f
    <2> QED
      BY <2>2, <2>3, <2>7
  <1>3. IsFiniteSet(T) /\ Cardinality(T) \in Nat
    BY Countable, FS_RemoveElement, FS_CardinalityType
  <1>4. f \in [S -> T] /\ \A j, k \in S : f[j] = f[k] => j = k
    BY <1>2
  <1>5. T \subseteq Req
    BY DEF Entries
  <1>6. HistoryLimit >= HighIncidentThreshold => Cardinality(T) < HighIncidentThreshold
    BY DEF EInv, R4Holds, ActsAlone
  <1> HIDE DEF S, T, f
  <1>7. f \in Injection(S, T)
    BY <1>4, Fun_IsInj
  <1>8. IsFiniteSet(S) /\ Cardinality(S) <= Cardinality(T)
    BY <1>3, <1>7, FS_Injection
  <1>9. Cardinality(S) \in Nat
    BY <1>8, FS_CardinalityType
  <1>10. Cardinality(T) < Budget
    <2>1. Cardinality(T) <= Cardinality(Req) /\ Cardinality(Req) \in Nat
      BY <1>5, ReqAssumption, FS_Subset, FS_CardinalityType
    <2> QED
      BY <1>3, <1>6, <2>1 DEF Budget
  <1>11. Budget \in Nat
    BY ReqAssumption, FS_CardinalityType DEF Budget, HighIncidentThreshold
  <1>12. Cardinality(S) < Budget
    BY <1>3, <1>8, <1>9, <1>10, <1>11
  <1> QED
    BY <1>12 DEF S

\* The ledger has no entry for the incident of a webhook that is about to commit.
LEMMA NewIncident ==
    ASSUME IInv, NEW r \in Req, call[r].kind = "ingest", view[r].event # "absent", db[r] = NoRow
    PROVE  Committed(KeyOf(r)) = {}
  BY DEF IInv, RowsAreSound, KeysAreUnique, Committed, NoRow

LEMMA CommitIsStep ==
    ASSUME IInv, EInv, IInv', NEW r \in Req, Commit(r)
    PROVE  Ledger!LedgerNext \/ IncidentStates' = IncidentStates
  <1> DEFINE e == Subject(r)
             k == KeyOf(e)
  <1>1. /\ conn = r /\ pc[r] \in {"returning", "answered"} /\ db' = view /\ call' = call
    BY DEF Commit, Committing, At
  <1>2. Knows(r) /\ Effect(r, view[e])
    BY <1>1 DEF EInv, HolderKnows, Knows
  <1>3. /\ e \in Req /\ call[r].kind \in AllKinds
        /\ call[r].kind = "ingest" => e = r
        /\ view \in [Req -> Rows]
    BY TypedParts DEF IInv, TypeOK
  <1>4. \A f \in Req : f # e => db'[f] = db[f]
    BY <1>1, ReqAssumption DEF IInv, TransactionIsLocal
  <1>5. CASE call[r].kind = "read"
    BY <1>1, <1>2, <1>5, SameLedger DEF Knows
  <1>6. CASE call[r].kind = "ingest"
    <2>1. e = r /\ db[r] = NoRow /\ view[r].approval \in {"none", "pending"} /\ view[r].event = "processed"
      BY <1>2, <1>3, <1>6 DEF Knows, Effect
    <2>2. SettledRow(view[r])
      BY <1>1, <2>1 DEF IInv, HandlerProgress, Progress, NoRow
    <2>3. /\ k \in Keys /\ IncidentStates'[k] = StateOf(view[r])
          /\ IncidentStates' = [IncidentStates EXCEPT ![k] = IncidentStates'[k]]
      BY <1>1, <1>4, <2>1, OneIncidentChanges
    <2>4. IncidentStates[k] = "unknown"
      BY <1>6, <2>1, <2>3, NewIncident, StatesAreStates
    <2>5. CASE view[r].auto
      <3>1. StateOf(view[r]) \in {"auto_executed", "auto_failed"}
        <4>1. view[r].approval = "none"
          BY <2>2, <2>5 DEF SettledRow
        <4> QED
          BY <2>5, <4>1 DEF StateOf
      <3>2. Cardinality(Ledger!Incidents(WorkloadOf[k])) < Budget
        BY <1>1, <1>6, <2>1, <2>5, WithinBudget
      <3>3. Ledger!Remediate(k)
        BY <2>3, <2>4, <3>1, <3>2, SameCardinality DEF Ledger!Remediate, Ledger!Enter
      <3> QED
        BY <2>3, <3>3 DEF Ledger!LedgerNext
    <2>6. CASE ~view[r].auto
      <3>1. view[r].approval = "pending"
        BY <2>1, <2>2, <2>6 DEF SettledRow
      <3>2. StateOf(view[r]) = "awaiting"
        BY <2>6, <3>1 DEF StateOf
      <3>3. Ledger!Escalate(k)
        BY <2>3, <2>4, <3>2 DEF Ledger!Escalate, Ledger!Enter
      <3> QED
        BY <2>3, <3>3 DEF Ledger!LedgerNext
    <2> QED
      BY <2>5, <2>6
  <1>7. CASE Resolving(r)
    <2>1. db[e].approval = "pending" /\ view[e].approval \in {"approved", "rejected"}
      BY <1>2, <1>7 DEF Knows, Effect, Resolving
    <2>2. SettledRow(db[e]) /\ SettledRow(view[e])
      BY <1>1, <1>3, <2>1 DEF IInv, RecordsAgree, HandlerProgress, Progress, NoRow
    <2>3. db[e].event # "absent" /\ view[e].event # "absent" /\ db[e].auto = FALSE /\ view[e].auto = FALSE
      BY <2>1, <2>2 DEF SettledRow
    <2>4. /\ k \in Keys /\ IncidentStates'[k] = StateOf(view[e])
          /\ IncidentStates' = [IncidentStates EXCEPT ![k] = IncidentStates'[k]]
      BY <1>1, <1>3, <1>4, <2>3, OneIncidentChanges
    <2>5. Committed(k) = {e}
      BY <1>3, <2>3, CommittedIsOne
    <2>6. IncidentStates[k] = "awaiting"
      BY <2>1, <2>3, <2>4, <2>5, StateOfOne DEF StateOf
    <2>7. StateOf(view[e]) \in {"approved_executed", "approved_failed", "rejected"}
      BY <2>1, <2>3 DEF StateOf
    <2>8. Ledger!Resolve(k)
      BY <2>4, <2>6, <2>7 DEF Ledger!Resolve, Ledger!Enter
    <2> QED
      BY <2>4, <2>8 DEF Ledger!LedgerNext
  <1> QED
    BY <1>3, <1>5, <1>6, <1>7 DEF AllKinds, Resolving

\* Any step is one of the ledger, or a stutter of it.
LEMMA StepIsStep ==
    ASSUME IInv, EInv, IInv', [Next]_vars
    PROVE  Ledger!LedgerNext \/ IncidentStates' = IncidentStates
  <1>1. CASE \E r \in Req : Arrive(r) \/ Serve(r) \/ Fail(r)
    <2>1. PICK r \in Req : Arrive(r) \/ Serve(r) \/ Fail(r)
      BY <1>1
    <2>2. CASE Commit(r)
      BY <2>2, CommitIsStep
    <2>3. CASE ~Commit(r)
      <3>1. db' = db /\ call' = call
        BY <2>1, <2>3, OnlyCommits, Frame DEF IInv, Own
      <3> QED
        BY <3>1, SameLedger
    <2> QED
      BY <2>2, <2>3
  <1>2. CASE Crash \/ UNCHANGED vars
    BY <1>2, SameLedger DEF Crash, vars
  <1> QED
    BY <1>1, <1>2 DEF Next, Quiescent

\* The rows that the API commits implement the ledger of remediations, for any
\* requests, answers, faults, history limit and order of commit and answer.
THEOREM WardenImplementsLedger == Spec => ImplementsLedger
  <1>1. Init => Ledger!LedgerInit
    BY DEF Init, Ledger!LedgerInit, IncidentStates, Committed, NoRow
  <1>2. IInv /\ EInv /\ IInv' /\ [Next]_vars => [Ledger!LedgerNext]_IncidentStates
    BY StepIsStep
  <1> QED
    BY <1>1, <1>2, InductiveInvariant, EffectsInvariant, PTL
       DEF Spec, ImplementsLedger, Ledger!LedgerSpec
-----------------------------------------------------------------------------
(* Serializability: the work in flight is that of one request run alone *)

\* SerialWarden reads the committed rows as Warden does.
LEMMA SerialReads ==
    /\ \A k : Serial!Existing(k) = {e \in Req : db[e].event # "absent" /\ KeyOf(e) = k}
    /\ \A w : Serial!Incidents(w) = {e \in Req : db[e].history # "none" /\ WorkloadOf[KeyOf(e)] = w}
    /\ Serial!Unserved = NoOutcome /\ Serial!Absent = NoRow
  BY DEF Serial!Existing, Serial!Incidents, Serial!KeyOf, KeyOf, Serial!Unserved, Serial!Absent,
         NoOutcome, NoRow

\* ... and applies the same rules.
LEMMA SerialRules ==
    ASSUME NEW severity, NEW isProd, NEW raw, NEW rows, NEW limit
    PROVE  /\ Serial!SafeToAuto(severity, isProd, raw, rows) = SafeToAuto(severity, isProd, raw, rows)
           /\ Serial!Limited(rows, limit) = Limited(rows, limit)
           /\ Serial!Fallback = Fallback
  BY DEF Serial!SafeToAuto, SafeToAuto, Serial!RestrictionsApplied, RestrictionsApplied,
         Serial!Fires, Fires, Serial!Rules, Rules, Serial!ConfidenceFloor, ConfidenceFloor,
         Serial!ProdRestrictedActions, ProdRestrictedActions,
         Serial!HighIncidentThreshold, HighIncidentThreshold,
         Serial!Limited, Limited, Serial!Fallback, Fallback

LEMMA SerialCount ==
    ASSUME NEW S
    PROVE  Serial!Cardinality(S) = Cardinality(S)
  BY Zenon DEF Serial!Cardinality, Cardinality

\* While r reasons, the history it sees is the committed one.
LEMMA SeenIsCommitted ==
    ASSUME IInv, EInv, NEW r \in Req, conn = r, call[r].kind = "ingest",
           pc[r] = "reasoning", NEW w
    PROVE  Entries(w) = Serial!Incidents(w)
  <1>1. view[r] = ProcessingRow /\ db[r] = NoRow
    BY DEF IInv, HandlerProgress, Progress, EInv, HolderKnows, Knows
  <1>2. \A e \in Req : e # r => view[e] = db[e]
    BY TypedParts, ReqAssumption DEF IInv, TransactionIsLocal
  <1> QED
    BY <1>1, <1>2, SerialReads DEF Entries, ProcessingRow, NoRow

\* The decision that r takes after the LLM's answer is one that a request alone may take.
LEMMA DecidesAlone ==
    ASSUME IInv, EInv, NEW r \in Req, At(r, "reasoning"), NEW raw \in RawFor(r)
    PROVE  Serial!Decides(r, raw.action, Restricted(r, raw))
  <1> DEFINE w == WorkloadOf[KeyOf(r)]
  <1>1. conn = r /\ pc[r] = "reasoning" /\ call[r].kind = "ingest"
    BY DEF At, IInv, HandlerProgress, Progress
  <1>2. mem[r].seen = Limited(Cardinality(Serial!Incidents(w)), HistoryLimit)
    BY <1>1, SeenIsCommitted DEF EInv, IncidentCountIsFresh, SeenHistory
  <1>3. Restricted(r, raw) =
          Serial!SafeToAuto(call[r].body.severity, w \in ProdWorkloads, raw,
             Serial!Limited(Serial!Cardinality(Serial!Incidents(w)), HistoryLimit))
    BY <1>2, SerialRules, SerialCount DEF Restricted
  <1>4. Serial!KeyOf(r) = KeyOf(r) /\ Serial!Fallback = Fallback
    BY SerialRules DEF Serial!KeyOf, KeyOf
  <1> QED
    BY <1>3, <1>4 DEF Serial!Decides, RawFor

\* Whoever takes no step goes on with the same work.
LEMMA OthersExplained ==
    ASSUME TypeOK, Exclusive, NEW r \in Req, Own(r), Shared(r),
           NEW s \in Req, s # r, conn' = s, conn = s => Explained(s)
    PROVE  Explained(s)'
  <1>1. conn = s /\ view' = view /\ db' = db /\ call' = call
    BY ReqAssumption DEF Shared, Own
  <1>2. pc'[s] = pc[s] /\ mem'[s] = mem[s]
    BY DEF Own, TypeOK
  <1>3. /\ \A action, auto : Serial!Decides(s, action, auto)' <=> Serial!Decides(s, action, auto)
        /\ \A action : Serial!Ingested(s, action)' = Serial!Ingested(s, action)
        /\ \A row : Serial!Resolved(s, row)' = Serial!Resolved(s, row)
    BY <1>1 DEF Serial!Decides, Serial!Incidents, Serial!KeyOf, Serial!Ingested, Serial!Resolved
  <1>4. Subject(s)' = Subject(s) /\ Resolving(s)' = Resolving(s)
    BY <1>1 DEF Subject, Resolving
  <1> QED
    BY <1>1, <1>2, <1>3, <1>4 DEF Explained

\* A step that leaves call and db alone leaves alone what a request may do by itself.
LEMMA SameSerial ==
    ASSUME db' = db, call' = call, NEW r
    PROVE  /\ \A action, auto : Serial!Decides(r, action, auto)' = Serial!Decides(r, action, auto)
           /\ \A action : Serial!Ingested(r, action)' = Serial!Ingested(r, action)
           /\ \A row : Serial!Resolved(r, row)' = Serial!Resolved(r, row)
           /\ Subject(r)' = Subject(r) /\ Resolving(r)' = Resolving(r)
  BY DEF Serial!Decides, Serial!Incidents, Serial!KeyOf, Serial!Ingested, Serial!Resolved,
         Subject, Resolving

\* What ingestion writes is a row of a request alone.
LEMMA IngestedRows ==
    ASSUME NEW r, NEW action
    PROVE  /\ \A success \in Serial!Results(action) :
                 Serial!Decides(r, action, TRUE) =>
                    Serial!AutomaticRow(action, success) \in Serial!Ingested(r, action)
           /\ Serial!Decides(r, action, FALSE) =>
                 Serial!WaitingRow(action) \in Serial!Ingested(r, action)
  BY DEF Serial!Ingested

LEMMA ExplainedOn ==
    ASSUME IInv, EInv, SInv, IInv', EInv', NEW r \in Req, Arrive(r) \/ Serve(r) \/ Fail(r), conn' = r
    PROVE  Explained(r)'
  <1>0. TypeOK /\ Own(r) /\ (conn = r => Explained(r) /\ Progress(r))
    BY Frame DEF IInv, SInv, HandlerProgress
  <1>1. pc'[r] \in HoldingPhases /\ Progress(r)'
    BY DEF IInv, Exclusive, HandlerProgress
  <1>2. CASE pc'[r] \in {"fresh", "processing", "reasoning", "raising"}
    BY <1>2 DEF Explained
  <1>3. CASE Decide(r)
    <2>1. PICK raw \in RawFor(r) : mem' = [mem EXCEPT ![r] =
                     [@ EXCEPT !.action = raw.action, !.auto = Restricted(r, raw)]]
      BY <1>3 DEF Decide
    <2>2. pc'[r] = "decided" /\ db' = db /\ call' = call
      BY <1>0, <1>3 DEF Decide, Goto, TypeOK
    <2>3. mem'[r].action = raw.action /\ mem'[r].auto = Restricted(r, raw)
      BY <1>0, <2>1 DEF TypeOK, Mems
    <2>4. Serial!Decides(r, raw.action, Restricted(r, raw))
      BY <1>3, DecidesAlone DEF Decide
    <2> QED
      BY <2>2, <2>3, <2>4, SameSerial DEF Explained
  <1>4. CASE CallOrchestrator(r) \/ NotifyHuman(r) \/ NoAction(r)
    <2>1. ToExecute(r) /\ UNCHANGED <<call, outcome, conn, view, db>>
      BY <1>4 DEF CallOrchestrator, NotifyHuman, NoAction
    <2>2. PICK success \in BOOLEAN : Executed(r, success) /\ (mem[r].action = "no_action" => success)
      BY <1>4 DEF CallOrchestrator, NotifyHuman, NoAction, OrchestratorReplies, OrchestratedActions
    <2>3. pc'[r] = "executed" /\ mem'[r].action = mem[r].action /\ mem'[r].success = success
      BY <1>0, <2>2 DEF Executed, Goto, TypeOK, Mems
    <2>4. success \in Serial!Results(mem[r].action)
      BY <2>2 DEF Serial!Results
    <2>5. call[r].kind = "ingest" => Serial!Decides(r, mem[r].action, TRUE)
      <3>1. call[r].kind = "ingest" => At(r, "decided") /\ mem[r].auto
        BY <2>1 DEF ToExecute
      <3>2. mem[r].auto => mem[r].auto = TRUE
        BY <1>0 DEF TypeOK, Mems
      <3> QED
        BY <1>0, <3>1, <3>2 DEF Explained, At
    <2>6. Resolving(r) => view = db
      <3>1. Resolving(r) => At(r, "validated")
        BY <1>0, <2>1 DEF ToExecute, At, Resolving, Progress
      <3> QED
        BY <1>0, <3>1 DEF Explained, At
    <2> QED
      BY <2>1, <2>3, <2>4, <2>5, <2>6, SameSerial DEF Explained
  <1>5. CASE RecordAutoDecision(r)
    <2>1. /\ pc[r] = "executed" /\ conn = r /\ call[r].kind = "ingest" /\ pc'[r] = "returning"
          /\ db' = db /\ call' = call /\ Subject(r) = r
      BY <1>0, <1>5, TypedParts DEF RecordAutoDecision, At, Return, Leave, Goto, TypeOK
    <2>2. view'[r] = Serial!AutomaticRow(mem[r].action, mem[r].success)
      BY <1>0, <1>5 DEF RecordAutoDecision, Serial!AutomaticRow, TypeOK
    <2>3. /\ mem[r].action \in Actions /\ mem[r].success \in Serial!Results(mem[r].action)
          /\ Serial!Decides(r, mem[r].action, TRUE)
      BY <1>0, <2>1 DEF Explained, Progress
    <2>4. view'[r] \in Serial!Ingested(r, mem[r].action)
      BY <2>2, <2>3, IngestedRows
    <2>5. \E action \in Actions : view'[r] \in Serial!Ingested(r, action)'
      BY <2>1, <2>3, <2>4, SameSerial
    <2>6. Subject(r)' = r /\ call'[r].kind = "ingest" /\ ~Resolving(r)'
      BY <2>1 DEF Subject, Resolving
    <2> QED
      BY <2>1, <2>5, <2>6 DEF Explained
  <1>6. CASE RequestApproval(r)
    <2>1. /\ pc'[r] = "requested" /\ mem' = mem /\ db' = db /\ call' = call
          /\ pc[r] = "decided" /\ conn = r /\ mem[r].auto = FALSE
      BY <1>0, <1>6 DEF RequestApproval, At, Goto, TypeOK, Mems
    <2> QED
      BY <1>0, <2>1, SameSerial DEF Explained
  <1>7. CASE NotifyOncall(r)
    <2>1. /\ pc'[r] = "notified" /\ mem' = mem /\ db' = db /\ call' = call
          /\ pc[r] = "requested" /\ conn = r
      BY <1>0, <1>7 DEF NotifyOncall, At, Goto, TypeOK
    <2> QED
      BY <1>0, <2>1, SameSerial DEF Explained
  <1>8. CASE RecordPending(r)
    <2>1. /\ pc'[r] = "returning" /\ db' = db /\ call' = call /\ pc[r] = "notified" /\ conn = r
      BY <1>0, <1>8 DEF RecordPending, At, Return, Leave, Goto, TypeOK
    <2>2. /\ call[r].kind = "ingest" /\ mem[r].action \in Actions
          /\ view[r] = RequestedRow(mem[r].action) /\ Subject(r) = r
          /\ Serial!Decides(r, mem[r].action, FALSE)
      BY <1>0, <2>1, TypedParts DEF Explained, Progress
    <2>3. view'[r] = [RequestedRow(mem[r].action) EXCEPT !.event = "processed", !.history = "pending"]
      BY <1>0, <1>8, <2>2 DEF RecordPending, TypeOK
    <2>4. view'[r] = Serial!WaitingRow(mem[r].action)
      BY <2>3 DEF Serial!WaitingRow, RequestedRow, ProcessingRow, NoRow
    <2>5. view'[r] \in Serial!Ingested(r, mem[r].action)
      BY <2>2, <2>4, IngestedRows
    <2> QED
      BY <2>1, <2>2, <2>5, SameSerial DEF Explained, Resolving
  <1>9. CASE LoadAndValidate(r)
    <2>1. /\ pc'[r] = "validated" /\ conn = NoReq /\ view' = view /\ db' = db /\ call' = call
      BY <1>0, <1>9 DEF LoadAndValidate, Checkout, ConnectionFree, Goto, TypeOK
    <2>2. view = db
      BY <2>1 DEF IInv, TransactionIsLocal, TypeOK
    <2> QED
      BY <2>1, <2>2 DEF Explained
  <1>10. CASE RecordApproval(r)
    <2> DEFINE e == Subject(r)
    <2>1. /\ pc'[r] = "returning" /\ db' = db /\ call' = call /\ pc[r] = "executed" /\ conn = r
          /\ call[r].kind = "approve"
      BY <1>0, <1>10 DEF RecordApproval, At, Return, Leave, Goto, TypeOK
    <2>2. /\ view = db /\ mem[r].success \in Serial!Results(mem[r].action)
          /\ mem[r].action = view[e].action /\ e \in Req
      BY <1>0, <2>1, TypedParts DEF Explained, Resolving, EInv, ActsOnce, Acts
    <2>3. view'[e] = Serial!ApprovedRow(db[e], mem[r].success)
      BY <1>0, <1>10, <2>2 DEF RecordApproval, Serial!ApprovedRow, TypeOK
    <2>4. view'[e] \in Serial!Resolved(r, db[e])
      BY <2>1, <2>2, <2>3 DEF Serial!Resolved
    <2> QED
      BY <2>1, <2>4, SameSerial DEF Explained, Resolving
  <1>11. CASE RecordRejection(r)
    <2> DEFINE e == Subject(r)
    <2>1. /\ pc'[r] = "returning" /\ db' = db /\ call' = call /\ pc[r] = "validated" /\ conn = r
          /\ call[r].kind = "reject"
      BY <1>0, <1>11 DEF RecordRejection, At, Return, Leave, Goto, TypeOK
    <2>2. view = db /\ e \in Req
      BY <1>0, <2>1, TypedParts DEF Explained, Resolving
    <2>3. view'[e] = Serial!RejectedRow(db[e])
      BY <1>0, <1>11, <2>2 DEF RecordRejection, Serial!RejectedRow, TypeOK
    <2>4. view'[e] \in Serial!Resolved(r, db[e])
      BY <2>1, <2>3 DEF Serial!Resolved
    <2> QED
      BY <2>1, <2>4, SameSerial DEF Explained, Resolving
  <1>12. CASE GetEvent(r)
    <2>1. /\ call[r].kind = "read" /\ view' = view /\ call' = call
          /\ pc'[r] = "returning" => view[Subject(r)].event # "absent"
          /\ pc'[r] \in {"raising", "returning"}
      BY <1>0, <1>12 DEF GetEvent, Raise, Return, Leave, Goto, TypeOK
    <2> QED
      BY <2>1 DEF Explained, Subject, Resolving
  <1>13. CASE Answer(r)
    <2>1. /\ pc'[r] = "answered" /\ pc[r] = "returning" /\ conn = r
          /\ UNCHANGED <<call, mem, conn, view, db>>
      BY <1>0, <1>1, <1>13 DEF Answer, Goto, TypeOK, HoldingPhases
    <2> QED
      BY <1>0, <2>1, SameSerial DEF Explained
  <1> QED
    <2>1. pc'[r] # "committed" /\ pc'[r] # "done" /\ pc'[r] # "waiting"
      BY <1>1 DEF HoldingPhases
    <2>2. \/ pc'[r] \in {"fresh", "processing", "reasoning", "raising"}
          \/ Decide(r) \/ CallOrchestrator(r) \/ NotifyHuman(r) \/ NoAction(r)
          \/ RecordAutoDecision(r) \/ RequestApproval(r) \/ NotifyOncall(r) \/ RecordPending(r)
          \/ LoadAndValidate(r) \/ RecordApproval(r) \/ RecordRejection(r) \/ GetEvent(r) \/ Answer(r)
      BY <1>0, <2>1, ReqAssumption
         DEF TypeOK, Serve, Fail, Arrive, FindByDedupKey, FindDuplicate, SaveEvent, ReadHistory,
             ApprovalNotFound, ApprovalAlreadyResolved, Rollback, Commit, CommitFails, LookupFails, StoreFails,
             ProcessingRaises, PoolTimeout, Raise, Leave, Goto
    <2> QED
      BY <2>2, <1>2, <1>3, <1>4, <1>5, <1>6, <1>7, <1>8, <1>9, <1>10, <1>11, <1>12, <1>13
-----------------------------------------------------------------------------
(* Verdicts *)

\* A step of r gives the verdict of a conflict only to r, and only out of the
\* statement that finds it; a handler that has it goes no further.
Finds(r) == FindDuplicate(r) \/ ApprovalNotFound(r) \/ ApprovalAlreadyResolved(r) \/ GetEvent(r)

LEMMA OutcomeOfStep ==
    ASSUME TypeOK, NEW r \in Req, Arrive(r) \/ Serve(r) \/ Fail(r)
    PROVE  /\ outcome'[r].code \in Conflicts => outcome'[r] = outcome[r] \/ (Finds(r) /\ pc'[r] = "raising")
           /\ outcome'[r] # outcome[r] => pc[r] \notin {"raising", "done", "lost"}
           /\ pc[r] = "raising" => pc'[r] \in {"raising", "done"}
           /\ pc[r] \notin {"done", "lost"}
  <1> USE DEF TypeOK, Conflicts, Finds, Goto, Leave, Raise, Return, At, Checkout
  <1>1. CASE Arrive(r) \/ FindByDedupKey(r) \/ SaveEvent(r) \/ ReadHistory(r) \/ Decide(r)
               \/ RequestApproval(r) \/ NotifyOncall(r) \/ LoadAndValidate(r) \/ Answer(r)
    BY <1>1 DEF Arrive, FindByDedupKey, SaveEvent, ReadHistory, Decide, RequestApproval, NotifyOncall,
                LoadAndValidate, Answer
  <1>2. CASE FindDuplicate(r) \/ ApprovalNotFound(r) \/ ApprovalAlreadyResolved(r)
    BY <1>2 DEF FindDuplicate, ApprovalNotFound, ApprovalAlreadyResolved
  <1>3. CASE GetEvent(r)
    BY <1>3 DEF GetEvent
  <1>4. CASE RecordAutoDecision(r) \/ RecordPending(r) \/ RecordApproval(r) \/ RecordRejection(r)
    BY <1>4 DEF RecordAutoDecision, RecordPending, RecordApproval, RecordRejection
  <1>5. CASE CallOrchestrator(r) \/ NotifyHuman(r) \/ NoAction(r)
    BY <1>5 DEF CallOrchestrator, NotifyHuman, NoAction, ToExecute, Executed
  <1>6. CASE Rollback(r) \/ Commit(r)
    BY <1>6 DEF Rollback, Commit, Committing
  <1>7. CASE CommitFails(r) \/ PoolTimeout(r)
    BY <1>7 DEF CommitFails, PoolTimeout, Committing
  <1>8. CASE LookupFails(r) \/ StoreFails(r) \/ ProcessingRaises(r)
    BY <1>8 DEF LookupFails, StoreFails, ProcessingRaises, TouchesStore
  <1> QED
    BY <1>1, <1>2, <1>3, <1>4, <1>5, <1>6, <1>7, <1>8 DEF Serve, Fail

LEMMA ConflictsKeepEnding ==
    ASSUME TypeOK, ConflictsEnd, NEW r \in Req, Arrive(r) \/ Serve(r) \/ Fail(r)
    PROVE  ConflictsEnd'
  <1>1. Own(r)
    BY Frame
  <1>2. \A s \in Req : s # r => pc'[s] = pc[s] /\ outcome'[s] = outcome[s]
    BY <1>1 DEF Own, TypeOK
  <1>3. outcome'[r].code \in Conflicts => pc'[r] \in {"raising", "done", "lost"}
    BY OutcomeOfStep DEF ConflictsEnd
  <1> QED
    BY <1>2, <1>3 DEF ConflictsEnd

LEMMA SerialKeeps ==
    ASSUME IInv, EInv, SInv, IInv', EInv', [Next]_vars
    PROVE  SInv'
  <1>1. CASE \E r \in Req : Arrive(r) \/ Serve(r) \/ Fail(r)
    <2>1. PICK r \in Req : Arrive(r) \/ Serve(r) \/ Fail(r)
      BY <1>1
    <2>2. TypeOK /\ Exclusive /\ Own(r) /\ Shared(r)
      BY <2>1, Frame DEF IInv
    <2>3. ASSUME NEW s \in Req, conn' = s PROVE Explained(s)'
      BY <2>1, <2>2, <2>3, OthersExplained, ExplainedOn DEF SInv
    <2> QED
      BY <2>1, <2>2, <2>3, ConflictsKeepEnding DEF SInv
  <1>2. CASE Crash
    BY <1>2, ReqAssumption DEF Crash, SInv, ConflictsEnd, InFlight, Ended
  <1>3. CASE UNCHANGED vars
    <2>1. \A s : /\ \A action, auto : Serial!Decides(s, action, auto)' = Serial!Decides(s, action, auto)
                 /\ \A action : Serial!Ingested(s, action)' = Serial!Ingested(s, action)
                 /\ \A row : Serial!Resolved(s, row)' = Serial!Resolved(s, row)
                 /\ Subject(s)' = Subject(s) /\ Resolving(s)' = Resolving(s)
      BY <1>3, SameSerial DEF vars
    <2> QED
      BY <1>3, <2>1 DEF vars, SInv, ConflictsEnd, Explained
  <1> QED
    BY <1>1, <1>2, <1>3 DEF Next, Quiescent

\* The work in flight is always that of one request run alone.
THEOREM WorkIsSerial == Spec => []SInv
  <1>1. Init => SInv
    BY ReqAssumption DEF Init, SInv, ConflictsEnd, Conflicts, NoOutcome
  <1>2. IInv /\ EInv /\ SInv /\ IInv' /\ EInv' /\ [Next]_vars => SInv'
    BY SerialKeeps
  <1> QED
    BY <1>1, <1>2, InductiveInvariant, EffectsInvariant, PTL DEF Spec
-----------------------------------------------------------------------------
(* The steps of SerialWarden *)

LEMMA SameVerdicts ==
    ASSUME call' = call, durable' = durable,
           \A s \in Req : \/ outcome'[s] = outcome[s]
                          \/ outcome[s].code \notin Conflicts /\ outcome'[s].code \notin Conflicts
    PROVE  Verdicts' = Verdicts
  BY DEF Verdicts, Subject

\* A verdict is given once.
LEMMA NewVerdict ==
    ASSUME call' = call, NEW r \in Req, Verdicts[r] = NoOutcome,
           \A s \in Req : s # r => outcome'[s] = outcome[s] /\ (s \in durable' <=> s \in durable),
           NEW code, NEW e,
           \/ r \in durable' /\ code = "ok" /\ e = Subject(r)
           \/ r \notin durable' /\ code \in Conflicts /\ outcome'[r] = [code |-> code, event |-> e]
    PROVE  Serial!Says(r, code, e)
  <1>1. Verdicts'[r] = [code |-> code, event |-> e]
    BY DEF Verdicts, Subject
  <1>2. \A s \in Req : s # r => Verdicts'[s] = Verdicts[s]
    BY DEF Verdicts, Subject
  <1>3. Verdicts = [s \in Req |-> Verdicts[s]] /\ Verdicts' = [s \in Req |-> Verdicts'[s]]
    BY DEF Verdicts
  <1>4. Verdicts' = [Verdicts EXCEPT ![r] = Verdicts'[r]]
    BY <1>2, <1>3
  <1> QED
    BY <1>1, <1>4, SerialReads DEF Serial!Says

\* The statement that finds a conflict.
LEMMA FindsIsSerial ==
    ASSUME IInv, EInv, SInv, NEW r \in Req, Finds(r), outcome'[r].code \in Conflicts
    PROVE  Serial!Next
  <1>1. /\ pc[r] = "waiting" /\ conn = NoReq
        /\ call' = call /\ db' = db /\ durable' = durable /\ TypeOK
    BY DEF Finds, FindDuplicate, ApprovalNotFound, ApprovalAlreadyResolved, GetEvent, Checkout,
           ConnectionFree, IInv
  <1>2. view = db
    BY <1>1 DEF IInv, TransactionIsLocal, TypeOK
  <1>3. r \notin durable /\ outcome[r].code \notin Conflicts
    BY <1>1 DEF EInv, RowsHaveAuthors, SInv, ConflictsEnd
  <1>4. Verdicts[r] = NoOutcome
    BY <1>3 DEF Verdicts
  <1>5. \A s \in Req : s # r => outcome'[s] = outcome[s]
    BY <1>1 DEF Finds, FindDuplicate, ApprovalNotFound, ApprovalAlreadyResolved, GetEvent,
                Raise, Return, TypeOK
  <1>6. ASSUME NEW code \in Conflicts, NEW e, Raise(r, code, e) PROVE Serial!Says(r, code, e)
    <2>1. outcome'[r] = [code |-> code, event |-> e]
      BY <1>1, <1>6 DEF Raise, TypeOK
    <2> QED
      BY <1>1, <1>3, <1>4, <1>5, <2>1, NewVerdict
  <1>7. CASE FindDuplicate(r)
    <2>1. PICK e \in Existing(KeyOf(r)) : Raise(r, "duplicate", e)
      BY <1>7 DEF FindDuplicate
    <2>2. e \in Serial!Existing(Serial!KeyOf(r))
      BY <1>2, SerialReads DEF Existing, Serial!KeyOf, KeyOf
    <2>3. Serial!Says(r, "duplicate", e)
      BY <1>6, <2>1 DEF Conflicts
    <2>4. Serial!Conflict(r)
      BY <1>1, <1>7, <2>2, <2>3 DEF FindDuplicate, Serial!Conflict
    <2> QED
      BY <2>4 DEF Serial!Next
  <1>8. CASE ApprovalNotFound(r)
    <2>1. Serial!Says(r, "not_found", NoReq)
      BY <1>6, <1>8 DEF ApprovalNotFound, Conflicts
    <2>2. Serial!NotFound(r)
      BY <1>1, <1>2, <1>8, <2>1 DEF ApprovalNotFound, Serial!NotFound, Resolving, Subject
    <2> QED
      BY <2>2 DEF Serial!Next
  <1>9. CASE ApprovalAlreadyResolved(r)
    <2>1. Serial!Says(r, "resolved", NoReq)
      BY <1>6, <1>9 DEF ApprovalAlreadyResolved, Conflicts
    <2>2. Serial!AlreadyResolved(r)
      BY <1>1, <1>2, <1>9, <2>1 DEF ApprovalAlreadyResolved, Serial!AlreadyResolved, Resolving, Subject
    <2> QED
      BY <2>2 DEF Serial!Next
  <1>10. CASE GetEvent(r)
    <2>1. ~Return(r)
      BY <1>1 DEF Return, Conflicts, TypeOK
    <2>2. view[Subject(r)].event = "absent" /\ Raise(r, "not_found", NoReq)
      BY <1>10, <2>1 DEF GetEvent
    <2>3. Serial!Says(r, "not_found", NoReq)
      BY <1>6, <2>2 DEF Conflicts
    <2>4. Serial!NotFound(r)
      BY <1>1, <1>2, <1>10, <2>2, <2>3 DEF GetEvent, Serial!NotFound, Subject
    <2> QED
      BY <2>4 DEF Serial!Next
  <1> QED
    BY <1>7, <1>8, <1>9, <1>10 DEF Finds

LEMMA CommitIsSerial ==
    ASSUME IInv, EInv, SInv, NEW r \in Req, Commit(r)
    PROVE  Serial!Next
  <1> DEFINE e == Subject(r)
  <1>1. /\ conn = r /\ pc[r] \in {"returning", "answered"} /\ db' = view /\ call' = call
        /\ outcome' = outcome /\ durable' = durable \cup {r}
    BY DEF Commit, Committing, At
  <1>2. Knows(r) /\ Explained(r)
    BY <1>1 DEF EInv, HolderKnows, SInv
  <1>3. /\ e \in Req /\ call[r].kind \in AllKinds
        /\ call[r].kind = "ingest" => e = r
        /\ view \in [Req -> Rows] /\ db \in [Req -> Rows]
    BY TypedParts DEF IInv, TypeOK
  <1>4. \A f \in Req : f # e => db'[f] = db[f]
    BY <1>1, ReqAssumption DEF IInv, TransactionIsLocal
  <1>5. db' = [db EXCEPT ![e] = view[e]]
    BY <1>1, <1>3, <1>4
  <1>6. r \notin durable /\ outcome[r].code \notin Conflicts
    BY <1>1 DEF EInv, RowsHaveAuthors, SInv, ConflictsEnd
  <1>7. Verdicts[r] = NoOutcome
    BY <1>6 DEF Verdicts
  <1>8. Serial!Says(r, "ok", e)
    BY <1>1, <1>7, NewVerdict
  <1>9. CASE call[r].kind = "ingest"
    <2>1. e = r /\ db[r] = NoRow /\ \E action \in Actions : view[r] \in Serial!Ingested(r, action)
      BY <1>1, <1>2, <1>3, <1>9 DEF Knows, Explained
    <2>2. view[r].event # "absent"
      BY <1>1, <1>2, <1>9, <2>1 DEF Knows, Effect
    <2>3. Committed(KeyOf(r)) = {}
      BY <1>9, <2>1, <2>2, NewIncident
    <2>4. Serial!Existing(Serial!KeyOf(r)) = {} /\ Serial!Actions = Actions
      BY <2>3, SerialReads DEF Committed, Serial!KeyOf, KeyOf, Serial!Actions, Actions
    <2>5. Serial!Ingest(r)
      BY <1>5, <1>8, <1>9, <2>1, <2>4 DEF Serial!Ingest
    <2> QED
      BY <2>5 DEF Serial!Next
  <1>10. CASE Resolving(r)
    <2>1. db[e].approval = "pending" /\ view[e] \in Serial!Resolved(r, db[e])
      BY <1>1, <1>2, <1>10 DEF Knows, Explained
    <2>2. Serial!Resolve(r)
      BY <1>5, <1>8, <1>10, <2>1 DEF Serial!Resolve, Resolving, Subject
    <2> QED
      BY <2>2 DEF Serial!Next
  <1>11. CASE call[r].kind = "read"
    <2>1. view = db /\ view[e].event # "absent"
      BY <1>1, <1>2, <1>11 DEF Knows, Explained
    <2>2. Serial!Read(r)
      BY <1>1, <1>8, <1>11, <2>1 DEF Serial!Read, Subject
    <2> QED
      BY <2>2 DEF Serial!Next
  <1> QED
    BY <1>3, <1>9, <1>10, <1>11 DEF AllKinds, Resolving

\* Any step is one of SerialWarden, or a stutter of it.
LEMMA StepIsSerial ==
    ASSUME IInv, EInv, SInv, [Next]_vars
    PROVE  Serial!Next \/ UNCHANGED <<call, db, Verdicts>>
  <1>1. CASE \E r \in Req : Arrive(r) \/ Serve(r) \/ Fail(r)
    <2>1. PICK r \in Req : Arrive(r) \/ Serve(r) \/ Fail(r)
      BY <1>1
    <2>2. TypeOK /\ Own(r)
      BY <2>1, Frame DEF IInv
    <2>3. CASE Commit(r)
      BY <2>3, CommitIsSerial
    <2>4. CASE Finds(r) /\ outcome'[r].code \in Conflicts
      BY <2>4, FindsIsSerial
    <2>5. CASE ~Commit(r) /\ ~(Finds(r) /\ outcome'[r].code \in Conflicts)
      <3>1. db' = db /\ durable' = durable /\ call' = call
        BY <2>1, <2>2, <2>5, OnlyCommits DEF Own
      <3>2. \A s \in Req : s # r => outcome'[s] = outcome[s]
        BY <2>2 DEF Own, TypeOK
      <3>3. \/ outcome'[r] = outcome[r]
            \/ outcome[r].code \notin Conflicts /\ outcome'[r].code \notin Conflicts
        BY <2>1, <2>2, <2>5, OutcomeOfStep DEF SInv, ConflictsEnd
      <3> QED
        BY <3>1, <3>2, <3>3, SameVerdicts
    <2> QED
      BY <2>3, <2>4, <2>5
  <1>2. CASE Crash \/ UNCHANGED vars
    BY <1>2, SameVerdicts DEF Crash, vars
  <1> QED
    BY <1>1, <1>2 DEF Next, Quiescent

\* The API is serializable: what it commits, and every conflict it reports, is what one
\* request at a time would have done, in the order of commits, for any requests, answers,
\* faults and history limit, whether the answer is sent before the commit or after.
THEOREM WardenIsSerializable == Spec => ImplementsSerial
  <1>1. Init => Serial!Init
    BY SerialReads DEF Init, Serial!Init, Verdicts, Conflicts, NoOutcome
  <1>2. IInv /\ EInv /\ SInv /\ [Next]_vars => [Serial!Next]_<<call, db, Verdicts>>
    BY StepIsSerial
  <1> QED
    BY <1>1, <1>2, InductiveInvariant, EffectsInvariant, WorkIsSerial, PTL
       DEF Spec, ImplementsSerial, Serial!Spec
=============================================================================

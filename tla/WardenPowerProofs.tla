-------------------------- MODULE WardenPowerProofs --------------------------
(***************************************************************************)
(* What Warden promises of its records survives the loss of commits in a   *)
(* power failure.  Everything the disk may bring back is sound: the rows   *)
(* are whole, each has its author, and what an author says it did is done. *)
(* From sound rows, and with nothing in flight, the invariants of Warden   *)
(* hold again.                                                             *)
(***************************************************************************)
EXTENDS WardenPower, WardenRefinementProofs

\* What is committed is sound.
LEMMA CurrentIsSound == IInv /\ EInv => Sound(Current)
  <1> SUFFICES ASSUME IInv, EInv PROVE Sound(Current)
    OBVIOUS
  <1>1. Current.rows = db /\ Current.durable = durable
    BY DEF Current
  <1>2. \A e \in Req : db[e] = NoRow \/ SettledRow(db[e])
    BY DEF IInv, RecordsAgree
  <1>3. ASSUME NEW e \in Req, db[e] # NoRow
        PROVE  /\ SettledRow(db[e]) /\ db[e].event # "absent" /\ view[e].event # "absent"
               /\ call[e].kind = "ingest" /\ e \in durable
    <2>1. SettledRow(db[e]) /\ db[e].event # "absent"
      BY <1>2, <1>3 DEF SettledRow
    <2> QED
      BY <2>1 DEF IInv, RowsAreSound, EInv, RowsHaveAuthors
  <1>4. \A e \in Req : /\ db[e].approval = "pending" => paged[e] # "none"
                       /\ db[e].approval = "approved" =>
                             \E r \in durable : call[r].kind = "approve" /\ Subject(r) = e
    BY DEF EInv, PagedBeforePending, RowsHaveAuthors
  <1>5. \A e, f \in Req : db[e] # NoRow /\ db[f] # NoRow /\ KeyOf(e) = KeyOf(f) => e = f
    BY <1>3 DEF IInv, KeysAreUnique
  <1>6. \A r \in durable : Effect(r, db[Subject(r)])
    BY DEF EInv, RowsHaveAuthors
  <1>7. HistoryLimit >= HighIncidentThreshold =>
           \A w \in Workloads : Cardinality(AutoRows(db, w)) <= HighIncidentThreshold
    BY DEF EInv, AutoBounded, AutoRows
  <1>8. Current \in [rows : [Req -> Rows], durable : SUBSET durable]
    BY DEF IInv, TypeOK, Current
  <1> QED
    BY <1>1, <1>3, <1>4, <1>5, <1>6, <1>7, <1>8 DEF Sound

\* Sound rows stay it as long as what their authors did is not taken back.
LEMMA StaysSound ==
    ASSUME NEW left, Sound(left), call' = call, left.durable \subseteq durable',
           \A r \in left.durable : performed'[r] = performed[r],
           \A e \in Req : paged[e] # "none" => paged'[e] # "none"
    PROVE  Sound(left)'
  <1>1. \A r \in left.durable : Effect(r, left.rows[Subject(r)])' <=> Effect(r, left.rows[Subject(r)])
    BY DEF Effect, Vouches, Subject
  <1>2. \A r : Subject(r)' = Subject(r) /\ KeyOf(r)' = KeyOf(r)
    BY DEF Subject, KeyOf
  <1>3. \A w : AutoRows(left.rows, w)' = AutoRows(left.rows, w)
    BY <1>2 DEF AutoRows
  <1> QED
    BY <1>1, <1>2, <1>3 DEF Sound

\* The steps of Warden take back nothing that a committed request did.
LEMMA StepKeepsSound ==
    ASSUME IInv, EInv, [Next]_vars, NEW left, Sound(left)
    PROVE  Sound(left)'
  <1>0. left.durable \subseteq durable /\ durable \subseteq Req
    BY DEF Sound, IInv, TypeOK
  <1>1. CASE \E r \in Req : Arrive(r) \/ Serve(r) \/ Fail(r)
    <2>1. PICK r \in Req : Arrive(r) \/ Serve(r) \/ Fail(r)
      BY <1>1
    <2>2. TypeOK /\ Exclusive /\ RowsHaveAuthors /\ Own(r)
      BY <2>1, Frame DEF IInv, EInv
    <2>3. r \in durable => performed' = performed
      BY <2>1, <2>2, DurableIsOver
    <2>4. \A s \in left.durable : performed'[s] = performed[s]
      BY <1>0, <2>2, <2>3 DEF Own, TypeOK
    <2> QED
      BY <1>0, <2>2, <2>4, StaysSound DEF Own
  <1>2. CASE Crash \/ UNCHANGED vars
    BY <1>0, <1>2, StaysSound DEF Crash, vars
  <1> QED
    BY <1>1, <1>2 DEF Next, Quiescent
-----------------------------------------------------------------------------
(* After a power failure *)

\* What PowerFailure leaves, by name.
LEMMA Left ==
    ASSUME PInv, PowerFailure
    PROVE  \E left \in kept :
              /\ Sound(left)
              /\ db' = left.rows /\ view' = left.rows /\ durable' = left.durable
              /\ kept' = {left} /\ conn' = NoReq /\ mem' = [r \in Req |-> NoMem]
              /\ UNCHANGED <<call, performed, paged>>
              /\ \A r \in Req : /\ pc'[r] \in {"idle", "done", "lost"}
                                /\ pc'[r] = "idle" => pc[r] = "idle"
                                /\ pc'[r] = "done" => r \in left.durable
                                /\ r \in left.durable => pc'[r] \in {"done", "lost"}
                                /\ outcome'[r] = IF r \in left.durable THEN outcome[r] ELSE NoOutcome
              /\ pc' \in [Req -> Phases] /\ outcome' \in [Req -> Outcomes]
  <1>1. PICK left \in kept :
          /\ db' = left.rows /\ view' = left.rows /\ durable' = left.durable
          /\ kept' = {left} /\ conn' = NoReq /\ mem' = [r \in Req |-> NoMem]
          /\ pc' = [r \in Req |-> IF pc[r] = "idle" \/ (pc[r] = "done" /\ r \in left.durable)
                                  THEN pc[r] ELSE "lost"]
          /\ outcome' = [r \in Req |-> IF r \in left.durable THEN outcome[r] ELSE NoOutcome]
          /\ UNCHANGED <<call, performed, paged>>
    BY DEF PowerFailure
  <1>2. Sound(left) /\ left.durable \subseteq durable
    BY DEF PInv, KeptIsSound, Sound
  <1>3. \A r \in left.durable : pc[r] # "idle"
    BY <1>2 DEF PInv, EInv, RowsHaveAuthors
  <1>4. NoOutcome \in Outcomes /\ {"idle", "done", "lost"} \subseteq Phases
    BY DEF NoOutcome, Outcomes, Codes, Phases
  <1>5. pc' \in [Req -> Phases] /\ outcome' \in [Req -> Outcomes]
    BY <1>1, <1>4 DEF PInv, IInv, TypeOK
  <1> QED
    BY <1>1, <1>2, <1>3, <1>5

LEMMA PowerKeepsIInv ==
    ASSUME PInv, PowerFailure
    PROVE  IInv'
  <1>1. PICK left \in kept :
          /\ Sound(left)
          /\ db' = left.rows /\ view' = left.rows /\ durable' = left.durable
          /\ conn' = NoReq /\ mem' = [r \in Req |-> NoMem]
          /\ UNCHANGED <<call, performed, paged>>
          /\ \A r \in Req : /\ pc'[r] \in {"idle", "done", "lost"}
                            /\ outcome'[r] = IF r \in left.durable THEN outcome[r] ELSE NoOutcome
          /\ pc' \in [Req -> Phases] /\ outcome' \in [Req -> Outcomes]
    BY Left
  <1>2. TypeOK /\ CommittedWasServed /\ left.durable \subseteq durable /\ left.rows \in [Req -> Rows]
    BY <1>1 DEF PInv, IInv, Sound
  <1>3. TypeOK'
    <2>1. NoMem \in Mems
      BY DEF NoMem, Mems
    <2> QED
      BY <1>1, <1>2, <2>1 DEF TypeOK
  <1>4. Exclusive' /\ TransactionIsLocal' /\ HandlerProgress'
    BY <1>1, ReqAssumption DEF Exclusive, TransactionIsLocal, HandlerProgress, HoldingPhases
  <1>5. \A e \in Req : left.rows[e] = NoRow \/ (SettledRow(left.rows[e]) /\ call[e].kind = "ingest")
    BY <1>1 DEF Sound
  <1>6. RowsAreSound' /\ RecordsAgree'
    <2>1. NoRow.event = "absent" /\ \A row : SettledRow(row) => row.event # "absent"
      BY DEF NoRow, SettledRow
    <2>2. \A e \in Req : SettledRow(left.rows[e])' <=> SettledRow(left.rows[e])
      BY DEF SettledRow
    <2> QED
      BY <1>1, <1>5, <2>1, <2>2 DEF RowsAreSound, RecordsAgree
  <1>7. KeysAreUnique'
    <2>1. \A e \in Req : left.rows[e].event # "absent" => left.rows[e] # NoRow
      BY DEF NoRow
    <2>2. \A e \in Req : KeyOf(e)' = KeyOf(e)
      BY <1>1 DEF KeyOf
    <2> QED
      BY <1>1, <2>1, <2>2 DEF KeysAreUnique, Sound
  <1>8. DuplicateNamesDurableEvent'
    <2>1. \A r \in Req : outcome'[r].code # "duplicate"
      BY <1>1, <1>2 DEF CommittedWasServed, Conflicts, NoOutcome
    <2> QED
      BY <2>1 DEF DuplicateNamesDurableEvent
  <1> QED
    BY <1>3, <1>4, <1>6, <1>7, <1>8 DEF IInv

LEMMA PowerKeepsEInv ==
    ASSUME PInv, PowerFailure
    PROVE  EInv'
  <1>1. PICK left \in kept :
          /\ Sound(left)
          /\ db' = left.rows /\ view' = left.rows /\ durable' = left.durable
          /\ conn' = NoReq
          /\ UNCHANGED <<call, performed, paged>>
          /\ \A r \in Req : /\ pc'[r] \in {"idle", "done", "lost"}
                            /\ pc'[r] = "idle" => pc[r] = "idle"
                            /\ pc'[r] = "done" => r \in left.durable
                            /\ r \in left.durable => pc'[r] \in {"done", "lost"}
    BY Left
  <1>2. left.durable \subseteq durable /\ left.durable \subseteq Req /\ EInv
    BY <1>1 DEF PInv, IInv, TypeOK, Sound
  <1>3. \A r : Subject(r)' = Subject(r) /\ Resolving(r)' = Resolving(r) /\ KeyOf(r)' = KeyOf(r)
    BY <1>1 DEF Subject, Resolving, KeyOf
  <1>4. ActsOnce' /\ NoUnsafeAutonomy'
    <2>1. \A r \in Req : performed[r] # "none" => call[r].kind \in {"ingest", "approve"} /\ pc'[r] \notin Before
      BY <1>1, <1>2 DEF EInv, ActsOnce, Acts, Before
    <2>2. ActsOnce'
      BY <1>1, <2>1 DEF ActsOnce, Acts
    <2>3. NoUnsafeAutonomy'
      BY <1>1, <1>2, <1>3 DEF EInv, NoUnsafeAutonomy
    <2> QED
      BY <2>2, <2>3
  <1>5. HolderKnows' /\ IncidentCountIsFresh'
    BY <1>1, ReqAssumption DEF HolderKnows, IncidentCountIsFresh
  <1>6. RowsHaveAuthors'
    <2>1. \A r \in left.durable : Effect(r, left.rows[Subject(r)])
      BY <1>1 DEF Sound
    <2>2. \A r \in left.durable : Effect(r, db[Subject(r)])'
      BY <1>1, <1>3, <2>1 DEF Effect, Vouches
    <2>3. \A r, s \in left.durable : Resolving(r) /\ Resolving(s) /\ Subject(r) = Subject(s) => r = s
      BY <1>2 DEF EInv, RowsHaveAuthors
    <2>4. \A e \in Req : left.rows[e].event # "absent" => e \in left.durable
      BY <1>1 DEF Sound, NoRow
    <2>5. \A e \in Req : left.rows[e].approval = "approved" =>
             \E r \in left.durable : call[r].kind = "approve" /\ Subject(r) = e
      BY <1>1 DEF Sound, NoRow
    <2> QED
      BY <1>1, <1>2, <1>3, <2>2, <2>3, <2>4, <2>5 DEF RowsHaveAuthors
  <1>7. PagesComeFirst' /\ PagedBeforePending'
    <2>1. \A e \in Req : left.rows[e].approval = "pending" => paged[e] # "none"
      BY <1>1 DEF Sound, NoRow
    <2> QED
      BY <1>1, <2>1 DEF PagesComeFirst, PagedBeforePending
  <1>8. R4Holds' /\ AutoBounded'
    <2> SUFFICES ASSUME HistoryLimit >= HighIncidentThreshold PROVE R4Holds' /\ AutoBounded'
      BY DEF R4Holds, AutoBounded
    <2>1. \A w \in Workloads : Cardinality(AutoRows(left.rows, w)) <= HighIncidentThreshold
      BY <1>1 DEF Sound
    <2>2. \A w : AutoRows(left.rows, w)' = AutoRows(left.rows, w)
      BY <1>3 DEF AutoRows
    <2>3. \A w \in Workloads : /\ Cardinality(AutoRows(view, w)') <= HighIncidentThreshold
                               /\ Cardinality({e \in Req : db'[e].auto /\ WorkloadOf[KeyOf(e)'] = w})
                                     <= HighIncidentThreshold
      BY <1>1, <1>3, <2>1, <2>2 DEF AutoRows
    <2>4. \A e \in Req : left.rows[e].auto => left.rows[e].history # "none"
      <3>1. \A e \in Req : left.rows[e] = NoRow \/ SettledRow(left.rows[e])
        BY <1>1 DEF Sound
      <3> QED
        BY <3>1, AutoIsHistory
    <2>5. AutoBounded'
      BY <2>3 DEF AutoBounded
    <2>6. \A r \in Req : ~ActsAlone(r)'
      BY <1>1, ReqAssumption DEF ActsAlone
    <2> QED
      BY <1>1, <2>3, <2>4, <2>5, <2>6 DEF R4Holds
  <1>9. AnswersFollowCommits'
    BY <1>1 DEF AnswersFollowCommits, FollowsCommit, Acked
  <1> QED
    BY <1>4, <1>5, <1>6, <1>7, <1>8, <1>9 DEF EInv
-----------------------------------------------------------------------------
(* The invariant and what follows from it *)

\* A handler that found a conflict does not commit.
LEMMA CommitsAreServed ==
    ASSUME TypeOK, Exclusive, RowsHaveAuthors, ConflictsEnd, CommittedWasServed,
           NEW r \in Req, Arrive(r) \/ Serve(r) \/ Fail(r)
    PROVE  CommittedWasServed'
  <1>1. Own(r) /\ durable \subseteq Req
    BY Frame DEF TypeOK
  <1>2. \A s \in Req : s # r => outcome'[s] = outcome[s]
    BY <1>1 DEF Own, TypeOK
  <1>3. CASE r \in durable
    <2>1. outcome' = outcome /\ durable' = durable
      BY <1>3, DurableIsOver
    <2> QED
      BY <2>1 DEF CommittedWasServed
  <1>4. CASE r \notin durable /\ Commit(r)
    <2>1. pc[r] \in {"returning", "answered"} /\ outcome' = outcome /\ durable' = durable \cup {r}
      BY <1>4 DEF Commit, Committing, At
    <2>2. outcome[r].code \notin Conflicts
      BY <2>1 DEF ConflictsEnd
    <2> QED
      BY <2>1, <2>2 DEF CommittedWasServed
  <1>5. CASE r \notin durable /\ ~Commit(r)
    <2>1. durable' = durable
      BY <1>5, OnlyCommits
    <2> QED
      BY <1>1, <1>2, <1>5, <2>1 DEF CommittedWasServed
  <1> QED
    BY <1>3, <1>4, <1>5

\* The parts of the invariant about answers, through a step of Warden.
LEMMA StepKeepsAnswers ==
    ASSUME PInv, [Next]_vars
    PROVE  CommittedWasServed'
  <1>1. TypeOK /\ Exclusive /\ RowsHaveAuthors /\ ConflictsEnd /\ CommittedWasServed
    BY DEF PInv, IInv, EInv, SInv
  <1>2. CASE \E r \in Req : Arrive(r) \/ Serve(r) \/ Fail(r)
    BY <1>1, <1>2, CommitsAreServed
  <1>3. CASE Crash
    BY <1>1, <1>3 DEF Crash, CommittedWasServed
  <1>4. CASE UNCHANGED vars
    BY <1>1, <1>4 DEF vars, CommittedWasServed
  <1> QED
    BY <1>2, <1>3, <1>4 DEF Next, Quiescent

LEMMA PowerStepKeeps ==
    ASSUME PInv, [PowerNext]_powerVars, IInv' /\ EInv' => Sound(Current)'
    PROVE  PInv'
  <1>1. CASE WardenStep \/ UNCHANGED powerVars
    <2>1. [Next]_vars /\ kept' \subseteq kept \cup {Current'}
      BY <1>1 DEF WardenStep, Keep, powerVars
    <2>2. IInv' /\ EInv'
      BY <2>1, StepKeeps, StepEffects DEF PInv
    <2>3. SInv' /\ CommittedWasServed'
      BY <2>1, <2>2, StepKeepsAnswers, SerialKeeps DEF PInv
    <2>4. \A left \in kept : Sound(left)'
      BY <2>1, StepKeepsSound DEF PInv, KeptIsSound
    <2>5. KeptIsSound'
      BY <2>1, <2>2, <2>4 DEF KeptIsSound
    <2>6. Current' \in kept'
      <3>1. UNCHANGED powerVars => Current' = Current
        BY DEF powerVars, vars, Current
      <3> QED
        BY <1>1, <3>1 DEF WardenStep, Keep, powerVars, PInv
    <2> QED
      BY <2>2, <2>3, <2>5, <2>6 DEF PInv
  <1>2. CASE Checkpoint
    <2>1. UNCHANGED vars /\ kept' = {Current} /\ Current' = Current
      BY <1>2 DEF Checkpoint, vars, Current
    <2>2. IInv' /\ EInv'
      BY <2>1, StepKeeps, StepEffects DEF PInv
    <2>3. SInv' /\ CommittedWasServed'
      BY <2>1, <2>2, StepKeepsAnswers, SerialKeeps DEF PInv
    <2>4. KeptIsSound' /\ Current' \in kept'
      BY <2>1, <2>2 DEF KeptIsSound
    <2> QED
      BY <2>2, <2>3, <2>4 DEF PInv
  <1>3. CASE PowerFailure
    <2>1. IInv' /\ EInv'
      BY <1>3, PowerKeepsIInv, PowerKeepsEInv
    <2>2. PICK left \in kept :
            /\ Sound(left) /\ db' = left.rows /\ durable' = left.durable /\ kept' = {left}
            /\ UNCHANGED <<call, performed, paged>>
            /\ \A r \in Req : /\ pc'[r] \in {"idle", "done", "lost"}
                              /\ pc'[r] = "idle" => r \notin left.durable
                              /\ outcome'[r] = IF r \in left.durable THEN outcome[r] ELSE NoOutcome
      BY <1>3, Left
    <2>3. CommittedWasServed /\ left.durable \subseteq durable /\ durable \subseteq Req
      BY <2>2 DEF PInv, IInv, TypeOK, Sound
    <2>4. \A r \in Req : outcome'[r].code \notin Conflicts
      BY <2>2, <2>3 DEF CommittedWasServed, Conflicts, NoOutcome
    <2>5. SInv' /\ CommittedWasServed'
      BY <1>3, <2>2, <2>3, <2>4, ReqAssumption DEF PowerFailure, SInv, ConflictsEnd, CommittedWasServed
    <2>6. Sound(left)'
      BY <2>2, StaysSound
    <2>7. KeptIsSound' /\ Current' \in kept'
      BY <2>2, <2>6 DEF KeptIsSound, Current, Sound
    <2> QED
      BY <2>1, <2>5, <2>7 DEF PInv
  <1> QED
    BY <1>1, <1>2, <1>3 DEF PowerNext

\* The invariants of Warden, and the soundness of all that the disk may bring back,
\* hold through any number of power failures.
THEOREM PowerInvariant == PowerSpec => []PInv
  <1>1. PowerInit => PInv
    <2> SUFFICES ASSUME PowerInit PROVE PInv
      OBVIOUS
    <2>1. IInv /\ EInv /\ kept = {Current}
      BY InitKeeps, InitEffects DEF PowerInit
    <2>2. SInv /\ CommittedWasServed
      BY ReqAssumption DEF PowerInit, Init, SInv, ConflictsEnd, CommittedWasServed, Conflicts, NoOutcome
    <2> QED
      BY <2>1, <2>2, CurrentIsSound DEF PInv, KeptIsSound
  <1>2. IInv' /\ EInv' => Sound(Current)'
    BY CurrentIsSound, PTL
  <1>3. PInv /\ [PowerNext]_powerVars => PInv'
    BY <1>2, PowerStepKeeps
  <1> QED
    BY <1>1, <1>3, PTL DEF PowerSpec

\* No half of a request survives a power failure, and no resolution without
\* the ingestion it resolves (WAL with synchronous=NORMAL loses commits from the end).
THEOREM PowerLeavesNoOrphans == PowerSpec => []NoOrphans
  <1>1. ASSUME PInv PROVE NoOrphans
    <2> SUFFICES ASSUME NEW r \in durable, Resolving(r)
                 PROVE  /\ db[Subject(r)].event = "processed" /\ Subject(r) \in durable
                        /\ db[Subject(r)].approval =
                              IF call[r].kind = "approve" THEN "approved" ELSE "rejected"
      BY DEF NoOrphans
    <2>1. /\ TypeOK /\ RecordsAgree /\ RowsHaveAuthors /\ r \in Req /\ Subject(r) \in Req
      BY <1>1, TypedParts DEF PInv, IInv, EInv, TypeOK
    <2>2. db[Subject(r)].approval = IF call[r].kind = "approve" THEN "approved" ELSE "rejected"
      BY <2>1 DEF RowsHaveAuthors, Effect, Resolving
    <2>3. db[Subject(r)].event = "processed"
      <3>1. db[Subject(r)] # NoRow
        BY <2>2 DEF NoRow
      <3>2. SettledRow(db[Subject(r)])
        BY <2>1, <3>1 DEF RecordsAgree
      <3> QED
        BY <3>2 DEF SettledRow
    <2> QED
      BY <2>1, <2>2, <2>3 DEF RowsHaveAuthors
  <1> QED
    BY <1>1, PowerInvariant, PTL

\* The four tables agree about every event that a power failure leaves.
THEOREM RecordsAgreeAfterPowerFailure == PowerSpec => []RecordsAgree
  <1>1. PInv => RecordsAgree
    BY DEF PInv, IInv
  <1> QED
    BY <1>1, PowerInvariant, PTL

\* What the surviving records say was executed was carried out, even though the
\* records of other calls are lost.
THEOREM RecordsVouchAfterPowerFailure == PowerSpec => []ExecutedMeansPerformed
  <1>1. PInv => IInv /\ EInv
    BY DEF PInv
  <1> QED
    BY <1>1, AuthorsVouch, PowerInvariant, PTL

\* The surviving records never hold two remediations of an incident.
THEOREM RecordedOnceAfterPowerFailure == PowerSpec => []RecordedOnce
  <1>1. PInv => IInv /\ EInv
    BY DEF PInv
  <1> QED
    BY <1>1, AuthorsAreCreditedOnce, PowerInvariant, PTL

\* An incident that is acted on again after a power failure is one whose first action
\* the failure, or another loss, has taken out of the records.
THEOREM OnlyLossesRepeatAfterPowerFailure == PowerSpec => []RepeatsFollowLosses
  <1>1. PInv => IInv /\ EInv
    BY DEF PInv
  <1> QED
    BY <1>1, RepeatsAreOfForgotten, PowerInvariant, PTL
-----------------------------------------------------------------------------
(* What a power failure leaves to stand *)

\* Who is in everything that the disk may remember stays in it, and in the tables.
LEMMA SyncedStep ==
    ASSUME PInv, PInv', [PowerNext]_powerVars, NEW r \in Req, Synced(r)
    PROVE  Synced(r)' /\ Effect(r, db[Subject(r)])'
  <1>1. r \in durable
    <2>1. PICK left \in kept : TRUE
      BY DEF PInv
    <2> QED
      BY <2>1 DEF Synced, PInv, KeptIsSound, Sound
  <1>2. CASE WardenStep \/ UNCHANGED powerVars
    <2>1. [Next]_vars /\ kept' \subseteq kept \cup {Current'}
      BY <1>2 DEF WardenStep, Keep, powerVars
    <2>2. durable \subseteq durable'
      <3>1. CASE \E s \in Req : Arrive(s) \/ Serve(s) \/ Fail(s)
        BY <3>1, OnlyCommits DEF Commit
      <3>2. CASE Crash \/ UNCHANGED vars
        BY <3>2 DEF Crash, vars
      <3> QED
        BY <2>1, <3>1, <3>2 DEF Next, Quiescent
    <2> QED
      BY <1>1, <2>1, <2>2 DEF Synced, Current, PInv, EInv, RowsHaveAuthors
  <1>3. CASE Checkpoint
    BY <1>1, <1>3 DEF Checkpoint, vars, Synced, Current, PInv, EInv, RowsHaveAuthors
  <1>4. CASE PowerFailure
    BY <1>4 DEF PowerFailure, Synced, PInv, EInv, RowsHaveAuthors
  <1> QED
    BY <1>2, <1>3, <1>4 DEF PowerNext

\* What a checkpoint holds is final: no later power failure, crash or request takes an
\* event, an approval or a rejection back whose commit it holds.
THEOREM CheckpointsAreFinal == PowerSpec => SyncedStays
  <1>1. PInv /\ PInv' /\ [PowerNext]_powerVars =>
           [\A r \in Req : Synced(r) => Synced(r)' /\ Effect(r, db[Subject(r)])']_powerVars
    BY SyncedStep
  <1> QED
    BY <1>1, PowerInvariant, PTL DEF PowerSpec, SyncedStays

\* The requests with an affirmative verdict are those whose commit stands.
LEMMA ServedAreDurable ==
    durable \subseteq Req => Forgetful!Served = durable /\ Forgetful!Present = Current
  <1> SUFFICES ASSUME durable \subseteq Req
               PROVE  Forgetful!Served = durable /\ Forgetful!Present = Current
    OBVIOUS
  <1>1. \A r \in Req : Verdicts[r].code = "ok" <=> r \in durable
    BY DEF Verdicts, Conflicts, NoOutcome
  <1>2. Forgetful!Served = durable
    BY <1>1 DEF Forgetful!Served
  <1> QED
    BY <1>2 DEF Forgetful!Present, Current

\* ForgetfulWarden serves requests as SerialWarden does.
LEMMA ForgetfulRules ==
    ASSUME NEW severity, NEW isProd, NEW raw, NEW rows, NEW limit
    PROVE  /\ Forgetful!SafeToAuto(severity, isProd, raw, rows)
                = Serial!SafeToAuto(severity, isProd, raw, rows)
           /\ Forgetful!Limited(rows, limit) = Serial!Limited(rows, limit)
           /\ Forgetful!Fallback = Serial!Fallback
  BY DEF Serial!SafeToAuto, Forgetful!SafeToAuto, Serial!RestrictionsApplied,
         Forgetful!RestrictionsApplied, Serial!Fires, Forgetful!Fires, Serial!Rules,
         Forgetful!Rules, Serial!ConfidenceFloor, Forgetful!ConfidenceFloor,
         Serial!ProdRestrictedActions, Forgetful!ProdRestrictedActions,
         Serial!HighIncidentThreshold, Forgetful!HighIncidentThreshold,
         Serial!Limited, Forgetful!Limited, Serial!Fallback, Forgetful!Fallback

LEMMA ForgetfulReads ==
    ASSUME NEW k, NEW w, NEW e, NEW S
    PROVE  /\ Forgetful!KeyOf(e) = Serial!KeyOf(e)
           /\ Forgetful!Existing(k) = Serial!Existing(k)
           /\ Forgetful!Incidents(w) = Serial!Incidents(w)
           /\ Forgetful!Cardinality(S) = Serial!Cardinality(S)
           /\ Forgetful!Unserved = Serial!Unserved
  <1>1. Forgetful!Cardinality(S) = Serial!Cardinality(S)
    BY Zenon DEF Serial!Cardinality, Forgetful!Cardinality
  <1> QED
    BY <1>1 DEF Serial!KeyOf, Forgetful!KeyOf, Serial!Existing, Forgetful!Existing,
                Serial!Incidents, Forgetful!Incidents, Serial!Unserved, Forgetful!Unserved

LEMMA ForgetfulDecides ==
    ASSUME NEW r, NEW action, NEW auto
    PROVE  Forgetful!Decides(r, action, auto) <=> Serial!Decides(r, action, auto)
  BY ForgetfulRules, ForgetfulReads DEF Serial!Decides, Forgetful!Decides

LEMMA ForgetfulRows ==
    ASSUME NEW r, NEW action, NEW row
    PROVE  /\ Forgetful!Ingested(r, action) = Serial!Ingested(r, action)
           /\ Forgetful!Resolved(r, row) = Serial!Resolved(r, row)
           /\ Forgetful!Actions = Serial!Actions
  BY ForgetfulDecides
     DEF Serial!Ingested, Forgetful!Ingested, Serial!Resolved, Forgetful!Resolved,
         Serial!AutomaticRow, Forgetful!AutomaticRow, Serial!WaitingRow, Forgetful!WaitingRow,
         Serial!ApprovedRow, Forgetful!ApprovedRow, Serial!RejectedRow, Forgetful!RejectedRow,
         Serial!Results, Forgetful!Results, Serial!Actions, Forgetful!Actions

LEMMA ForgetfulServes == Serial!Next => Forgetful!Next
  <1>1. \A r, code, e : Serial!Says(r, code, e) => Forgetful!Says(r, code, e)
    BY ForgetfulReads DEF Serial!Says, Forgetful!Says
  <1>2. ASSUME NEW r \in Req, Serial!Ingest(r) PROVE Forgetful!Ingest(r)
    <2>1. \A action : Forgetful!Ingested(r, action) = Serial!Ingested(r, action)
      BY ForgetfulRows
    <2>2. Forgetful!Existing(Forgetful!KeyOf(r)) = Serial!Existing(Serial!KeyOf(r))
          /\ Forgetful!Actions = Serial!Actions
      BY ForgetfulReads, ForgetfulRows
    <2> QED
      BY <1>1, <1>2, <2>1, <2>2 DEF Serial!Ingest, Forgetful!Ingest
  <1>3. ASSUME NEW r \in Req, Serial!Conflict(r) PROVE Forgetful!Conflict(r)
    BY <1>1, <1>3, ForgetfulReads DEF Serial!Conflict, Forgetful!Conflict
  <1>4. ASSUME NEW r \in Req, Serial!Resolve(r) PROVE Forgetful!Resolve(r)
    <2>1. \A row : Forgetful!Resolved(r, row) = Serial!Resolved(r, row)
      BY ForgetfulRows
    <2> QED
      BY <1>1, <1>4, <2>1 DEF Serial!Resolve, Forgetful!Resolve
  <1>5. ASSUME NEW r \in Req, Serial!AlreadyResolved(r) PROVE Forgetful!AlreadyResolved(r)
    BY <1>1, <1>5 DEF Serial!AlreadyResolved, Forgetful!AlreadyResolved
  <1>6. ASSUME NEW r \in Req, Serial!Read(r) PROVE Forgetful!Read(r)
    BY <1>1, <1>6 DEF Serial!Read, Forgetful!Read
  <1>7. ASSUME NEW r \in Req, Serial!NotFound(r) PROVE Forgetful!NotFound(r)
    BY <1>1, <1>7 DEF Serial!NotFound, Forgetful!NotFound
  <1> QED
    BY <1>2, <1>3, <1>4, <1>5, <1>6, <1>7 DEF Serial!Next, Forgetful!Next

\* A step of Warden serves one request, and the disk may remember it, or shows nothing.
LEMMA WorkIsForgetful ==
    ASSUME PInv, PInv', WardenStep
    PROVE  Forgetful!Serve \/ UNCHANGED <<call, db, Verdicts, kept>>
  <1>1. Forgetful!Present = Current /\ Forgetful!Present' = Current'
    <2>1. (durable \subseteq Req => Forgetful!Present = Current)'
      BY ServedAreDurable, PTL
    <2> QED
      BY <2>1, ServedAreDurable DEF PInv, IInv, TypeOK
  <1>2. Serial!Next \/ UNCHANGED <<call, db, Verdicts>>
    BY StepIsSerial DEF PInv, WardenStep
  <1>3. kept' = kept \cup {Forgetful!Present'}
    BY <1>1 DEF WardenStep, Keep
  <1>4. CASE Serial!Next
    BY <1>3, <1>4, ForgetfulServes DEF Forgetful!Serve
  <1>5. CASE UNCHANGED <<call, db, Verdicts>>
    <2>1. Forgetful!Present' = Forgetful!Present
      BY <1>5 DEF Forgetful!Present, Forgetful!Served
    <2>2. kept' = kept
      BY <1>1, <1>3, <2>1 DEF PInv
    <2> QED
      BY <1>5, <2>2
  <1> QED
    BY <1>2, <1>4, <1>5

\* What a power failure leaves of the verdicts.
LEMMA FailureForgets ==
    ASSUME PInv, PowerFailure
    PROVE  Forgetful!Forget
  <1>1. PICK left \in kept :
          /\ db' = left.rows /\ durable' = left.durable /\ kept' = {left} /\ call' = call
          /\ outcome' = [r \in Req |-> IF r \in left.durable THEN outcome[r] ELSE NoOutcome]
    BY DEF PowerFailure
  <1>2. left.durable \subseteq durable
    BY DEF PInv, KeptIsSound, Sound
  <1>3. \A r \in Req : Verdicts'[r] = IF r \in left.durable THEN Verdicts[r] ELSE NoOutcome
    BY <1>1, <1>2 DEF Verdicts, Subject, Conflicts, NoOutcome
  <1>4. Verdicts' = [r \in Req |-> IF r \in left.durable THEN Verdicts[r] ELSE NoOutcome]
    <2>1. Verdicts' = [r \in Req |-> Verdicts'[r]]
      BY DEF Verdicts
    <2> QED
      BY <1>3, <2>1
  <1>5. Forgetful!Unserved = NoOutcome
    BY DEF Forgetful!Unserved, NoOutcome
  <1> QED
    BY <1>1, <1>4, <1>5 DEF Forgetful!Forget

\* With power failures Warden implements a serial API that forgets: whatever the host
\* loses, it loses whole requests, the last ones first, and goes on from there as an API
\* that had never served them.
THEOREM WardenForgetsWhole == PowerSpec => ImplementsForgetful
  <1>1. PowerInit => Forgetful!ForgetfulInit
    <2> SUFFICES ASSUME PowerInit PROVE Forgetful!ForgetfulInit
      OBVIOUS
    <2>1. Forgetful!Present = Current
      BY ServedAreDurable DEF PowerInit, Init
    <2>2. Forgetful!Unserved = NoOutcome /\ Forgetful!Absent = NoRow
      BY DEF Forgetful!Unserved, NoOutcome, Forgetful!Absent, NoRow
    <2>3. Verdicts = [r \in Req |-> NoOutcome]
      BY DEF PowerInit, Init, Verdicts, Conflicts, NoOutcome
    <2> QED
      BY <2>1, <2>2, <2>3 DEF PowerInit, Init, Forgetful!ForgetfulInit, Forgetful!Init
  <1>2. PInv /\ PInv' /\ [PowerNext]_powerVars =>
           [Forgetful!ForgetfulNext]_<<call, db, Verdicts, kept>>
    <2> SUFFICES ASSUME PInv, PInv', [PowerNext]_powerVars
                 PROVE  Forgetful!ForgetfulNext \/ UNCHANGED <<call, db, Verdicts, kept>>
      OBVIOUS
    <2>1. CASE WardenStep
      BY <2>1, WorkIsForgetful DEF Forgetful!ForgetfulNext
    <2>2. CASE Checkpoint
      <3>1. Forgetful!Present = Current
        BY ServedAreDurable DEF PInv, IInv, TypeOK
      <3>2. call' = call /\ db' = db /\ Verdicts' = Verdicts /\ kept' = {Current}
        BY <2>2 DEF Checkpoint, vars, Verdicts, Subject
      <3> QED
        BY <3>1, <3>2 DEF Forgetful!Sync, Forgetful!ForgetfulNext
    <2>3. CASE PowerFailure
      BY <2>3, FailureForgets DEF Forgetful!ForgetfulNext
    <2>4. CASE UNCHANGED powerVars
      BY <2>4 DEF powerVars, vars, Verdicts, Subject
    <2> QED
      BY <2>1, <2>2, <2>3, <2>4 DEF PowerNext
  <1> QED
    BY <1>1, <1>2, PowerInvariant, PTL DEF PowerSpec, ImplementsForgetful, Forgetful!ForgetfulSpec
=============================================================================

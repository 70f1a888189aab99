------------------------- MODULE WardenStreamProofs -------------------------
(***************************************************************************)
(* A client that reads its stream to the end was told what is stored, for  *)
(* any streams, keys and faults, provided that the session outlives the    *)
(* response (CommitFirst = FALSE), and a webhook whose clients stay acts   *)
(* once.                                                                   *)
(***************************************************************************)
EXTENDS WardenStream, SequenceTheorems, TLAPS

SaidItems == Steps \cup {End}

LEMMA EndIsNoStep == End \notin Steps
  BY DEF End, Steps

LEMMA LastAreSteps == Last \subseteq Steps /\ "approval_created" \in Steps \ Last
  BY DEF Last, Steps

LEMMA ItemsOfConcat ==
    ASSUME NEW S, NEW q \in Seq(S), NEW r \in Seq(S)
    PROVE  Items(q \o r) = Items(q) \cup Items(r)
  <1> DEFINE qr == q \o r
  <1>1. /\ Len(q) \in Nat /\ Len(r) \in Nat
        /\ DOMAIN q = 1..Len(q) /\ DOMAIN r = 1..Len(r)
    BY LenProperties
  <1>2. /\ qr \in Seq(S) /\ Len(qr) = Len(q) + Len(r)
        /\ \A i \in 1..Len(q) + Len(r) : qr[i] = IF i <= Len(q) THEN q[i] ELSE r[i - Len(q)]
    BY ConcatProperties
  <1> HIDE DEF qr
  <1>3. DOMAIN qr = 1..Len(q) + Len(r)
    BY <1>2, LenProperties
  <1>4. ASSUME NEW i \in DOMAIN qr
        PROVE  qr[i] \in Items(q) \cup Items(r)
    <2>1. CASE i <= Len(q)
      <3>1. qr[i] = q[i] /\ i \in DOMAIN q
        BY <1>1, <1>2, <1>3, <1>4, <2>1
      <3> QED
        BY <3>1 DEF Items
    <2>2. CASE i > Len(q)
      <3>1. qr[i] = r[i - Len(q)] /\ i - Len(q) \in DOMAIN r
        BY <1>1, <1>2, <1>3, <1>4, <2>2
      <3> QED
        BY <3>1 DEF Items
    <2> QED
      BY <1>1, <1>3, <1>4, <2>1, <2>2
  <1>5. ASSUME NEW i \in DOMAIN q
        PROVE  q[i] \in Items(qr)
    <2>1. q[i] = qr[i] /\ i \in DOMAIN qr
      BY <1>1, <1>2, <1>3, <1>5
    <2> QED
      BY <2>1 DEF Items
  <1>6. ASSUME NEW i \in DOMAIN r
        PROVE  r[i] \in Items(qr)
    <2>1. r[i] = qr[Len(q) + i] /\ Len(q) + i \in DOMAIN qr
      BY <1>1, <1>2, <1>3, <1>6
    <2> QED
      BY <2>1 DEF Items
  <1> QED
    BY <1>4, <1>5, <1>6 DEF Items, qr

LEMMA ItemsOfTail ==
    ASSUME NEW S, NEW q \in Seq(S), q # <<>>
    PROVE  /\ Items(q) = {Head(q)} \cup Items(Tail(q))
           /\ Tail(q) \in Seq(S) /\ Head(q) \in S /\ Len(q) > 0 /\ Head(q) = q[1]
           /\ Len(Tail(q)) = Len(q) - 1
           /\ \A i \in 1..Len(Tail(q)) : Tail(q)[i] = q[i + 1]
  <1>1. /\ Tail(q) \in Seq(S) /\ Head(q) = q[1] /\ Len(Tail(q)) = Len(q) - 1
        /\ \A i \in 1..Len(Tail(q)) : Tail(q)[i] = q[i + 1]
        /\ Len(q) \in Nat \ {0}
    BY HeadTailProperties, EmptySeq
  <1>2. DOMAIN q = 1..Len(q) /\ DOMAIN Tail(q) = 1..Len(Tail(q))
    BY <1>1, LenProperties
  <1>3. Items(Tail(q)) \subseteq Items(q) /\ Head(q) \in Items(q)
    BY <1>1, <1>2 DEF Items
  <1>4. ASSUME NEW i \in DOMAIN q
        PROVE  q[i] = Head(q) \/ q[i] \in Items(Tail(q))
    <2>1. CASE i = 1
      BY <1>1, <2>1
    <2>2. CASE i # 1
      <3>1. i - 1 \in DOMAIN Tail(q) /\ Tail(q)[i - 1] = q[i]
        BY <1>1, <1>2, <1>4, <2>2
      <3> QED
        BY <3>1 DEF Items
    <2> QED
      BY <2>1, <2>2
  <1> QED
    BY <1>1, <1>2, <1>3, <1>4, ElementOfSeq DEF Items

\* What is put on the queue by one step of the task: the None only at its end.
Puts(steps, next) ==
    /\ steps \in Seq(SaidItems)
    /\ \A i \in DOMAIN steps : steps[i] = End => i = Len(steps) /\ next = "ended"

LEMMA PutNothing ==
    ASSUME NEW next
    PROVE  Puts(<<>>, next) /\ Items(<<>>) = {}
  BY DEF Puts, Items

LEMMA PutOne ==
    ASSUME NEW step \in Steps, NEW next
    PROVE  Puts(<<step>>, next) /\ Items(<<step>>) = {step}
  BY EndIsNoStep DEF Puts, Items, SaidItems

LEMMA PutTwo ==
    ASSUME NEW one \in Steps, NEW two \in Steps, NEW next
    PROVE  Puts(<<one, two>>, next) /\ Items(<<one, two>>) = {one, two}
  BY EndIsNoStep DEF Puts, Items, SaidItems

LEMMA PutLast ==
    ASSUME NEW step \in Steps
    PROVE  Puts(<<step, End>>, "ended") /\ Items(<<step, End>>) = {step, End}
  BY EndIsNoStep DEF Puts, Items, SaidItems
-----------------------------------------------------------------------------
(* A step of the task adds to what its stream says, and to nothing else *)

LEMMA EmitGrows ==
    ASSUME TypeOK, EndIsLast, NEW s \in Streams, NEW steps, NEW next \in Tasks,
           Puts(steps, next), Emit(s, steps, next), UNCHANGED response, task[s] # "ended"
    PROVE  /\ stream' = stream /\ heard' = heard /\ session' = session
           /\ queue' \in [Streams -> Seq(SaidItems)] /\ task' \in [Streams -> Tasks]
           /\ task'[s] = next /\ Said(s)' = Said(s) \cup Items(steps)
           /\ \A t \in Streams \ {s} : task'[t] = task[t] /\ Said(t)' = Said(t)
           /\ EndIsLast'
  <1> DEFINE q == queue[s]
             new == q \o steps
  <1>1. q \in Seq(SaidItems) /\ steps \in Seq(SaidItems) /\ new \in Seq(SaidItems)
    <2>1. q \in Seq(SaidItems) /\ steps \in Seq(SaidItems)
      BY DEF TypeOK, SaidItems, Puts
    <2> QED
      BY <2>1, ConcatProperties
  <1>2. stream' = stream /\ heard' = heard /\ session' = session
    BY DEF response
  <1>3. /\ queue'[s] = new /\ task'[s] = next
        /\ \A t \in Streams \ {s} : queue'[t] = queue[t] /\ task'[t] = task[t]
    BY DEF Emit, TypeOK
  <1>4. queue' \in [Streams -> Seq(SaidItems)] /\ task' \in [Streams -> Tasks]
    <2>1. queue \in [Streams -> Seq(SaidItems)] /\ queue' = [queue EXCEPT ![s] = new]
      BY DEF Emit, TypeOK, SaidItems
    <2>2. task \in [Streams -> Tasks] /\ task' = [task EXCEPT ![s] = next]
      BY DEF Emit, TypeOK
    <2> HIDE DEF new
    <2> QED
      BY <1>1, <2>1, <2>2
  <1>5. Items(new) = Items(q) \cup Items(steps)
    BY <1>1, ItemsOfConcat
  <1>6. Said(s)' = Said(s) \cup Items(steps)
    <2>1. Said(s)' = Items(heard'[s]) \cup Items(queue'[s])
      BY DEF Said, Items
    <2>2. Said(s) = Items(heard[s]) \cup Items(q)
      BY DEF Said
    <2> HIDE DEF q, new
    <2> QED
      BY <1>2, <1>3, <1>5, <2>1, <2>2
  <1>7. \A t \in Streams \ {s} : Said(t)' = Said(t)
    BY <1>2, <1>3 DEF Said, Items
  <1>8. End \notin Items(q) /\ stream[s] # "ended"
    BY DEF EndIsLast
  <1>9. End \in Items(new) => next = "ended"
    BY <1>5, <1>8 DEF Items, Puts
  <1>10. ASSUME NEW i \in DOMAIN new, new[i] = End
         PROVE  i = Len(new)
    <2>1. /\ Len(q) \in Nat /\ Len(steps) \in Nat
          /\ DOMAIN q = 1..Len(q) /\ DOMAIN steps = 1..Len(steps)
      BY <1>1, LenProperties
    <2>2. /\ Len(new) = Len(q) + Len(steps)
          /\ \A j \in 1..Len(q) + Len(steps) :
                new[j] = IF j <= Len(q) THEN q[j] ELSE steps[j - Len(q)]
      BY <1>1, ConcatProperties
    <2>3. DOMAIN new = 1..Len(new)
      BY <1>1, LenProperties
    <2> HIDE DEF new
    <2>4. i \in 1..Len(q) + Len(steps)
      BY <1>10, <2>2, <2>3
    <2>5. CASE i <= Len(q)
      <3>1. q[i] = End /\ i \in DOMAIN q
        BY <1>10, <2>1, <2>2, <2>4, <2>5
      <3> QED
        BY <1>8, <3>1 DEF Items
    <2>6. CASE i > Len(q)
      <3>1. steps[i - Len(q)] = End /\ i - Len(q) \in DOMAIN steps
        BY <1>10, <2>1, <2>2, <2>4, <2>6
      <3>2. i - Len(q) = Len(steps)
        BY <3>1 DEF Puts
      <3> QED
        BY <2>1, <2>2, <2>4, <3>2
    <2> QED
      BY <2>1, <2>4, <2>5, <2>6
  <1>11. EndIsLast'
    <2> SUFFICES ASSUME NEW t \in Streams
                 PROVE  /\ End \in Items(queue'[t]) => task'[t] = "ended"
                        /\ \A i \in DOMAIN queue'[t] : queue'[t][i] = End => i = Len(queue'[t])
                        /\ stream'[t] = "ended" => queue'[t] = <<>> /\ task'[t] = "ended"
      BY DEF EndIsLast, Items
    <2> HIDE DEF q, new
    <2>1. CASE t = s
      BY <2>1, <1>2, <1>3, <1>8, <1>9, <1>10
    <2>2. CASE t # s
      <3>1. queue'[t] = queue[t] /\ task'[t] = task[t] /\ stream'[t] = stream[t]
        BY <2>2, <1>2, <1>3
      <3> QED
        BY <3>1 DEF EndIsLast
    <2> QED
      BY <2>1, <2>2
  <1> QED
    BY <1>2, <1>3, <1>4, <1>6, <1>7, <1>11

\* ProgressIsTrue as a relation between what s has said, its task's phase and the rows.
Consistent(s, said, phase, row, rows) ==
    /\ said \cap Last # {} => phase = "ended"
    /\ phase \in {"page", "pending"} => "approval_created" \in said
    /\ "approval_created" \in said => phase \in {"page", "pending", "failing", "ended"}
    /\ "done" \in said =>
          row = [status |-> "processed",
                 tables |-> {"decision", "history"}
                    \cup IF "approval_created" \in said THEN {"approval"} ELSE {}]
    /\ "duplicate" \in said =>
          \E e \in Streams \ {s} : KeyOf[e] = KeyOf[s] /\ rows[e].status # "absent"
    /\ "error" \in said => row.status \in {"absent", "failed"}

LEMMA ConsistentNow ==
    ASSUME NEW s \in Streams
    PROVE  ProgressIsTrue(s) <=> Consistent(s, Said(s), task[s], view[s], db)
  BY DEF ProgressIsTrue, Consistent

LEMMA ConsistentNext ==
    ASSUME NEW s \in Streams
    PROVE  ProgressIsTrue(s)' <=> Consistent(s, Said(s)', task'[s], view'[s], db')
  BY DEF ProgressIsTrue, Consistent

Uncut(s) == SessionOutlivesTask(s) /\ RowIsKept(s) /\ ProgressIsTrue(s)

\* What holds of a stream whose own parts do not change.
LEMMA OtherKept ==
    ASSUME NEW t \in Streams, Uncut(t),
           stream'[t] = stream[t], session'[t] = session[t], task'[t] = task[t],
           Said(t)' = Said(t), view'[t] = view[t], db'[t] = db[t], conn' = t <=> conn = t,
           \A e \in Streams : db[e].status # "absent" => db'[e].status # "absent"
    PROVE  Uncut(t)'
  <1>1. SessionOutlivesTask(t)'
    BY DEF Uncut, SessionOutlivesTask
  <1>2. RowIsKept(t)'
    BY DEF Uncut, RowIsKept
  <1>3. ProgressIsTrue(t)'
    <2>1. Consistent(t, Said(t), task[t], view[t], db)
      BY ConsistentNow DEF Uncut
    <2> DEFINE said == Said(t)
    <2> HIDE DEF said
    <2>2. Consistent(t, said, task[t], view[t], db) => Consistent(t, said, task[t], view[t], db')
      BY DEF Consistent
    <2>3. Consistent(t, Said(t)', task'[t], view'[t], db')
      BY <2>1, <2>2 DEF said
    <2> QED
      BY <2>3, ConsistentNext
  <1> QED
    BY <1>1, <1>2, <1>3 DEF Uncut

\* A step of the task of s that writes at most the row of s.
LEMMA TaskStep ==
    ASSUME IInv, NEW s \in Streams, NEW steps, NEW next \in Tasks,
           Puts(steps, next), Emit(s, steps, next), UNCHANGED <<response, db>>,
           task[s] # "ended", performed' \subseteq Streams,
           conn' = conn \/ (conn \in {NoStream, s} /\ conn' = s),
           view' \in [Streams -> Rows], \A t \in Streams \ {s} : view'[t] = view[t],
           conn' # s => view'[s] = view[s],
           db[s].status # "absent" => view'[s].status # "absent",
           stream[s] # "cut" => Uncut(s)'
    PROVE  IInv'
  <1>1. /\ TypeOK /\ TransactionIsLocal /\ EndIsLast
        /\ \A t \in Streams : stream[t] # "cut" => Uncut(t)
    BY DEF IInv, Uncut
  <1>2. /\ stream' = stream /\ heard' = heard /\ session' = session
        /\ queue' \in [Streams -> Seq(SaidItems)] /\ task' \in [Streams -> Tasks]
        /\ \A t \in Streams \ {s} : task'[t] = task[t] /\ Said(t)' = Said(t)
        /\ EndIsLast'
    BY <1>1, EmitGrows
  <1>3. TypeOK'
    BY <1>1, <1>2 DEF TypeOK, SaidItems
  <1>4. TransactionIsLocal'
    <2> SUFFICES ASSUME NEW t \in Streams
                 PROVE  /\ conn' # t => view'[t] = db[t]
                        /\ db[t].status # "absent" => view'[t].status # "absent"
      BY DEF TransactionIsLocal
    <2>1. CASE t = s
      BY <2>1, <1>1 DEF TransactionIsLocal
    <2>2. CASE t # s
      BY <2>2, <1>1, StreamAssumption DEF TransactionIsLocal
    <2> QED
      BY <2>1, <2>2
  <1>5. ASSUME NEW t \in Streams, stream'[t] # "cut"
        PROVE  Uncut(t)'
    <2>1. CASE t = s
      BY <1>2, <1>5, <2>1
    <2>2. CASE t # s
      <3>1. conn' = t <=> conn = t
        BY <2>2, StreamAssumption
      <3>2. view'[t] = view[t] /\ task'[t] = task[t] /\ Said(t)' = Said(t) /\ Uncut(t)
        BY <1>1, <1>2, <1>5, <2>2
      <3> QED
        BY <1>2, <3>1, <3>2, OtherKept
    <2> QED
      BY <2>1, <2>2
  <1> QED
    BY <1>2, <1>3, <1>4, <1>5 DEF IInv, Uncut

\* A task that runs and whose client is there has an open session, and has not said the last.
LEMMA RunningTask ==
    ASSUME IInv, NEW s \in Streams, stream[s] # "cut", task[s] \notin {"absent", "ended"}
    PROVE  /\ stream[s] = "sending" /\ session[s] = "open" /\ db[s] = NoRow
           /\ RowIsKept(s) /\ Said(s) \cap Last = {}
           /\ Consistent(s, Said(s), task[s], view[s], db)
           /\ task[s] # "find" <=> conn = s
  <1>1. SessionOutlivesTask(s) /\ RowIsKept(s) /\ ProgressIsTrue(s)
    BY DEF IInv
  <1>2. stream[s] # "ended" /\ stream[s] \in Responses /\ session[s] \in {"open", "closed"}
    BY DEF IInv, EndIsLast, TypeOK
  <1>3. stream[s] = "sending" /\ session[s] = "open" /\ db[s] = NoRow
    BY <1>1, <1>2 DEF SessionOutlivesTask, Responses
  <1>4. Consistent(s, Said(s), task[s], view[s], db)
    BY <1>1, ConsistentNow
  <1>5. Said(s) \cap Last = {}
    BY <1>4 DEF Consistent
  <1> QED
    BY <1>1, <1>3, <1>4, <1>5 DEF SessionOutlivesTask

\* It is enough that its next phase finds the row it needs, and that what it says is true.
LEMMA OwnStep ==
    ASSUME IInv, NEW s \in Streams, stream[s] # "cut", task[s] \notin {"absent", "ended"},
           NEW steps, NEW next \in Tasks \ {"absent", "find"},
           Puts(steps, next), Emit(s, steps, next), UNCHANGED <<response, db>>,
           next # "ended" => conn' = s, RowIsKept(s)',
           Consistent(s, Said(s) \cup Items(steps), next, view'[s], db)
    PROVE  Uncut(s)'
  <1>1. /\ stream' = stream /\ session' = session
        /\ task'[s] = next /\ Said(s)' = Said(s) \cup Items(steps)
    BY EmitGrows DEF IInv
  <1>2. stream[s] = "sending" /\ session[s] = "open" /\ db[s] = NoRow
    BY RunningTask
  <1>3. SessionOutlivesTask(s)'
    BY <1>1, <1>2 DEF SessionOutlivesTask
  <1>4. ProgressIsTrue(s)'
    BY <1>1, ConsistentNext
  <1> QED
    BY <1>3, <1>4 DEF Uncut
-----------------------------------------------------------------------------
(* The steps of the task *)

LEMMA WriteRow ==
    ASSUME TypeOK, NEW s \in Streams, NEW status \in Statuses,
           NEW tables \in SUBSET {"decision", "approval", "history"}, Write(s, status, tables)
    PROVE  /\ view' \in [Streams -> Rows]
           /\ view'[s] = [status |-> status, tables |-> view[s].tables \cup tables]
           /\ \A t \in Streams \ {s} : view'[t] = view[t]
  <1>1. view \in [Streams -> Rows] /\ view[s].tables \subseteq {"decision", "approval", "history"}
    BY DEF TypeOK, Rows
  <1>2. [status |-> status, tables |-> view[s].tables \cup tables] \in Rows
    BY <1>1 DEF Rows
  <1> QED
    BY <1>1, <1>2 DEF Write

\* A row that is not written keeps its type, and its event.
LEMMA QuietRow ==
    ASSUME IInv, NEW s \in Streams, view' = view
    PROVE  /\ view' \in [Streams -> Rows] /\ performed \subseteq Streams
           /\ db[s].status # "absent" => view'[s].status # "absent"
  BY DEF IInv, TypeOK, TransactionIsLocal

LEMMA FindNewKeeps ==
    ASSUME IInv, NEW s \in Streams, Find(s), Existing(KeyOf[s]) = {}
    PROVE  IInv'
  <1>1. /\ Emit(s, <<"event_received">>, "save") /\ UNCHANGED <<response, db, view>>
        /\ task[s] = "find" /\ conn \in {NoStream, s} /\ conn' = s /\ performed' = performed
    BY DEF Find, Statement
  <1>2. Puts(<<"event_received">>, "save") /\ Items(<<"event_received">>) = {"event_received"}
    BY PutOne DEF Steps
  <1>3. "save" \in Tasks \ {"absent", "find"} /\ task[s] \notin {"absent", "ended"}
    BY <1>1 DEF Tasks
  <1>4. ASSUME stream[s] # "cut"
        PROVE  Uncut(s)'
    <2>1. /\ RowIsKept(s) /\ Said(s) \cap Last = {}
          /\ Consistent(s, Said(s), task[s], view[s], db) /\ (task[s] # "find" <=> conn = s)
      BY <1>3, <1>4, RunningTask
    <2>2. conn' = s
      BY <1>1, <2>1
    <2>3. Consistent(s, Said(s) \cup Items(<<"event_received">>), "save", view'[s], db)
      BY <1>1, <1>2, <2>1 DEF Consistent, Last
    <2>4. RowIsKept(s)'
      <3>1. task'[s] = "save" /\ view'[s] = view[s]
        BY <1>1 DEF Emit, IInv, TypeOK
      <3> QED
        BY <1>1, <2>1, <3>1 DEF RowIsKept
    <2> QED
      BY <1>1, <1>2, <1>3, <1>4, <2>2, <2>3, <2>4, OwnStep
  <1> QED
    BY <1>1, <1>2, <1>3, <1>4, QuietRow, TaskStep

LEMMA FindDuplicateKeeps ==
    ASSUME IInv, NEW s \in Streams, Find(s), Existing(KeyOf[s]) # {}
    PROVE  IInv'
  <1>1. /\ Emit(s, <<"duplicate", End>>, "ended") /\ UNCHANGED <<response, db, view>>
        /\ task[s] = "find" /\ conn \in {NoStream, s} /\ conn' = s /\ performed' = performed
    BY DEF Find, Statement, Finish
  <1>2. Puts(<<"duplicate", End>>, "ended") /\ Items(<<"duplicate", End>>) = {"duplicate", End}
    BY PutLast DEF Steps
  <1>3. "ended" \in Tasks \ {"absent", "find"} /\ task[s] \notin {"absent", "ended"}
    BY <1>1 DEF Tasks
  <1>4. ASSUME stream[s] # "cut"
        PROVE  Uncut(s)'
    <2>1. /\ RowIsKept(s) /\ Said(s) \cap Last = {}
          /\ Consistent(s, Said(s), task[s], view[s], db) /\ (task[s] # "find" <=> conn = s)
      BY <1>3, <1>4, RunningTask
    <2>2. PICK e \in Streams : view[e].status # "absent" /\ KeyOf[e] = KeyOf[s]
      BY DEF Existing
    <2>3. e # s
      BY <1>1, <2>1, <2>2 DEF RowIsKept, NoRow
    <2>4. db[e].status # "absent"
      BY <1>1, <2>1, <2>2, StreamAssumption DEF IInv, TransactionIsLocal
    <2>5. Consistent(s, Said(s) \cup Items(<<"duplicate", End>>), "ended", view'[s], db)
      BY <1>2, <2>1, <2>2, <2>3, <2>4, EndIsNoStep, LastAreSteps DEF Consistent, Last
    <2>6. RowIsKept(s)'
      <3>1. task'[s] = "ended"
        BY <1>1 DEF Emit, IInv, TypeOK
      <3> QED
        BY <3>1 DEF RowIsKept
    <2> QED
      BY <1>1, <1>2, <1>3, <1>4, <2>5, <2>6, OwnStep
  <1> QED
    BY <1>1, <1>2, <1>3, <1>4, QuietRow, TaskStep

LEMMA SaveKeeps ==
    ASSUME IInv, NEW s \in Streams, Save(s)
    PROVE  IInv'
  <1>1. /\ Emit(s, <<"reasoning_started">>, "history") /\ UNCHANGED <<response, db>>
        /\ task[s] = "save" /\ conn \in {NoStream, s} /\ conn' = s
        /\ Write(s, "processing", {}) /\ performed' = performed
    BY DEF Save, Statement
  <1>2. Puts(<<"reasoning_started">>, "history") /\ Items(<<"reasoning_started">>) = {"reasoning_started"}
    BY PutOne DEF Steps
  <1>3. "history" \in Tasks \ {"absent", "find"} /\ task[s] \notin {"absent", "ended"}
    BY <1>1 DEF Tasks
  <1>4. /\ view' \in [Streams -> Rows] /\ view'[s].status = "processing"
        /\ view'[s].tables = view[s].tables \cup {}
        /\ view'[s] = [status |-> "processing", tables |-> view[s].tables \cup {}]
        /\ \A t \in Streams \ {s} : view'[t] = view[t]
    <2>1. "processing" \in Statuses /\ {} \in SUBSET {"decision", "approval", "history"}
      BY DEF Statuses
    <2> QED
      BY <1>1, <2>1, WriteRow DEF IInv
  <1>5. ASSUME stream[s] # "cut"
        PROVE  Uncut(s)'
    <2>1. /\ RowIsKept(s) /\ Said(s) \cap Last = {}
          /\ Consistent(s, Said(s), task[s], view[s], db)
      BY <1>3, <1>5, RunningTask
    <2>2. view'[s] = [status |-> "processing", tables |-> {}]
      BY <1>1, <1>4, <2>1 DEF RowIsKept, NoRow
    <2>3. Consistent(s, Said(s) \cup Items(<<"reasoning_started">>), "history", view'[s], db)
      BY <1>1, <1>2, <2>1, <2>2 DEF Consistent, Last
    <2>4. RowIsKept(s)'
      <3>1. task'[s] = "history"
        BY <1>1 DEF Emit, IInv, TypeOK
      <3> QED
        BY <2>2, <3>1 DEF RowIsKept
    <2> QED
      BY <1>1, <1>2, <1>3, <1>5, <2>3, <2>4, OwnStep
  <1>6. performed' \subseteq Streams
    BY <1>1 DEF IInv, TypeOK
  <1> QED
    BY <1>1, <1>2, <1>3, <1>4, <1>5, <1>6, TaskStep

LEMMA SaveCollidesKeeps ==
    ASSUME IInv, NEW s \in Streams, SaveCollides(s)
    PROVE  IInv'
  <1>1. /\ Emit(s, <<"error", End>>, "ended") /\ UNCHANGED <<response, db, view>>
        /\ task[s] = "save" /\ conn \in {NoStream, s} /\ conn' = s /\ performed' = performed
    BY DEF SaveCollides, Statement, Finish
  <1>2. Puts(<<"error", End>>, "ended") /\ Items(<<"error", End>>) = {"error", End}
    BY PutLast DEF Steps
  <1>3. "ended" \in Tasks \ {"absent", "find"} /\ task[s] \notin {"absent", "ended"}
    BY <1>1 DEF Tasks
  <1>4. ASSUME stream[s] # "cut"
        PROVE  Uncut(s)'
    <2>1. /\ RowIsKept(s) /\ Said(s) \cap Last = {}
          /\ Consistent(s, Said(s), task[s], view[s], db) /\ (task[s] # "find" <=> conn = s)
      BY <1>3, <1>4, RunningTask
    <2>2. conn' = s
      BY <1>1, <2>1
    <2>3. Consistent(s, Said(s) \cup Items(<<"error", End>>), "ended", view'[s], db)
      BY <1>1, <1>2, <2>1, EndIsNoStep, LastAreSteps DEF Consistent, Last, RowIsKept, NoRow
    <2>4. RowIsKept(s)'
      <3>1. task'[s] = "ended" /\ view'[s] = view[s]
        BY <1>1 DEF Emit, IInv, TypeOK
      <3> QED
        BY <1>1, <2>1, <3>1 DEF RowIsKept
    <2> QED
      BY <1>1, <1>2, <1>3, <1>4, <2>2, <2>3, <2>4, OwnStep
  <1> QED
    BY <1>1, <1>2, <1>3, <1>4, QuietRow, TaskStep

LEMMA ReadHistoryKeeps ==
    ASSUME IInv, NEW s \in Streams, ReadHistory(s)
    PROVE  IInv'
  <1>1. /\ Emit(s, <<>>, "reason") /\ UNCHANGED <<response, db, view>>
        /\ task[s] = "history" /\ conn \in {NoStream, s} /\ conn' = s /\ performed' = performed
    BY DEF ReadHistory, Statement
  <1>2. Puts(<<>>, "reason") /\ Items(<<>>) = {}
    BY PutNothing DEF Steps
  <1>3. "reason" \in Tasks \ {"absent", "find"} /\ task[s] \notin {"absent", "ended"}
    BY <1>1 DEF Tasks
  <1>4. ASSUME stream[s] # "cut"
        PROVE  Uncut(s)'
    <2>1. /\ RowIsKept(s) /\ Said(s) \cap Last = {}
          /\ Consistent(s, Said(s), task[s], view[s], db) /\ (task[s] # "find" <=> conn = s)
      BY <1>3, <1>4, RunningTask
    <2>2. conn' = s
      BY <1>1, <2>1
    <2>3. Consistent(s, Said(s) \cup Items(<<>>), "reason", view'[s], db)
      BY <1>1, <1>2, <2>1 DEF Consistent, Last
    <2>4. RowIsKept(s)'
      <3>1. task'[s] = "reason" /\ view'[s] = view[s]
        BY <1>1 DEF Emit, IInv, TypeOK
      <3> QED
        BY <1>1, <2>1, <3>1 DEF RowIsKept
    <2> QED
      BY <1>1, <1>2, <1>3, <1>4, <2>2, <2>3, <2>4, OwnStep
  <1> QED
    BY <1>1, <1>2, <1>3, <1>4, QuietRow, TaskStep

LEMMA DecideToActKeeps ==
    ASSUME IInv, NEW s \in Streams, task[s] = "reason", UNCHANGED <<response, conn, view, db, performed>>,
           Emit(s, <<"decision_made", "executing">>, "act")
    PROVE  IInv'
  <1>1. /\ Emit(s, <<"decision_made", "executing">>, "act") /\ UNCHANGED <<response, db, view>>
        /\ task[s] = "reason" /\ conn' = conn /\ performed' = performed
    BY DEF Emit
  <1>2. Puts(<<"decision_made", "executing">>, "act") /\ Items(<<"decision_made", "executing">>) = {"decision_made", "executing"}
    BY PutTwo DEF Steps
  <1>3. "act" \in Tasks \ {"absent", "find"} /\ task[s] \notin {"absent", "ended"}
    BY <1>1 DEF Tasks
  <1>4. ASSUME stream[s] # "cut"
        PROVE  Uncut(s)'
    <2>1. /\ RowIsKept(s) /\ Said(s) \cap Last = {}
          /\ Consistent(s, Said(s), task[s], view[s], db) /\ (task[s] # "find" <=> conn = s)
      BY <1>3, <1>4, RunningTask
    <2>2. conn' = s
      BY <1>1, <2>1
    <2>3. Consistent(s, Said(s) \cup Items(<<"decision_made", "executing">>), "act", view'[s], db)
      BY <1>1, <1>2, <2>1 DEF Consistent, Last
    <2>4. RowIsKept(s)'
      <3>1. task'[s] = "act" /\ view'[s] = view[s]
        BY <1>1 DEF Emit, IInv, TypeOK
      <3> QED
        BY <1>1, <2>1, <3>1 DEF RowIsKept
    <2> QED
      BY <1>1, <1>2, <1>3, <1>4, <2>2, <2>3, <2>4, OwnStep
  <1> QED
    BY <1>1, <1>2, <1>3, <1>4, QuietRow, TaskStep

LEMMA DecideToAskKeeps ==
    ASSUME IInv, NEW s \in Streams, task[s] = "reason", UNCHANGED <<response, conn, view, db, performed>>,
           Emit(s, <<"decision_made", "approval_required">>, "request")
    PROVE  IInv'
  <1>1. /\ Emit(s, <<"decision_made", "approval_required">>, "request") /\ UNCHANGED <<response, db, view>>
        /\ task[s] = "reason" /\ conn' = conn /\ performed' = performed
    BY DEF Emit
  <1>2. Puts(<<"decision_made", "approval_required">>, "request") /\ Items(<<"decision_made", "approval_required">>) = {"decision_made", "approval_required"}
    BY PutTwo DEF Steps
  <1>3. "request" \in Tasks \ {"absent", "find"} /\ task[s] \notin {"absent", "ended"}
    BY <1>1 DEF Tasks
  <1>4. ASSUME stream[s] # "cut"
        PROVE  Uncut(s)'
    <2>1. /\ RowIsKept(s) /\ Said(s) \cap Last = {}
          /\ Consistent(s, Said(s), task[s], view[s], db) /\ (task[s] # "find" <=> conn = s)
      BY <1>3, <1>4, RunningTask
    <2>2. conn' = s
      BY <1>1, <2>1
    <2>3. Consistent(s, Said(s) \cup Items(<<"decision_made", "approval_required">>), "request", view'[s], db)
      BY <1>1, <1>2, <2>1 DEF Consistent, Last
    <2>4. RowIsKept(s)'
      <3>1. task'[s] = "request" /\ view'[s] = view[s]
        BY <1>1 DEF Emit, IInv, TypeOK
      <3> QED
        BY <1>1, <2>1, <3>1 DEF RowIsKept
    <2> QED
      BY <1>1, <1>2, <1>3, <1>4, <2>2, <2>3, <2>4, OwnStep
  <1> QED
    BY <1>1, <1>2, <1>3, <1>4, QuietRow, TaskStep

LEMMA ActKeeps ==
    ASSUME IInv, NEW s \in Streams, Act(s)
    PROVE  IInv'
  <1>1. /\ Emit(s, <<>>, "record") /\ UNCHANGED <<response, db, view>>
        /\ task[s] = "act" /\ conn' = conn /\ performed' \in {performed, performed \cup {s}}
    BY DEF Act
  <1>2. Puts(<<>>, "record") /\ Items(<<>>) = {}
    BY PutNothing DEF Steps
  <1>3. "record" \in Tasks \ {"absent", "find"} /\ task[s] \notin {"absent", "ended"}
    BY <1>1 DEF Tasks
  <1>4. ASSUME stream[s] # "cut"
        PROVE  Uncut(s)'
    <2>1. /\ RowIsKept(s) /\ Said(s) \cap Last = {}
          /\ Consistent(s, Said(s), task[s], view[s], db) /\ (task[s] # "find" <=> conn = s)
      BY <1>3, <1>4, RunningTask
    <2>2. conn' = s
      BY <1>1, <2>1
    <2>3. Consistent(s, Said(s) \cup Items(<<>>), "record", view'[s], db)
      BY <1>1, <1>2, <2>1 DEF Consistent, Last
    <2>4. RowIsKept(s)'
      <3>1. task'[s] = "record" /\ view'[s] = view[s]
        BY <1>1 DEF Emit, IInv, TypeOK
      <3> QED
        BY <1>1, <2>1, <3>1 DEF RowIsKept
    <2> QED
      BY <1>1, <1>2, <1>3, <1>4, <2>2, <2>3, <2>4, OwnStep
  <1> QED
    BY <1>1, <1>2, <1>3, <1>4, QuietRow, TaskStep

LEMMA RecordKeeps ==
    ASSUME IInv, NEW s \in Streams, Record(s)
    PROVE  IInv'
  <1>1. /\ Emit(s, <<"done", End>>, "ended") /\ UNCHANGED <<response, db>>
        /\ task[s] = "record" /\ conn \in {NoStream, s} /\ conn' = s
        /\ Write(s, "processed", {"decision", "history"}) /\ performed' = performed
    BY DEF Record, Statement, Finish
  <1>2. Puts(<<"done", End>>, "ended") /\ Items(<<"done", End>>) = {"done", End}
    BY PutLast DEF Steps
  <1>3. "ended" \in Tasks \ {"absent", "find"} /\ task[s] \notin {"absent", "ended"}
    BY <1>1 DEF Tasks
  <1>4. /\ view' \in [Streams -> Rows] /\ view'[s].status = "processed"
        /\ view'[s].tables = view[s].tables \cup {"decision", "history"}
        /\ view'[s] = [status |-> "processed", tables |-> view[s].tables \cup {"decision", "history"}]
        /\ \A t \in Streams \ {s} : view'[t] = view[t]
    <2>1. "processed" \in Statuses /\ {"decision", "history"} \in SUBSET {"decision", "approval", "history"}
      BY DEF Statuses
    <2> QED
      BY <1>1, <2>1, WriteRow DEF IInv
  <1>5. ASSUME stream[s] # "cut"
        PROVE  Uncut(s)'
    <2>1. /\ RowIsKept(s) /\ Said(s) \cap Last = {}
          /\ Consistent(s, Said(s), task[s], view[s], db)
      BY <1>3, <1>5, RunningTask
    <2>2. view'[s] = [status |-> "processed", tables |-> {"decision", "history"}]
      BY <1>1, <1>4, <2>1 DEF RowIsKept, NoRow
    <2>3. Consistent(s, Said(s) \cup Items(<<"done", End>>), "ended", view'[s], db)
      <3>1. "approval_created" \notin Said(s)
        BY <1>1, <2>1 DEF Consistent
      <3>2. Said(s) \cap Last = {} /\ "approval_created" \notin {"done", End}
        BY <2>1, EndIsNoStep, LastAreSteps DEF Last
      <3> QED
        BY <1>2, <2>2, <3>1, <3>2, EndIsNoStep, LastAreSteps DEF Consistent, Last
    <2>4. RowIsKept(s)'
      <3>1. task'[s] = "ended"
        BY <1>1 DEF Emit, IInv, TypeOK
      <3> QED
        BY <2>2, <3>1 DEF RowIsKept
    <2> QED
      BY <1>1, <1>2, <1>3, <1>5, <2>3, <2>4, OwnStep
  <1>6. performed' \subseteq Streams
    BY <1>1 DEF IInv, TypeOK
  <1> QED
    BY <1>1, <1>2, <1>3, <1>4, <1>5, <1>6, TaskStep

LEMMA RequestKeeps ==
    ASSUME IInv, NEW s \in Streams, Request(s)
    PROVE  IInv'
  <1>1. /\ Emit(s, <<"approval_created">>, "page") /\ UNCHANGED <<response, db>>
        /\ task[s] = "request" /\ conn \in {NoStream, s} /\ conn' = s
        /\ Write(s, "processing", {"decision", "approval"}) /\ performed' = performed
    BY DEF Request, Statement
  <1>2. Puts(<<"approval_created">>, "page") /\ Items(<<"approval_created">>) = {"approval_created"}
    BY PutOne DEF Steps
  <1>3. "page" \in Tasks \ {"absent", "find"} /\ task[s] \notin {"absent", "ended"}
    BY <1>1 DEF Tasks
  <1>4. /\ view' \in [Streams -> Rows] /\ view'[s].status = "processing"
        /\ view'[s].tables = view[s].tables \cup {"decision", "approval"}
        /\ view'[s] = [status |-> "processing", tables |-> view[s].tables \cup {"decision", "approval"}]
        /\ \A t \in Streams \ {s} : view'[t] = view[t]
    <2>1. "processing" \in Statuses /\ {"decision", "approval"} \in SUBSET {"decision", "approval", "history"}
      BY DEF Statuses
    <2> QED
      BY <1>1, <2>1, WriteRow DEF IInv
  <1>5. ASSUME stream[s] # "cut"
        PROVE  Uncut(s)'
    <2>1. /\ RowIsKept(s) /\ Said(s) \cap Last = {}
          /\ Consistent(s, Said(s), task[s], view[s], db)
      BY <1>3, <1>5, RunningTask
    <2>2. view'[s] = [status |-> "processing", tables |-> {"decision", "approval"}]
      BY <1>1, <1>4, <2>1 DEF RowIsKept, NoRow
    <2>3. Consistent(s, Said(s) \cup Items(<<"approval_created">>), "page", view'[s], db)
      BY <1>1, <1>2, <2>1, <2>2 DEF Consistent, Last
    <2>4. RowIsKept(s)'
      <3>1. task'[s] = "page"
        BY <1>1 DEF Emit, IInv, TypeOK
      <3> QED
        BY <2>2, <3>1 DEF RowIsKept
    <2> QED
      BY <1>1, <1>2, <1>3, <1>5, <2>3, <2>4, OwnStep
  <1>6. performed' \subseteq Streams
    BY <1>1 DEF IInv, TypeOK
  <1> QED
    BY <1>1, <1>2, <1>3, <1>4, <1>5, <1>6, TaskStep

LEMMA NotifyOncallKeeps ==
    ASSUME IInv, NEW s \in Streams, NotifyOncall(s)
    PROVE  IInv'
  <1>1. /\ Emit(s, <<"oncall_notified">>, "pending") /\ UNCHANGED <<response, db, view>>
        /\ task[s] = "page" /\ conn' = conn /\ performed' = performed
    BY DEF NotifyOncall
  <1>2. Puts(<<"oncall_notified">>, "pending") /\ Items(<<"oncall_notified">>) = {"oncall_notified"}
    BY PutOne DEF Steps
  <1>3. "pending" \in Tasks \ {"absent", "find"} /\ task[s] \notin {"absent", "ended"}
    BY <1>1 DEF Tasks
  <1>4. ASSUME stream[s] # "cut"
        PROVE  Uncut(s)'
    <2>1. /\ RowIsKept(s) /\ Said(s) \cap Last = {}
          /\ Consistent(s, Said(s), task[s], view[s], db) /\ (task[s] # "find" <=> conn = s)
      BY <1>3, <1>4, RunningTask
    <2>2. conn' = s
      BY <1>1, <2>1
    <2>3. Consistent(s, Said(s) \cup Items(<<"oncall_notified">>), "pending", view'[s], db)
      BY <1>1, <1>2, <2>1 DEF Consistent, Last
    <2>4. RowIsKept(s)'
      <3>1. task'[s] = "pending" /\ view'[s] = view[s]
        BY <1>1 DEF Emit, IInv, TypeOK
      <3> QED
        BY <1>1, <2>1, <3>1 DEF RowIsKept
    <2> QED
      BY <1>1, <1>2, <1>3, <1>4, <2>2, <2>3, <2>4, OwnStep
  <1> QED
    BY <1>1, <1>2, <1>3, <1>4, QuietRow, TaskStep

LEMMA RecordPendingKeeps ==
    ASSUME IInv, NEW s \in Streams, RecordPending(s)
    PROVE  IInv'
  <1>1. /\ Emit(s, <<"done", End>>, "ended") /\ UNCHANGED <<response, db>>
        /\ task[s] = "pending" /\ conn \in {NoStream, s} /\ conn' = s
        /\ Write(s, "processed", {"history"}) /\ performed' = performed
    BY DEF RecordPending, Statement, Finish
  <1>2. Puts(<<"done", End>>, "ended") /\ Items(<<"done", End>>) = {"done", End}
    BY PutLast DEF Steps
  <1>3. "ended" \in Tasks \ {"absent", "find"} /\ task[s] \notin {"absent", "ended"}
    BY <1>1 DEF Tasks
  <1>4. /\ view' \in [Streams -> Rows] /\ view'[s].status = "processed"
        /\ view'[s].tables = view[s].tables \cup {"history"}
        /\ view'[s] = [status |-> "processed", tables |-> view[s].tables \cup {"history"}]
        /\ \A t \in Streams \ {s} : view'[t] = view[t]
    <2>1. "processed" \in Statuses /\ {"history"} \in SUBSET {"decision", "approval", "history"}
      BY DEF Statuses
    <2> QED
      BY <1>1, <2>1, WriteRow DEF IInv
  <1>5. ASSUME stream[s] # "cut"
        PROVE  Uncut(s)'
    <2>1. /\ RowIsKept(s) /\ Said(s) \cap Last = {}
          /\ Consistent(s, Said(s), task[s], view[s], db)
      BY <1>3, <1>5, RunningTask
    <2>2. view'[s] = [status |-> "processed", tables |-> {"decision", "history", "approval"}]
      <3>1. view[s].tables = {"decision", "approval"}
        BY <1>1, <2>1 DEF RowIsKept, NoRow
      <3> QED
        BY <1>4, <3>1
    <2>3. Consistent(s, Said(s) \cup Items(<<"done", End>>), "ended", view'[s], db)
      <3>1. "approval_created" \in Said(s)
        BY <1>1, <2>1 DEF Consistent
      <3>2. Said(s) \cap Last = {} /\ "approval_created" \notin {"done", End}
        BY <2>1, EndIsNoStep, LastAreSteps DEF Last
      <3> QED
        BY <1>2, <2>2, <3>1, <3>2, EndIsNoStep, LastAreSteps DEF Consistent, Last
    <2>4. RowIsKept(s)'
      <3>1. task'[s] = "ended"
        BY <1>1 DEF Emit, IInv, TypeOK
      <3> QED
        BY <2>2, <3>1 DEF RowIsKept
    <2> QED
      BY <1>1, <1>2, <1>3, <1>5, <2>3, <2>4, OwnStep
  <1>6. performed' \subseteq Streams
    BY <1>1 DEF IInv, TypeOK
  <1> QED
    BY <1>1, <1>2, <1>3, <1>4, <1>5, <1>6, TaskStep

LEMMA MarkFailedKeeps ==
    ASSUME IInv, NEW s \in Streams, MarkFailed(s)
    PROVE  IInv'
  <1>1. /\ Emit(s, <<"error", End>>, "ended") /\ UNCHANGED <<response, db>>
        /\ task[s] = "failing" /\ conn \in {NoStream, s} /\ conn' = s
        /\ Write(s, "failed", {}) /\ performed' = performed
    BY DEF MarkFailed, Statement, Finish
  <1>2. Puts(<<"error", End>>, "ended") /\ Items(<<"error", End>>) = {"error", End}
    BY PutLast DEF Steps
  <1>3. "ended" \in Tasks \ {"absent", "find"} /\ task[s] \notin {"absent", "ended"}
    BY <1>1 DEF Tasks
  <1>4. /\ view' \in [Streams -> Rows] /\ view'[s].status = "failed"
        /\ view'[s].tables = view[s].tables \cup {}
        /\ view'[s] = [status |-> "failed", tables |-> view[s].tables \cup {}]
        /\ \A t \in Streams \ {s} : view'[t] = view[t]
    <2>1. "failed" \in Statuses /\ {} \in SUBSET {"decision", "approval", "history"}
      BY DEF Statuses
    <2> QED
      BY <1>1, <2>1, WriteRow DEF IInv
  <1>5. ASSUME stream[s] # "cut"
        PROVE  Uncut(s)'
    <2>1. /\ RowIsKept(s) /\ Said(s) \cap Last = {}
          /\ Consistent(s, Said(s), task[s], view[s], db)
      BY <1>3, <1>5, RunningTask
    <2>2. view'[s].status = "failed"
      BY <1>1, <1>4, <2>1 DEF RowIsKept, NoRow
    <2>3. Consistent(s, Said(s) \cup Items(<<"error", End>>), "ended", view'[s], db)
      BY <1>1, <1>2, <2>1, <2>2, EndIsNoStep, LastAreSteps DEF Consistent, Last
    <2>4. RowIsKept(s)'
      <3>1. task'[s] = "ended"
        BY <1>1 DEF Emit, IInv, TypeOK
      <3> QED
        BY <2>2, <3>1 DEF RowIsKept
    <2> QED
      BY <1>1, <1>2, <1>3, <1>5, <2>3, <2>4, OwnStep
  <1>6. performed' \subseteq Streams
    BY <1>1 DEF IInv, TypeOK
  <1> QED
    BY <1>1, <1>2, <1>3, <1>4, <1>5, <1>6, TaskStep

LEMMA ProcessingRaisesKeeps ==
    ASSUME IInv, NEW s \in Streams, ProcessingRaises(s)
    PROVE  IInv'
  <1>1. /\ Emit(s, <<>>, "failing") /\ UNCHANGED <<response, db, view>>
        /\ task[s] \in {"reason", "page"} /\ conn' = conn /\ performed' = performed
    BY DEF ProcessingRaises
  <1>2. Puts(<<>>, "failing") /\ Items(<<>>) = {}
    BY PutNothing DEF Steps
  <1>3. "failing" \in Tasks \ {"absent", "find"} /\ task[s] \notin {"absent", "ended"}
    BY <1>1 DEF Tasks
  <1>4. ASSUME stream[s] # "cut"
        PROVE  Uncut(s)'
    <2>1. /\ RowIsKept(s) /\ Said(s) \cap Last = {}
          /\ Consistent(s, Said(s), task[s], view[s], db) /\ (task[s] # "find" <=> conn = s)
      BY <1>3, <1>4, RunningTask
    <2>2. conn' = s
      BY <1>1, <2>1
    <2>3. Consistent(s, Said(s) \cup Items(<<>>), "failing", view'[s], db)
      BY <1>1, <1>2, <2>1 DEF Consistent, Last
    <2>4. RowIsKept(s)'
      <3>1. task'[s] = "failing" /\ view'[s] = view[s]
        BY <1>1 DEF Emit, IInv, TypeOK
      <3> QED
        BY <1>1, <2>1, <3>1 DEF RowIsKept
    <2> QED
      BY <1>1, <1>2, <1>3, <1>4, <2>2, <2>3, <2>4, OwnStep
  <1> QED
    BY <1>1, <1>2, <1>3, <1>4, QuietRow, TaskStep

\* While its client is there a task has the connection from its first statement on.
LEMMA PoolTimeoutKeeps ==
    ASSUME IInv, NEW s \in Streams, PoolTimeout(s)
    PROVE  IInv'
  <1>1. /\ task[s] \in Querying /\ conn \notin {NoStream, s}
        /\ UNCHANGED <<response, conn, view, db, performed>>
    BY DEF PoolTimeout
  <1>2. task[s] \notin {"absent", "ended"}
    BY <1>1 DEF Querying, Writing
  <1>3. ASSUME stream[s] # "cut"
        PROVE  task[s] = "find" /\ RowIsKept(s) /\ Said(s) \cap Last = {}
               /\ Consistent(s, Said(s), task[s], view[s], db)
    BY <1>1, <1>2, <1>3, RunningTask
  <1>4. CASE task[s] \in {"find", "save", "failing"}
    <2>1. Emit(s, <<"error", End>>, "ended")
      BY <1>4 DEF PoolTimeout, Finish
    <2>2. Puts(<<"error", End>>, "ended") /\ Items(<<"error", End>>) = {"error", End}
      BY PutLast DEF Steps
    <2>3. "ended" \in Tasks \ {"absent", "find"}
      BY DEF Tasks
    <2>4. ASSUME stream[s] # "cut"
          PROVE  Uncut(s)'
      <3>1. Consistent(s, Said(s) \cup Items(<<"error", End>>), "ended", view'[s], db)
        BY <1>1, <1>3, <2>2, <2>4, EndIsNoStep, LastAreSteps DEF Consistent, Last, RowIsKept, NoRow
      <3>2. RowIsKept(s)'
        <4>1. task'[s] = "ended"
          BY <2>1 DEF Emit, IInv, TypeOK
        <4> QED
          BY <4>1 DEF RowIsKept
      <3> QED
        BY <1>1, <1>2, <2>1, <2>2, <2>3, <2>4, <3>1, <3>2, OwnStep
    <2> QED
      BY <1>1, <1>2, <2>1, <2>2, <2>3, <2>4, QuietRow, TaskStep
  <1>5. CASE task[s] \notin {"find", "save", "failing"}
    <2>1. Emit(s, <<>>, "failing") /\ stream[s] = "cut"
      BY <1>3, <1>5 DEF PoolTimeout
    <2>2. Puts(<<>>, "failing") /\ "failing" \in Tasks
      BY PutNothing DEF Tasks
    <2> QED
      BY <1>1, <1>2, <2>1, <2>2, QuietRow, TaskStep
  <1> QED
    BY <1>4, <1>5

LEMMA StoreFailsKeeps ==
    ASSUME IInv, NEW s \in Streams, StoreFails(s)
    PROVE  IInv'
  <1>1. /\ task[s] \in Writing /\ conn = s /\ view' = db
        /\ Emit(s, <<"error", End>>, "ended") /\ UNCHANGED <<response, conn, db, performed>>
    BY DEF StoreFails, Finish
  <1>2. task[s] \notin {"absent", "ended"} /\ "ended" \in Tasks \ {"absent", "find"}
    BY <1>1 DEF Writing, Tasks
  <1>3. Puts(<<"error", End>>, "ended") /\ Items(<<"error", End>>) = {"error", End}
    BY PutLast DEF Steps
  <1>4. /\ view' \in [Streams -> Rows] /\ \A t \in Streams \ {s} : view'[t] = view[t]
        /\ performed' \subseteq Streams /\ (db[s].status # "absent" => view'[s].status # "absent")
    BY <1>1 DEF IInv, TypeOK, TransactionIsLocal
  <1>5. ASSUME stream[s] # "cut"
        PROVE  Uncut(s)'
    <2>1. db[s] = NoRow /\ Said(s) \cap Last = {} /\ Consistent(s, Said(s), task[s], view[s], db)
      BY <1>2, <1>5, RunningTask
    <2>2. Consistent(s, Said(s) \cup Items(<<"error", End>>), "ended", view'[s], db)
      BY <1>1, <1>3, <2>1, EndIsNoStep, LastAreSteps DEF Consistent, Last, NoRow
    <2>3. RowIsKept(s)'
      <3>1. task'[s] = "ended"
        BY <1>1 DEF Emit, IInv, TypeOK
      <3> QED
        BY <3>1 DEF RowIsKept
    <2> QED
      BY <1>1, <1>2, <1>3, <1>5, <2>2, <2>3, OwnStep
  <1> QED
    BY <1>1, <1>2, <1>3, <1>4, <1>5, TaskStep

LEMMA RunKeeps ==
    ASSUME IInv, NEW s \in Streams, Run(s)
    PROVE  IInv'
  <1>1. CASE Find(s)
    BY <1>1, FindNewKeeps, FindDuplicateKeeps
  <1>2. CASE Decide(s)
    <2>1. task[s] = "reason" /\ UNCHANGED <<response, conn, view, db, performed>>
      BY <1>2 DEF Decide
    <2>2. CASE Emit(s, <<"decision_made", "executing">>, "act")
      BY <2>1, <2>2, DecideToActKeeps
    <2>3. CASE Emit(s, <<"decision_made", "approval_required">>, "request")
      BY <2>1, <2>3, DecideToAskKeeps
    <2> QED
      BY <1>2, <2>2, <2>3 DEF Decide
  <1> QED
    BY <1>1, <1>2, SaveKeeps, SaveCollidesKeeps, ReadHistoryKeeps, ActKeeps, RecordKeeps,
       RequestKeeps, NotifyOncallKeeps, RecordPendingKeeps, MarkFailedKeeps DEF Run
-----------------------------------------------------------------------------
(* The steps of the response and of get_session *)

\* A step of one response: what the others have is the same, and the rows too.
LEMMA ResponseStep ==
    ASSUME IInv, TypeOK', EndIsLast', NEW s \in Streams, UNCHANGED <<conn, view, db>>,
           \A t \in Streams \ {s} : /\ stream'[t] = stream[t] /\ session'[t] = session[t]
                                    /\ task'[t] = task[t] /\ queue'[t] = queue[t]
                                    /\ heard'[t] = heard[t],
           stream'[s] # "cut" => Uncut(s)'
    PROVE  IInv'
  <1>1. TransactionIsLocal'
    BY DEF IInv, TransactionIsLocal
  <1>2. ASSUME NEW t \in Streams, stream'[t] # "cut"
        PROVE  Uncut(t)'
    <2>1. CASE t = s
      BY <1>2, <2>1
    <2>2. CASE t # s
      <3>1. Said(t)' = Said(t) /\ Uncut(t)
        BY <1>2, <2>2 DEF Said, Items, IInv, Uncut
      <3> QED
        BY <2>2, <3>1, OtherKept
    <2> QED
      BY <2>1, <2>2
  <1> QED
    BY <1>1, <1>2 DEF IInv, Uncut

LEMMA EnterKeeps ==
    ASSUME IInv, NEW s \in Streams, Enter(s)
    PROVE  IInv'
  <1>1. TypeOK'
    BY DEF IInv, TypeOK, Enter, Responses
  <1>2. EndIsLast'
    BY DEF IInv, TypeOK, EndIsLast, Enter, Items
  <1>3. stream[s] = "new" /\ stream'[s] = "entered" /\ Said(s)' = Said(s)
    BY DEF Enter, IInv, TypeOK, Said, Items
  <1>4. SessionOutlivesTask(s) /\ RowIsKept(s) /\ Consistent(s, Said(s), task[s], view[s], db)
    BY <1>3, ConsistentNow DEF IInv
  <1>5. Uncut(s)'
    <2>1. SessionOutlivesTask(s)'
      BY <1>3, <1>4 DEF SessionOutlivesTask, Enter
    <2>2. RowIsKept(s)'
      BY <1>4 DEF RowIsKept, Enter
    <2>3. ProgressIsTrue(s)'
      <3>1. task' = task /\ view' = view /\ db' = db
        BY DEF Enter
      <3>2. Consistent(s, Said(s)', task'[s], view'[s], db')
        BY <1>3, <1>4, <3>1
      <3> QED
        BY <3>2, ConsistentNext
    <2> QED
      BY <2>1, <2>2, <2>3 DEF Uncut
  <1> QED
    BY <1>1, <1>2, <1>5, ResponseStep DEF Enter, IInv, TypeOK

LEMMA StartSendingKeeps ==
    ASSUME IInv, NEW s \in Streams, StartSending(s)
    PROVE  IInv'
  <1>1. /\ stream[s] = "entered" /\ stream'[s] = "sending" /\ task'[s] = "find"
        /\ UNCHANGED <<session, queue, heard, conn, view, db, performed>>
        /\ \A t \in Streams \ {s} : stream'[t] = stream[t] /\ task'[t] = task[t]
    BY DEF StartSending, IInv, TypeOK
  <1>2. SessionOutlivesTask(s) /\ RowIsKept(s) /\ Consistent(s, Said(s), task[s], view[s], db)
    BY <1>1, ConsistentNow DEF IInv
  <1>3. task[s] = "absent"
    BY <1>1, <1>2 DEF SessionOutlivesTask
  <1>4. TypeOK'
    BY DEF IInv, TypeOK, StartSending, Responses, Tasks
  <1>5. EndIsLast'
    <2> SUFFICES ASSUME NEW t \in Streams
                 PROVE  /\ End \in Items(queue[t]) => task'[t] = "ended"
                        /\ \A i \in DOMAIN queue[t] : queue[t][i] = End => i = Len(queue[t])
                        /\ stream'[t] = "ended" => queue[t] = <<>> /\ task'[t] = "ended"
      BY <1>1 DEF EndIsLast, Items
    <2> QED
      BY <1>1, <1>3 DEF IInv, EndIsLast
  <1>6. Uncut(s)'
    <2>1. SessionOutlivesTask(s)'
      BY <1>1, <1>2, <1>3 DEF SessionOutlivesTask
    <2>2. RowIsKept(s)'
      BY <1>1, <1>2, <1>3 DEF RowIsKept
    <2>3. ProgressIsTrue(s)'
      <3>1. Said(s)' = Said(s)
        BY <1>1 DEF Said, Items
      <3>2. Consistent(s, Said(s), "find", view[s], db)
        BY <1>2, <1>3 DEF Consistent
      <3>3. Consistent(s, Said(s)', task'[s], view'[s], db')
        BY <1>1, <3>1, <3>2
      <3> QED
        BY <3>3, ConsistentNext
    <2> QED
      BY <2>1, <2>2, <2>3 DEF Uncut
  <1> QED
    BY <1>1, <1>4, <1>5, <1>6, ResponseStep

LEMMA DisconnectKeeps ==
    ASSUME IInv, NEW s \in Streams, Disconnect(s)
    PROVE  IInv'
  <1>1. /\ stream'[s] = "cut" /\ \A t \in Streams \ {s} : stream'[t] = stream[t]
        /\ UNCHANGED <<session, task, queue, heard, conn, view, db, performed>>
    BY DEF Disconnect, IInv, TypeOK
  <1>2. TypeOK'
    BY DEF IInv, TypeOK, Disconnect, Responses
  <1>3. EndIsLast'
    BY <1>1 DEF IInv, EndIsLast, Items
  <1> QED
    BY <1>1, <1>2, <1>3, ResponseStep

LEMMA ItemsOfAppend ==
    ASSUME NEW S, NEW q \in Seq(S), NEW e \in S
    PROVE  Append(q, e) \in Seq(S) /\ Items(Append(q, e)) = Items(q) \cup {e}
  <1> DEFINE qe == Append(q, e)
  <1>1. /\ Len(q) \in Nat /\ DOMAIN q = 1..Len(q) /\ qe \in Seq(S)
        /\ Len(qe) = Len(q) + 1 /\ qe[Len(q) + 1] = e
        /\ \A i \in 1..Len(q) : qe[i] = q[i]
    BY LenProperties, AppendProperties
  <1> HIDE DEF qe
  <1>2. DOMAIN qe = 1..Len(q) + 1
    BY <1>1, LenProperties
  <1>3. \A i \in 1..Len(q) + 1 : i \in 1..Len(q) \/ i = Len(q) + 1
    BY <1>1
  <1>4. \A i \in 1..Len(q) : i \in 1..Len(q) + 1
    BY <1>1
  <1>5. Len(q) + 1 \in 1..Len(q) + 1
    BY <1>1
  <1>6. Items(qe) = Items(q) \cup {e}
    BY <1>1, <1>2, <1>3, <1>4, <1>5 DEF Items
  <1> QED
    BY <1>1, <1>6 DEF qe

\* The None itself tells nothing.
LEMMA EndTellsNothing ==
    ASSUME NEW s, NEW said, NEW phase, NEW row, NEW rows,
           Consistent(s, said \cup {End}, phase, row, rows)
    PROVE  Consistent(s, said, phase, row, rows)
  <1>1. \A step \in Steps : step \in said \cup {End} <=> step \in said
    BY EndIsNoStep
  <1>2. {"done", "duplicate", "error", "approval_created"} \subseteq Steps
    BY DEF Steps
  <1> QED
    BY <1>1, <1>2, LastAreSteps DEF Consistent

\* Delivery moves an item from the queue to the client; with the None nothing is left.
LEMMA DeliverKeeps ==
    ASSUME IInv, NEW s \in Streams, Deliver(s)
    PROVE  IInv'
  <1> DEFINE q == queue[s]
             h == heard[s]
  <1>1. /\ stream[s] = "sending" /\ q # <<>> /\ queue' = [queue EXCEPT ![s] = Tail(q)]
        /\ UNCHANGED <<session, task, conn, view, db, performed>>
    BY DEF Deliver, IInv, TypeOK
  <1>2. q \in Seq(SaidItems) /\ h \in Seq(Steps)
    BY DEF IInv, TypeOK, SaidItems
  <1>3. /\ Items(q) = {Head(q)} \cup Items(Tail(q))
        /\ Tail(q) \in Seq(SaidItems) /\ Head(q) \in SaidItems /\ Len(q) > 0 /\ Head(q) = q[1]
        /\ Len(Tail(q)) = Len(q) - 1
        /\ \A i \in 1..Len(Tail(q)) : Tail(q)[i] = q[i + 1]
    BY <1>1, <1>2, ItemsOfTail
  <1>4. /\ Len(q) \in Nat /\ DOMAIN q = 1..Len(q) /\ Len(Tail(q)) \in Nat
        /\ DOMAIN Tail(q) = 1..Len(Tail(q))
    BY <1>2, <1>3, LenProperties
  <1>5. /\ End \in Items(q) => task[s] = "ended"
        /\ \A i \in DOMAIN q : q[i] = End => i = Len(q)
    BY DEF IInv, EndIsLast
  <1>6. queue'[s] = Tail(q) /\ \A t \in Streams \ {s} : queue'[t] = queue[t]
    BY <1>1 DEF IInv, TypeOK
  <1>7. queue' \in [Streams -> Seq(SaidItems)]
    BY <1>1, <1>3 DEF IInv, TypeOK, SaidItems
  <1>8. CASE Head(q) = End
    <2>1. stream' = [stream EXCEPT ![s] = "ended"] /\ heard' = heard
      BY <1>8 DEF Deliver
    <2>2. stream'[s] = "ended" /\ \A t \in Streams \ {s} : stream'[t] = stream[t]
      BY <2>1 DEF IInv, TypeOK
    <2>3. Tail(q) = <<>> /\ task[s] = "ended"
      <3>1. 1 \in DOMAIN q /\ q[1] = End
        BY <1>3, <1>4, <1>8
      <3>2. Len(q) = 1 /\ End \in Items(q)
        BY <1>5, <3>1 DEF Items
      <3> QED
        BY <1>3, <1>5, <3>2, EmptySeq
    <2>4. TypeOK'
      BY <1>1, <1>7, <2>1 DEF IInv, TypeOK, Responses, SaidItems
    <2>5. EndIsLast'
      <3> SUFFICES ASSUME NEW t \in Streams
                   PROVE  /\ End \in Items(queue'[t]) => task[t] = "ended"
                          /\ \A i \in DOMAIN queue'[t] : queue'[t][i] = End => i = Len(queue'[t])
                          /\ stream'[t] = "ended" => queue'[t] = <<>> /\ task[t] = "ended"
        BY <1>1 DEF EndIsLast, Items
      <3>1. CASE t = s
        <4>1. Items(<<>>) = {} /\ DOMAIN <<>> = {}
          BY PutNothing, EmptySeq
        <4>2. queue'[t] = <<>>
          BY <1>6, <2>3, <3>1
        <4> QED
          BY <2>3, <3>1, <4>1, <4>2
      <3>2. CASE t # s
        <4>1. queue'[t] = queue[t] /\ stream'[t] = stream[t]
          BY <1>6, <2>2, <3>2
        <4> QED
          BY <4>1 DEF IInv, EndIsLast
      <3> QED
        BY <3>1, <3>2
    <2>6. Said(s) = Said(s)' \cup {End}
      <3>1. Said(s)' = Items(h) \cup Items(Tail(q))
        BY <1>6, <2>1 DEF Said, Items
      <3> QED
        BY <1>3, <1>8, <3>1 DEF Said
    <2>7. Uncut(s)'
      <3>1. SessionOutlivesTask(s) /\ RowIsKept(s) /\ Consistent(s, Said(s), task[s], view[s], db)
        BY <1>1, ConsistentNow DEF IInv
      <3>2. SessionOutlivesTask(s)'
        BY <1>1, <2>2, <2>3, <3>1 DEF SessionOutlivesTask
      <3>3. RowIsKept(s)'
        BY <1>1, <3>1 DEF RowIsKept
      <3>4. Consistent(s, Said(s)', task'[s], view'[s], db')
        BY <1>1, <2>6, <3>1, EndTellsNothing
      <3>5. ProgressIsTrue(s)'
        BY <3>4, ConsistentNext
      <3> QED
        BY <3>2, <3>3, <3>5 DEF Uncut
    <2> QED
      BY <1>1, <1>6, <2>1, <2>2, <2>4, <2>5, <2>7, ResponseStep
  <1>9. CASE Head(q) # End
    <2>1. stream' = stream /\ heard' = [heard EXCEPT ![s] = Append(h, Head(q))]
      BY <1>9 DEF Deliver, IInv, TypeOK
    <2>2. /\ Append(h, Head(q)) \in Seq(Steps)
          /\ Items(Append(h, Head(q))) = Items(h) \cup {Head(q)}
      <3>1. Head(q) \in Steps
        BY <1>3, <1>9 DEF SaidItems
      <3> QED
        BY <1>2, <3>1, ItemsOfAppend
    <2>3. /\ heard'[s] = Append(h, Head(q)) /\ \A t \in Streams \ {s} : heard'[t] = heard[t]
          /\ heard' \in [Streams -> Seq(Steps)]
      BY <2>1, <2>2 DEF IInv, TypeOK
    <2>4. TypeOK'
      BY <1>1, <1>7, <2>1, <2>3 DEF IInv, TypeOK, SaidItems
    <2>5. EndIsLast'
      <3> SUFFICES ASSUME NEW t \in Streams
                   PROVE  /\ End \in Items(queue'[t]) => task[t] = "ended"
                          /\ \A i \in DOMAIN queue'[t] : queue'[t][i] = End => i = Len(queue'[t])
                          /\ stream[t] = "ended" => queue'[t] = <<>> /\ task[t] = "ended"
        BY <1>1, <2>1 DEF EndIsLast, Items
      <3>1. CASE t = s
        <4>1. \A i \in DOMAIN Tail(q) : Tail(q)[i] = End => i = Len(Tail(q))
          <5> SUFFICES ASSUME NEW i \in DOMAIN Tail(q), Tail(q)[i] = End
                       PROVE  i = Len(Tail(q))
            OBVIOUS
          <5>1. i \in 1..Len(Tail(q)) /\ i + 1 \in DOMAIN q /\ q[i + 1] = End
            BY <1>3, <1>4
          <5>2. i + 1 = Len(q)
            BY <1>5, <5>1
          <5> QED
            BY <1>3, <1>4, <5>1, <5>2
        <4>2. End \in Items(Tail(q)) => task[s] = "ended"
          BY <1>3, <1>5
        <4> QED
          BY <1>1, <1>6, <3>1, <4>1, <4>2
      <3>2. CASE t # s
        <4>1. queue'[t] = queue[t]
          BY <1>6, <3>2
        <4> QED
          BY <4>1 DEF IInv, EndIsLast
      <3> QED
        BY <3>1, <3>2
    <2>6. Said(s)' = Said(s)
      <3>1. Said(s)' = Items(Append(h, Head(q))) \cup Items(Tail(q))
        BY <1>6, <2>3 DEF Said, Items
      <3>2. Said(s) = Items(h) \cup Items(q)
        BY DEF Said
      <3> HIDE DEF q, h
      <3> QED
        BY <1>3, <2>2, <3>1, <3>2
    <2>7. Uncut(s)'
      <3>1. Uncut(s)
        BY <1>1 DEF IInv, Uncut
      <3> QED
        BY <1>1, <2>1, <2>6, <3>1, OtherKept
    <2> QED
      BY <1>1, <1>6, <2>1, <2>3, <2>4, <2>5, <2>7, ResponseStep
  <1> QED
    BY <1>8, <1>9

\* The row of a stream whose session is left has been told whole: it is committed as it is.
LEMMA LeaveSessionKeeps ==
    ASSUME CommitFirst = FALSE, IInv, NEW s \in Streams, LeaveSession(s)
    PROVE  IInv'
  <1>1. /\ stream[s] \in {"ended", "cut"}
        /\ session' = [session EXCEPT ![s] = "closed"]
        /\ UNCHANGED <<stream, task, queue, heard, view, performed>>
        /\ \/ conn = s /\ conn' = NoStream /\ db' = view
           \/ conn # s /\ conn' = conn /\ db' = db
    BY DEF LeaveSession, Leaving
  <1>2. /\ TypeOK /\ TransactionIsLocal /\ EndIsLast
        /\ \A t \in Streams : stream[t] # "cut" => Uncut(t)
    BY DEF IInv, Uncut
  <1>3. session'[s] = "closed" /\ \A t \in Streams \ {s} : session'[t] = session[t]
    BY <1>1, <1>2 DEF TypeOK
  <1>4. TypeOK'
    BY <1>1, <1>2 DEF TypeOK
  <1>5. TransactionIsLocal'
    BY <1>1, <1>2, StreamAssumption DEF TransactionIsLocal
  <1>6. EndIsLast'
    BY <1>1, <1>2 DEF EndIsLast, Items
  <1>7. \A e \in Streams : db[e].status # "absent" => db'[e].status # "absent"
    BY <1>1, <1>2 DEF TransactionIsLocal
  <1>8. ASSUME NEW t \in Streams, stream'[t] # "cut"
        PROVE  Uncut(t)'
    <2>1. Uncut(t) /\ Said(t)' = Said(t)
      BY <1>1, <1>2, <1>8 DEF Said, Items
    <2>2. CASE t = s
      <3>1. SessionOutlivesTask(s) /\ RowIsKept(s) /\ Consistent(s, Said(s), task[s], view[s], db)
        BY <2>1, <2>2, ConsistentNow DEF Uncut
      <3>2. stream[s] = "ended" /\ conn' # s
        BY <1>1, <1>8, <2>2, StreamAssumption
      <3>3. SessionOutlivesTask(s)'
        <4>1. task[s] = "ended"
          BY <1>2, <3>2 DEF EndIsLast
        <4> QED
          BY <1>1, <1>3, <3>1, <3>2, <4>1 DEF SessionOutlivesTask
      <3>4. RowIsKept(s)'
        BY <1>1, <3>1 DEF RowIsKept
      <3>5. Consistent(s, Said(s), task[s], view[s], db')
        BY <1>7, <3>1 DEF Consistent
      <3>6. ProgressIsTrue(s)'
        <4>1. Consistent(s, Said(s)', task'[s], view'[s], db')
          BY <1>1, <2>1, <2>2, <3>5
        <4> QED
          BY <4>1, ConsistentNext
      <3> QED
        BY <2>2, <3>3, <3>4, <3>6 DEF Uncut
    <2>3. CASE t # s
      <3>1. db'[t] = db[t]
        BY <1>1, <1>2, <2>3 DEF TransactionIsLocal
      <3>2. conn' = t <=> conn = t
        BY <1>1, <2>3, StreamAssumption
      <3>3. stream'[t] = stream[t] /\ session'[t] = session[t] /\ task'[t] = task[t] /\ view'[t] = view[t]
        BY <1>1, <1>3, <2>3
      <3> QED
        BY <1>7, <2>1, <3>1, <3>2, <3>3, OtherKept
    <2> QED
      BY <2>2, <2>3
  <1> QED
    BY <1>4, <1>5, <1>6, <1>8 DEF IInv, Uncut

\* Only the session of a client that went away is collected with a transaction.
LEMMA CollectKeeps ==
    ASSUME IInv, NEW s \in Streams, Collect(s)
    PROVE  IInv'
  <1>1. /\ session[s] = "closed" /\ conn = s /\ conn' = NoStream /\ view' = db
        /\ UNCHANGED <<stream, session, task, queue, heard, db, performed>>
    BY DEF Collect
  <1>2. /\ TypeOK /\ TransactionIsLocal /\ EndIsLast
        /\ \A t \in Streams : stream[t] # "cut" => Uncut(t)
    BY DEF IInv, Uncut
  <1>3. TypeOK'
    BY <1>1, <1>2 DEF TypeOK
  <1>4. TransactionIsLocal'
    BY <1>1 DEF TransactionIsLocal
  <1>5. EndIsLast'
    BY <1>1, <1>2 DEF EndIsLast, Items
  <1>6. ASSUME NEW t \in Streams, stream'[t] # "cut"
        PROVE  Uncut(t)'
    <2>1. Uncut(t) /\ Said(t)' = Said(t)
      BY <1>1, <1>2, <1>6 DEF Said, Items
    <2>2. t # s
      BY <1>1, <2>1 DEF Uncut, SessionOutlivesTask
    <2>3. view'[t] = view[t] /\ (conn' = t <=> conn = t)
      BY <1>1, <1>2, <2>2, StreamAssumption DEF TransactionIsLocal
    <2> QED
      BY <1>1, <2>1, <2>3, OtherKept
  <1> QED
    BY <1>3, <1>4, <1>5, <1>6 DEF IInv, Uncut
-----------------------------------------------------------------------------
(* The theorems *)

LEMMA InitKeeps == Init => IInv
  <1> SUFFICES ASSUME Init PROVE IInv
    OBVIOUS
  <1>1. TypeOK
    <2>1. <<>> \in Seq(Steps \cup {End}) /\ <<>> \in Seq(Steps)
      BY EmptySeq
    <2>2. NoRow \in Rows
      BY DEF NoRow, Rows, Statuses
    <2> QED
      BY <2>1, <2>2 DEF Init, TypeOK, Responses, Tasks
  <1>2. TransactionIsLocal
    BY DEF Init, TransactionIsLocal, NoRow
  <1>3. EndIsLast
    BY DEF Init, EndIsLast, Items
  <1>4. ASSUME NEW s \in Streams
        PROVE  SessionOutlivesTask(s) /\ RowIsKept(s) /\ ProgressIsTrue(s)
    <2>1. Said(s) = {}
      BY DEF Init, Said, Items
    <2>2. conn # s
      BY StreamAssumption DEF Init
    <2> QED
      BY <2>1, <2>2 DEF Init, SessionOutlivesTask, RowIsKept, ProgressIsTrue
  <1> QED
    BY <1>1, <1>2, <1>3, <1>4 DEF IInv

LEMMA StutterKeeps == IInv /\ UNCHANGED vars => IInv'
  <1> SUFFICES ASSUME IInv, UNCHANGED vars PROVE IInv'
    OBVIOUS
  <1>1. /\ TypeOK' /\ TransactionIsLocal' /\ EndIsLast'
    BY DEF IInv, vars, TypeOK, TransactionIsLocal, EndIsLast, Items
  <1>2. ASSUME NEW t \in Streams, stream'[t] # "cut"
        PROVE  Uncut(t)'
    <2>1. Uncut(t) /\ Said(t)' = Said(t)
      BY <1>2 DEF IInv, vars, Uncut, Said, Items
    <2> QED
      BY <2>1, OtherKept DEF vars
  <1> QED
    BY <1>1, <1>2 DEF IInv, Uncut

LEMMA StepKeeps == CommitFirst = FALSE /\ IInv /\ [Next]_vars => IInv'
  <1> SUFFICES ASSUME CommitFirst = FALSE, IInv, [Next]_vars PROVE IInv'
    OBVIOUS
  <1>1. ASSUME NEW s \in Streams, Enter(s) \/ Generator(s) \/ Session(s) \/ Run(s) \/ Fault(s)
        PROVE  IInv'
    <2>1. CASE Enter(s) \/ Generator(s)
      BY <2>1, EnterKeeps, StartSendingKeeps, DeliverKeeps DEF Generator
    <2>2. CASE Session(s)
      BY <2>2, LeaveSessionKeeps, CollectKeeps DEF Session
    <2>3. CASE Run(s)
      BY <2>3, RunKeeps
    <2>4. CASE Fault(s)
      BY <2>4, DisconnectKeeps, ProcessingRaisesKeeps, PoolTimeoutKeeps, StoreFailsKeeps DEF Fault
    <2> QED
      BY <1>1, <2>1, <2>2, <2>3, <2>4
  <1>2. CASE UNCHANGED vars
    BY <1>2, StutterKeeps
  <1> QED
    BY <1>1, <1>2 DEF Next, Quiescent

LEMMA EmitTyped ==
    ASSUME TypeOK, NEW s \in Streams, NEW steps \in Seq(SaidItems), NEW next \in Tasks,
           Emit(s, steps, next)
    PROVE  queue' \in [Streams -> Seq(SaidItems)] /\ task' \in [Streams -> Tasks]
  <1> DEFINE new == queue[s] \o steps
  <1>1. queue[s] \in Seq(SaidItems)
    BY DEF TypeOK, SaidItems
  <1>2. new \in Seq(SaidItems)
    BY <1>1, ConcatProperties
  <1>3. /\ queue \in [Streams -> Seq(SaidItems)] /\ queue' = [queue EXCEPT ![s] = new]
        /\ task \in [Streams -> Tasks] /\ task' = [task EXCEPT ![s] = next]
    BY DEF Emit, TypeOK, SaidItems
  <1> HIDE DEF new
  <1> QED
    BY <1>2, <1>3

LEMMA FinishTyped ==
    ASSUME TypeOK, NEW s \in Streams, NEW step \in Steps, Finish(s, step)
    PROVE  queue' \in [Streams -> Seq(SaidItems)] /\ task' \in [Streams -> Tasks]
  <1>1. <<step, End>> \in Seq(SaidItems) /\ "ended" \in Tasks
    BY PutLast DEF Puts, Tasks
  <1> QED
    BY <1>1, EmitTyped DEF Finish

\* What a step of a task or a fault needs to keep the types: the rest is the queue and the task.
LEMMA TaskTyped ==
    ASSUME TypeOK, UNCHANGED <<response, db>>, conn' \in Streams \cup {NoStream},
           view' \in [Streams -> Rows], performed' \subseteq Streams,
           queue' \in [Streams -> Seq(SaidItems)] /\ task' \in [Streams -> Tasks]
    PROVE  TypeOK'
  BY DEF TypeOK, response, SaidItems

LEMMA StepTyped == TypeOK /\ [Next]_vars => TypeOK'
  <1> SUFFICES ASSUME TypeOK, [Next]_vars PROVE TypeOK'
    OBVIOUS
  <1>1. <<>> \in Seq(SaidItems)
    BY PutNothing DEF Puts
  <1>2. \A step \in Steps : <<step>> \in Seq(SaidItems)
    BY PutOne DEF Puts
  <1>3. \A one, two \in Steps : <<one, two>> \in Seq(SaidItems)
    BY PutTwo DEF Puts
  <1>4. /\ {"event_received", "reasoning_started", "decision_made", "executing",
           "approval_required", "approval_created", "oncall_notified",
           "done", "duplicate", "error"} \subseteq Steps
        /\ {"save", "history", "reason", "act", "record", "request", "page", "pending",
            "failing"} \subseteq Tasks
        /\ {"processing", "processed", "failed"} \subseteq Statuses
    BY DEF Steps, Tasks, Statuses
  <1>5. ASSUME NEW s \in Streams, Enter(s)
        PROVE  TypeOK'
    BY <1>5 DEF Enter, TypeOK, Responses
  <1>6. ASSUME NEW s \in Streams, StartSending(s)
        PROVE  TypeOK'
    BY <1>6 DEF StartSending, TypeOK, Responses, Tasks
  <1>7. ASSUME NEW s \in Streams, Deliver(s)
        PROVE  TypeOK'
    <2> DEFINE q == queue[s]
               h == heard[s]
    <2>1. q \in Seq(SaidItems) /\ q # <<>> /\ h \in Seq(Steps)
      BY <1>7 DEF TypeOK, SaidItems, Deliver
    <2>2. Tail(q) \in Seq(SaidItems) /\ Head(q) \in SaidItems
      BY <2>1, ItemsOfTail
    <2>3. queue' \in [Streams -> Seq(SaidItems)]
      BY <1>7, <2>2 DEF Deliver, TypeOK, SaidItems
    <2>4. heard' \in [Streams -> Seq(Steps)] /\ stream' \in [Streams -> Responses]
      <3>1. CASE Head(q) = End
        BY <1>7, <3>1 DEF Deliver, TypeOK, Responses
      <3>2. CASE Head(q) # End
        <4>1. Append(h, Head(q)) \in Seq(Steps)
          BY <2>1, <2>2, <3>2, ItemsOfAppend DEF SaidItems
        <4> QED
          BY <1>7, <3>2, <4>1 DEF Deliver, TypeOK
      <3> QED
        BY <3>1, <3>2
    <2> QED
      BY <1>7, <2>3, <2>4 DEF Deliver, TypeOK, SaidItems
  <1>8. ASSUME NEW s \in Streams, Disconnect(s)
        PROVE  TypeOK'
    BY <1>8 DEF Disconnect, TypeOK, Responses
  <1>9. ASSUME NEW s \in Streams, Session(s)
        PROVE  TypeOK'
    BY <1>9 DEF Session, LeaveSession, Collect, TypeOK
  <1>10. ASSUME NEW s \in Streams, Find(s)
         PROVE  TypeOK'
    BY <1>1, <1>2, <1>4, <1>10, EmitTyped, FinishTyped, TaskTyped DEF Find, Statement, TypeOK
  <1>11. ASSUME NEW s \in Streams, Save(s)
         PROVE  TypeOK'
    BY <1>2, <1>4, <1>11, WriteRow, EmitTyped, TaskTyped DEF Save, Statement, TypeOK
  <1>12. ASSUME NEW s \in Streams, SaveCollides(s)
         PROVE  TypeOK'
    BY <1>4, <1>12, FinishTyped, TaskTyped DEF SaveCollides, Statement, TypeOK
  <1>13. ASSUME NEW s \in Streams, ReadHistory(s)
         PROVE  TypeOK'
    BY <1>1, <1>4, <1>13, EmitTyped, TaskTyped DEF ReadHistory, Statement, TypeOK
  <1>14. ASSUME NEW s \in Streams, Decide(s)
         PROVE  TypeOK'
    BY <1>3, <1>4, <1>14, EmitTyped, TaskTyped DEF Decide, TypeOK
  <1>15. ASSUME NEW s \in Streams, Act(s)
         PROVE  TypeOK'
    BY <1>1, <1>4, <1>15, EmitTyped, TaskTyped DEF Act, TypeOK
  <1>16. ASSUME NEW s \in Streams, Record(s)
         PROVE  TypeOK'
    BY <1>4, <1>16, WriteRow, FinishTyped, TaskTyped DEF Record, Statement, TypeOK
  <1>17. ASSUME NEW s \in Streams, Request(s)
         PROVE  TypeOK'
    BY <1>2, <1>4, <1>17, WriteRow, EmitTyped, TaskTyped DEF Request, Statement, TypeOK
  <1>18. ASSUME NEW s \in Streams, NotifyOncall(s)
         PROVE  TypeOK'
    BY <1>2, <1>4, <1>18, EmitTyped, TaskTyped DEF NotifyOncall, TypeOK
  <1>19. ASSUME NEW s \in Streams, RecordPending(s)
         PROVE  TypeOK'
    BY <1>4, <1>19, WriteRow, FinishTyped, TaskTyped DEF RecordPending, Statement, TypeOK
  <1>20. ASSUME NEW s \in Streams, MarkFailed(s)
         PROVE  TypeOK'
    BY <1>4, <1>20, WriteRow, FinishTyped, TaskTyped DEF MarkFailed, Statement, TypeOK
  <1>21. ASSUME NEW s \in Streams, ProcessingRaises(s)
         PROVE  TypeOK'
    BY <1>1, <1>4, <1>21, EmitTyped, TaskTyped DEF ProcessingRaises, TypeOK
  <1>22. ASSUME NEW s \in Streams, PoolTimeout(s)
         PROVE  TypeOK'
    BY <1>1, <1>4, <1>22, EmitTyped, FinishTyped, TaskTyped DEF PoolTimeout, TypeOK
  <1>23. ASSUME NEW s \in Streams, StoreFails(s)
         PROVE  TypeOK'
    BY <1>4, <1>23, FinishTyped, TaskTyped DEF StoreFails, TypeOK
  <1>24. CASE UNCHANGED vars
    BY <1>24 DEF vars, TypeOK
  <1> QED
    BY <1>5, <1>6, <1>7, <1>8, <1>9, <1>10, <1>11, <1>12, <1>13, <1>14, <1>15, <1>16, <1>17,
       <1>18, <1>19, <1>20, <1>21, <1>22, <1>23, <1>24
       DEF Next, Quiescent, Generator, Run, Fault

\* Every variable stays in the range the code gives it, whatever the faults and
\* whenever get_session is left.
THEOREM StreamTypeCorrect == Spec => []TypeOK
  <1>1. Init => TypeOK
    BY InitKeeps DEF IInv
  <1> QED
    BY <1>1, StepTyped, PTL DEF Spec

\* If get_session is left after the response: as long as its client is there, the
\* session of a stream has the connection when the task needs it, the row of its
\* event is what the task has reached, and what is said of it is true.
THEOREM StreamInvariant == CommitFirst = FALSE => (Spec => []IInv)
  <1> SUFFICES ASSUME CommitFirst = FALSE PROVE Spec => []IInv
    OBVIOUS
  <1>1. IInv /\ [Next]_vars => IInv'
    BY StepKeeps
  <1> QED
    BY <1>1, InitKeeps, PTL DEF Spec

\* Then a client that has read its stream to the end finds in the database what
\* run() told it, for any number of clients that share the one connection, any
\* payloads with the same key, and any of the faults.
THEOREM StreamsTellTheTruth == CommitFirst = FALSE => (Spec => []StreamTellsTheTruth)
  <1>1. IInv => StreamTellsTheTruth
    <2> SUFFICES ASSUME IInv, NEW s \in Streams, Told(s)
                 PROVE  /\ Heard(s, "done") =>
                              /\ db[s].status = "processed"
                              /\ db[s].tables = {"decision", "history"}
                                    \cup IF Heard(s, "approval_created") THEN {"approval"} ELSE {}
                        /\ Heard(s, "duplicate") =>
                              \E e \in Streams \ {s} : KeyOf[e] = KeyOf[s] /\ db[e].status # "absent"
                        /\ Heard(s, "error") => db[s].status \in {"absent", "failed"}
      BY DEF StreamTellsTheTruth
    <2>1. stream[s] = "ended" /\ conn # s
      BY DEF Told
    <2>2. queue[s] = <<>> /\ view[s] = db[s] /\ ProgressIsTrue(s)
      BY <2>1 DEF IInv, EndIsLast, TransactionIsLocal
    <2>3. Said(s) = Items(heard[s])
      BY <2>2 DEF Said, Items
    <2>4. \A step : Heard(s, step) <=> step \in Said(s)
      BY <2>3 DEF Heard, Items
    <2> QED
      BY <2>2, <2>4 DEF ProgressIsTrue
  <1> QED
    BY <1>1, StreamInvariant, PTL
-----------------------------------------------------------------------------
(* One action per key *)

\* What run() puts on the queue is told, and nothing that was told is taken back.
LEMMA EmitTells ==
    ASSUME TypeOK, NEW s \in Streams, NEW steps, NEW next, Puts(steps, next),
           Emit(s, steps, next), heard' = heard
    PROVE  /\ \A t \in Streams : Said(t) \subseteq Said(t)'
           /\ Items(steps) \subseteq Said(s)'
           /\ task'[s] = next /\ \A t \in Streams \ {s} : task'[t] = task[t]
  <1> DEFINE q == queue[s]
             new == q \o steps
  <1>1. q \in Seq(SaidItems) /\ steps \in Seq(SaidItems)
    BY DEF TypeOK, SaidItems, Puts
  <1>2. Items(new) = Items(q) \cup Items(steps)
    BY <1>1, ItemsOfConcat
  <1>3. /\ queue'[s] = new /\ task'[s] = next
        /\ \A t \in Streams \ {s} : queue'[t] = queue[t] /\ task'[t] = task[t]
    BY DEF Emit, TypeOK
  <1>4. /\ Said(s)' = Items(heard[s]) \cup Items(queue'[s])
        /\ Said(s) = Items(heard[s]) \cup Items(q)
        /\ \A t \in Streams \ {s} : Said(t)' = Said(t)
    BY <1>3 DEF Said, Items
  <1> HIDE DEF q, new
  <1> QED
    BY <1>2, <1>3, <1>4

\* Delivery takes nothing off the queue that the client does not hear, but the None.
LEMMA DeliverTells ==
    ASSUME TypeOK, NEW s \in Streams, Deliver(s), NEW t \in Streams, "error" \in Said(t)
    PROVE  "error" \in Said(t)'
  <1> DEFINE q == queue[s]
             h == heard[s]
  <1>1. q \in Seq(SaidItems) /\ h \in Seq(Steps) /\ q # <<>>
    BY DEF TypeOK, SaidItems, Deliver
  <1>2. Items(q) = {Head(q)} \cup Items(Tail(q)) /\ Head(q) \in SaidItems
    BY <1>1, ItemsOfTail
  <1>3. queue'[s] = Tail(q) /\ \A u \in Streams \ {s} : queue'[u] = queue[u]
    BY DEF Deliver, TypeOK
  <1>4. CASE t # s
    <2>1. heard'[t] = heard[t]
      BY <1>4 DEF Deliver, TypeOK
    <2> QED
      BY <1>3, <1>4, <2>1 DEF Said, Items
  <1>5. CASE t = s
    <2>1. "error" \in Items(h) \cup Items(q)
      BY <1>5 DEF Said
    <2>2. Said(s)' = Items(heard'[s]) \cup Items(queue'[s])
      BY DEF Said, Items
    <2>3. CASE Head(q) = End
      <3>1. heard'[s] = h /\ Head(q) # "error"
        BY <2>3 DEF Deliver, End
      <3> HIDE DEF q, h
      <3> QED
        BY <1>2, <1>3, <1>5, <2>1, <2>2, <3>1
    <2>4. CASE Head(q) # End
      <3>1. heard'[s] = Append(h, Head(q)) /\ Head(q) \in Steps
        BY <1>2, <2>4 DEF Deliver, TypeOK, SaidItems
      <3>2. Items(Append(h, Head(q))) = Items(h) \cup {Head(q)}
        BY <1>1, <3>1, ItemsOfAppend
      <3> HIDE DEF q, h
      <3> QED
        BY <1>2, <1>3, <1>5, <2>1, <2>2, <3>1, <3>2
    <2> QED
      BY <2>3, <2>4
  <1> QED
    BY <1>4, <1>5

\* What a step of s does to the rows: nothing, it writes a row that is there, inserts
\* the first of its key, or gives up what it has not committed, and says so.
RowStep(s) ==
    \/ view' = view
    \/ /\ HasRow(s) \/ Existing(KeyOf[s]) = {}
       /\ \E row \in Rows : row.status # "absent" /\ view' = [view EXCEPT ![s] = row]
    \/ /\ conn = s /\ view' = db
       /\ stream[s] # "cut" => "error" \in Said(s)'

LEMMA RowsOfActorsStay ==
    ASSUME IInv, ActorsHaveRows, NEW s \in Streams, RowStep(s),
           performed' = performed \/ (performed' \subseteq performed \cup {s} /\ HasRow(s)'),
           \A t \in Streams : stream'[t] # "cut" => stream[t] # "cut",
           \A t \in Streams : "error" \in Said(t) => "error" \in Said(t)',
           \A t \in Streams \ {s} : task'[t] = task[t],
           task'[s] \notin {"absent", "find", "save", "ended"} => HasRow(s)'
    PROVE  ActorsHaveRows'
  <1>1. /\ view \in [Streams -> Rows] /\ performed \subseteq Streams /\ TransactionIsLocal
    BY DEF IInv, TypeOK
  <1>2. \A t \in Streams \ {s} : view'[t] = view[t]
    BY <1>1 DEF RowStep, TransactionIsLocal
  <1>3. HasRow(s)' => HasRow(s) \/ Existing(KeyOf[s]) = {}
    BY <1>1 DEF RowStep, HasRow, TransactionIsLocal
  <1>4. HasRow(s) /\ stream[s] # "cut" => HasRow(s)' \/ "error" \in Said(s)'
    BY <1>1 DEF RowStep, HasRow
  <1>5. \A t \in Streams \ {s} : HasRow(t)' <=> HasRow(t)
    BY <1>2 DEF HasRow
  <1>6. ASSUME NEW t \in Streams \ {s}, HasRow(s)', HasRow(t), KeyOf[s] = KeyOf[t]
        PROVE  FALSE
    <2>1. Existing(KeyOf[s]) # {}
      BY <1>6 DEF Existing, HasRow
    <2> QED
      BY <1>3, <1>6, <2>1 DEF ActorsHaveRows
  <1>7. \A t, u \in Streams : HasRow(t)' /\ HasRow(u)' /\ KeyOf[t] = KeyOf[u] => t = u
    BY <1>5, <1>6 DEF ActorsHaveRows
  <1>8. \A t \in Streams : task'[t] \notin {"absent", "find", "save", "ended"} => HasRow(t)'
    BY <1>5 DEF ActorsHaveRows
  <1>9. ASSUME NEW t \in performed', stream'[t] # "cut", "error" \notin Said(t)'
        PROVE  HasRow(t)'
    <2>1. CASE t \in performed
      <3>1. HasRow(t)
        BY <1>1, <1>9, <2>1 DEF ActorsHaveRows
      <3> QED
        BY <1>1, <1>4, <1>5, <1>9, <2>1, <3>1
    <2>2. CASE t \notin performed
      BY <1>9, <2>2
    <2> QED
      BY <2>1, <2>2
  <1> QED
    BY <1>7, <1>8, <1>9 DEF ActorsHaveRows

\* A write by a task.
LEMMA WriteIsRow ==
    ASSUME IInv, NEW s \in Streams, NEW status \in Statuses \ {"absent"},
           NEW tables \in SUBSET {"decision", "approval", "history"}, Write(s, status, tables),
           HasRow(s) \/ Existing(KeyOf[s]) = {}
    PROVE  RowStep(s) /\ HasRow(s)'
  <1>1. view \in [Streams -> Rows]
    BY DEF IInv, TypeOK
  <1>2. [status |-> status, tables |-> view[s].tables \cup tables] \in Rows
    BY <1>1 DEF Rows
  <1> QED
    BY <1>1, <1>2 DEF Write, RowStep, HasRow

\* A step of the task of s: it is enough to know what it puts and which row it leaves.
LEMMA TaskOfActor ==
    ASSUME IInv, ActorsHaveRows, NEW s \in Streams, NEW steps, NEW next,
           Puts(steps, next), Emit(s, steps, next), UNCHANGED response,
           performed' = performed \/ (performed' \subseteq performed \cup {s} /\ HasRow(s)'),
           next \notin {"absent", "find", "save", "ended"} => HasRow(s)',
           RowStep(s)
    PROVE  ActorsHaveRows'
  <1>1. stream' = stream /\ heard' = heard /\ TypeOK
    BY DEF response, IInv
  <1>2. /\ \A t \in Streams : Said(t) \subseteq Said(t)'
        /\ task'[s] = next /\ \A t \in Streams \ {s} : task'[t] = task[t]
    BY <1>1, EmitTells
  <1> QED
    BY <1>1, <1>2, RowsOfActorsStay

LEMMA RunKeepsActors ==
    ASSUME IInv, ActorsHaveRows, NEW s \in Streams, Run(s)
    PROVE  ActorsHaveRows'
  <1>1. UNCHANGED response
    BY DEF Run, Find, Save, SaveCollides, ReadHistory, Decide, Act, Record, Request,
           NotifyOncall, RecordPending, MarkFailed
  <1>2. task[s] \notin {"absent", "find", "save", "ended"} => HasRow(s)
    BY DEF ActorsHaveRows
  <1>3. {"duplicate", "error", "done", "event_received", "reasoning_started", "decision_made",
         "executing", "approval_required", "approval_created", "oncall_notified"} \subseteq Steps
    BY DEF Steps
  <1>4. CASE Find(s)
    <2>1. RowStep(s) /\ performed' = performed
      BY <1>4 DEF Find, RowStep
    <2>2. CASE Finish(s, "duplicate")
      BY <1>1, <1>3, <2>1, <2>2, PutLast, TaskOfActor DEF Finish
    <2>3. CASE Emit(s, <<"event_received">>, "save")
      BY <1>1, <1>3, <2>1, <2>3, PutOne, TaskOfActor
    <2> QED
      BY <1>4, <2>2, <2>3 DEF Find
  <1>5. CASE Save(s)
    <2>1. /\ Existing(KeyOf[s]) = {} /\ Write(s, "processing", {}) /\ performed' = performed
          /\ Emit(s, <<"reasoning_started">>, "history")
      BY <1>5 DEF Save
    <2>2. RowStep(s) /\ HasRow(s)'
      BY <2>1, WriteIsRow DEF Statuses
    <2> QED
      BY <1>1, <1>3, <2>1, <2>2, PutOne, TaskOfActor
  <1>6. CASE SaveCollides(s)
    <2>1. RowStep(s) /\ performed' = performed /\ Emit(s, <<"error", End>>, "ended")
      BY <1>6 DEF SaveCollides, Finish, RowStep
    <2> QED
      BY <1>1, <1>3, <2>1, PutLast, TaskOfActor
  <1>7. CASE ReadHistory(s)
    <2>1. view' = view /\ performed' = performed /\ Emit(s, <<>>, "reason") /\ task[s] = "history"
      BY <1>7 DEF ReadHistory, Statement
    <2>2. RowStep(s) /\ HasRow(s)'
      BY <1>2, <2>1 DEF RowStep, HasRow
    <2> QED
      BY <1>1, <2>1, <2>2, PutNothing, TaskOfActor
  <1>8. CASE Decide(s)
    <2>1. view' = view /\ performed' = performed /\ task[s] = "reason"
      BY <1>8 DEF Decide
    <2>2. RowStep(s) /\ HasRow(s)'
      BY <1>2, <2>1 DEF RowStep, HasRow
    <2>3. CASE Emit(s, <<"decision_made", "executing">>, "act")
      BY <1>1, <1>3, <2>1, <2>2, <2>3, PutTwo, TaskOfActor
    <2>4. CASE Emit(s, <<"decision_made", "approval_required">>, "request")
      BY <1>1, <1>3, <2>1, <2>2, <2>4, PutTwo, TaskOfActor
    <2> QED
      BY <1>8, <2>3, <2>4 DEF Decide
  <1>9. CASE Act(s)
    <2>1. /\ view' = view /\ performed' \subseteq performed \cup {s}
          /\ Emit(s, <<>>, "record") /\ task[s] = "act"
      BY <1>9 DEF Act
    <2>2. RowStep(s) /\ HasRow(s)'
      BY <1>2, <2>1 DEF RowStep, HasRow
    <2> QED
      BY <1>1, <2>1, <2>2, PutNothing, TaskOfActor
  <1>10. CASE Record(s)
    <2>1. /\ Write(s, "processed", {"decision", "history"}) /\ performed' = performed
          /\ Emit(s, <<"done", End>>, "ended") /\ task[s] = "record"
      BY <1>10 DEF Record, Finish, Statement
    <2>2. RowStep(s)
      BY <1>2, <2>1, WriteIsRow DEF Statuses
    <2> QED
      BY <1>1, <1>3, <2>1, <2>2, PutLast, TaskOfActor
  <1>11. CASE Request(s)
    <2>1. /\ Write(s, "processing", {"decision", "approval"}) /\ performed' = performed
          /\ Emit(s, <<"approval_created">>, "page") /\ task[s] = "request"
      BY <1>11 DEF Request, Statement
    <2>2. RowStep(s) /\ HasRow(s)'
      BY <1>2, <2>1, WriteIsRow DEF Statuses
    <2> QED
      BY <1>1, <1>3, <2>1, <2>2, PutOne, TaskOfActor
  <1>12. CASE NotifyOncall(s)
    <2>1. /\ view' = view /\ performed' = performed
          /\ Emit(s, <<"oncall_notified">>, "pending") /\ task[s] = "page"
      BY <1>12 DEF NotifyOncall
    <2>2. RowStep(s) /\ HasRow(s)'
      BY <1>2, <2>1 DEF RowStep, HasRow
    <2> QED
      BY <1>1, <1>3, <2>1, <2>2, PutOne, TaskOfActor
  <1>13. CASE RecordPending(s)
    <2>1. /\ Write(s, "processed", {"history"}) /\ performed' = performed
          /\ Emit(s, <<"done", End>>, "ended") /\ task[s] = "pending"
      BY <1>13 DEF RecordPending, Finish, Statement
    <2>2. RowStep(s)
      BY <1>2, <2>1, WriteIsRow DEF Statuses
    <2> QED
      BY <1>1, <1>3, <2>1, <2>2, PutLast, TaskOfActor
  <1>14. CASE MarkFailed(s)
    <2>1. /\ Write(s, "failed", {}) /\ performed' = performed
          /\ Emit(s, <<"error", End>>, "ended") /\ task[s] = "failing"
      BY <1>14 DEF MarkFailed, Finish, Statement
    <2>2. RowStep(s)
      BY <1>2, <2>1, WriteIsRow DEF Statuses
    <2> QED
      BY <1>1, <1>3, <2>1, <2>2, PutLast, TaskOfActor
  <1> QED
    BY <1>4, <1>5, <1>6, <1>7, <1>8, <1>9, <1>10, <1>11, <1>12, <1>13, <1>14 DEF Run

LEMMA FaultKeepsActors ==
    ASSUME IInv, ActorsHaveRows, NEW s \in Streams,
           ProcessingRaises(s) \/ PoolTimeout(s) \/ StoreFails(s)
    PROVE  ActorsHaveRows'
  <1>1. UNCHANGED response /\ performed' = performed /\ "error" \in Steps
    BY DEF ProcessingRaises, PoolTimeout, StoreFails, Steps
  <1>2. task[s] \notin {"absent", "find", "save", "ended"} => HasRow(s)
    BY DEF ActorsHaveRows
  <1>3. CASE ProcessingRaises(s)
    <2>1. view' = view /\ Emit(s, <<>>, "failing") /\ task[s] \in {"reason", "page"}
      BY <1>3 DEF ProcessingRaises
    <2>2. RowStep(s) /\ HasRow(s)'
      BY <1>2, <2>1 DEF RowStep, HasRow
    <2> QED
      BY <1>1, <2>1, <2>2, PutNothing, TaskOfActor
  <1>4. CASE PoolTimeout(s)
    <2>1. view' = view /\ RowStep(s)
      BY <1>4 DEF PoolTimeout, RowStep
    <2>2. CASE task[s] \in {"find", "save", "failing"}
      <3>1. Emit(s, <<"error", End>>, "ended")
        BY <1>4, <2>2 DEF PoolTimeout, Finish
      <3> QED
        BY <1>1, <2>1, <3>1, PutLast, TaskOfActor
    <2>3. CASE task[s] \notin {"find", "save", "failing"}
      <3>1. Emit(s, <<>>, "failing") /\ HasRow(s)'
        BY <1>2, <1>4, <2>1, <2>3 DEF PoolTimeout, Querying, Writing, HasRow
      <3> QED
        BY <1>1, <2>1, <3>1, PutNothing, TaskOfActor
    <2> QED
      BY <2>2, <2>3
  <1>5. CASE StoreFails(s)
    <2>1. conn = s /\ view' = db /\ Emit(s, <<"error", End>>, "ended")
      BY <1>5 DEF StoreFails, Finish
    <2>2. Puts(<<"error", End>>, "ended") /\ Items(<<"error", End>>) = {"error", End}
      BY <1>1, PutLast
    <2>3. "error" \in Said(s)'
      BY <1>1, <2>1, <2>2, EmitTells DEF response, IInv
    <2>4. RowStep(s)
      BY <2>1, <2>3 DEF RowStep
    <2> QED
      BY <1>1, <2>1, <2>2, <2>4, TaskOfActor
  <1> QED
    BY <1>3, <1>4, <1>5

LEMMA ResponseKeepsActors ==
    ASSUME IInv, ActorsHaveRows, NEW s \in Streams,
           Enter(s) \/ Generator(s) \/ Session(s) \/ Disconnect(s)
    PROVE  ActorsHaveRows'
  <1>1. /\ performed' = performed /\ TypeOK
        /\ \A t \in Streams : stream'[t] # "cut" => stream[t] # "cut"
    BY DEF Enter, Generator, StartSending, Deliver, Session, LeaveSession, Collect, Disconnect,
           IInv, TypeOK
  <1>2. \A t \in Streams : "error" \in Said(t) => "error" \in Said(t)'
    <2>1. CASE Deliver(s)
      BY <1>1, <2>1, DeliverTells
    <2>2. CASE UNCHANGED <<queue, heard>>
      BY <2>2 DEF Said, Items
    <2> QED
      BY <2>1, <2>2 DEF Enter, Generator, StartSending, Session, LeaveSession, Collect, Disconnect
  <1>3. /\ \A t \in Streams \ {s} : task'[t] = task[t]
        /\ task'[s] = task[s] \/ task'[s] = "find"
    BY DEF Enter, Generator, StartSending, Deliver, Session, LeaveSession, Collect, Disconnect,
           IInv, TypeOK
  <1>4. CASE Collect(s)
    <2>1. conn = s /\ view' = db /\ session[s] = "closed" /\ task'[s] = "ended"
      BY <1>4 DEF Collect
    <2>2. stream[s] = "cut"
      BY <2>1 DEF IInv, SessionOutlivesTask
    <2>3. RowStep(s)
      BY <2>1, <2>2 DEF RowStep
    <2> QED
      BY <1>1, <1>2, <1>3, <2>1, <2>3, RowsOfActorsStay
  <1>5. CASE ~Collect(s)
    <2>1. view' = view
      BY <1>5 DEF Enter, Generator, StartSending, Deliver, Session, LeaveSession, Disconnect
    <2>2. RowStep(s) /\ (task'[s] \notin {"absent", "find", "save", "ended"} => HasRow(s)')
      BY <1>3, <2>1 DEF RowStep, HasRow, ActorsHaveRows
    <2> QED
      BY <1>1, <1>2, <1>3, <2>2, RowsOfActorsStay
  <1> QED
    BY <1>4, <1>5

\* If the session outlives the response, the orchestrator acts at most once for a
\* webhook, over any number of streamed deliveries that overlap in any way, but for
\* those whose client went away or heard of an error: run() acts after its event is
\* inserted, and nobody else inserts one with its key while it is there.
THEOREM StreamsActOncePerKey == CommitFirst = FALSE => (Spec => []ActsOncePerKey)
  <1>1. Init => ActorsHaveRows
    BY DEF Init, ActorsHaveRows, HasRow, NoRow
  <1>2. IInv /\ ActorsHaveRows /\ [Next]_vars => ActorsHaveRows'
    <2> SUFFICES ASSUME IInv, ActorsHaveRows, [Next]_vars PROVE ActorsHaveRows'
      OBVIOUS
    <2>1. ASSUME NEW s \in Streams, Enter(s) \/ Generator(s) \/ Session(s) \/ Run(s) \/ Fault(s)
          PROVE  ActorsHaveRows'
      BY <2>1, RunKeepsActors, FaultKeepsActors, ResponseKeepsActors DEF Fault
    <2>2. CASE UNCHANGED vars
      BY <2>2 DEF vars, ActorsHaveRows, HasRow, Said, Items
    <2> QED
      BY <2>1, <2>2 DEF Next, Quiescent
  <1>3. IInv /\ ActorsHaveRows => ActsOncePerKey
    BY DEF IInv, TypeOK, ActorsHaveRows, ActsOncePerKey
  <1> QED
    BY <1>1, <1>2, <1>3, StreamInvariant, PTL DEF Spec
=============================================================================

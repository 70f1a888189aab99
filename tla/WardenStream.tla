---------------------------- MODULE WardenStream ----------------------------
(***************************************************************************)
(* POST /events/webhook/stream.  Three actors share one session: the task  *)
(* run() that executes the use case and puts its progress on a queue, the  *)
(* generator that sends the queue to the client, and get_session, which    *)
(* commits and closes the session when the framework leaves it.  The task  *)
(* knows of neither of the others: a session that is closed under it just  *)
(* begins another transaction, which nobody commits.                       *)
(*                                                                         *)
(* The streams compete for the one connection of the pool.  `db` and       *)
(* `view` are as in Warden; a row is the status of the event and the       *)
(* other tables that have an entry for it.                                 *)
(***************************************************************************)
EXTENDS Sequences, FiniteSets

CONSTANTS
    Streams,        \* the streaming requests
    NoStream,       \* no request
    KeyOf,          \* the dedup key of the payload of each
    CommitFirst,    \* whether get_session is left before the response is sent
    Faults          \* the faults the environment may inject

ASSUME StreamAssumption ==
    /\ IsFiniteSet(Streams) /\ NoStream \notin Streams
    /\ DOMAIN KeyOf = Streams
    /\ CommitFirst \in BOOLEAN
    /\ Faults \subseteq {"disconnect", "raise", "pool", "store"}

VARIABLES
    stream,     \* the response of each request
    session,    \* whether get_session has been left
    task,       \* how far run() is
    queue,      \* what run() has put and the generator has not got
    heard,      \* what the client has received
    conn,       \* the request whose session holds the connection
    view,       \* the rows a statement on the connection sees
    db,         \* the committed rows
    performed   \* requests for which the orchestrator acted

vars == <<stream, session, task, queue, heard, conn, view, db, performed>>
response == <<stream, session, heard>>

Responses == {"new", "entered", "sending", "ended", "cut"}
Steps == {"event_received", "reasoning_started", "decision_made", "executing",
          "approval_required", "approval_created", "oncall_notified",
          "done", "duplicate", "error"}
End == "None"   \* the item that ends the generator
Tasks == {"absent", "find", "save", "history", "reason", "act", "record",
          "request", "page", "pending", "failing", "ended"}

\* Tasks whose next step runs statements on the session, reads only or a write.
Writing == {"save", "record", "request", "pending", "failing"}
Querying == {"find", "history"} \cup Writing

Statuses == {"absent", "processing", "processed", "failed"}
Rows == [status : Statuses, tables : SUBSET {"decision", "approval", "history"}]
NoRow == [status |-> "absent", tables |-> {}]

Init ==
    /\ stream = [s \in Streams |-> "new"]
    /\ session = [s \in Streams |-> "open"]
    /\ task = [s \in Streams |-> "absent"]
    /\ queue = [s \in Streams |-> <<>>]
    /\ heard = [s \in Streams |-> <<>>]
    /\ conn = NoStream
    /\ view = [s \in Streams |-> NoRow]
    /\ db = [s \in Streams |-> NoRow]
    /\ performed = {}
-----------------------------------------------------------------------------
(* The response *)

\* The dependencies are resolved and the handler returns a StreamingResponse.
Enter(s) ==
    /\ stream[s] = "new"
    /\ stream' = [stream EXCEPT ![s] = "entered"]
    /\ UNCHANGED <<session, task, queue, heard, conn, view, db, performed>>

\* The first step of generate() creates the task.
StartSending(s) ==
    /\ stream[s] = "entered"
    /\ CommitFirst => session[s] = "closed"
    /\ stream' = [stream EXCEPT ![s] = "sending"]
    /\ task' = [task EXCEPT ![s] = "find"]
    /\ UNCHANGED <<session, queue, heard, conn, view, db, performed>>

Deliver(s) ==
    /\ stream[s] = "sending"
    /\ queue[s] # <<>>
    /\ queue' = [queue EXCEPT ![s] = Tail(@)]
    /\ IF Head(queue[s]) = End
       THEN stream' = [stream EXCEPT ![s] = "ended"] /\ UNCHANGED heard
       ELSE heard' = [heard EXCEPT ![s] = Append(@, Head(queue[s]))] /\ UNCHANGED stream
    /\ UNCHANGED <<session, task, conn, view, db, performed>>

\* The client goes away: the generator is cancelled, the task, if there is one
\* already, is not.
Disconnect(s) ==
    /\ "disconnect" \in Faults
    /\ stream[s] \in {"entered", "sending"}
    /\ stream' = [stream EXCEPT ![s] = "cut"]
    /\ UNCHANGED <<session, task, queue, heard, conn, view, db, performed>>
-----------------------------------------------------------------------------
(* The session *)

\* FastAPI before 0.118 leaves the dependencies before it sends the first item,
\* later versions after the last.
Leaving(s) ==
    /\ session[s] = "open"
    /\ stream[s] \in IF CommitFirst THEN {"entered", "cut"} ELSE {"ended", "cut"}

\* Mutant of LeaveSession: close() without commit().
LeaveUncommitted(s) ==
    /\ Leaving(s)
    /\ session' = [session EXCEPT ![s] = "closed"]
    /\ IF conn = s THEN conn' = NoStream /\ view' = db ELSE UNCHANGED <<conn, view>>
    /\ UNCHANGED <<stream, task, queue, heard, db, performed>>

\* run() has caught every exception: get_session always commits.  After a flush that
\* failed the commit raises and get_session rolls back, which leaves what StoreFails left.
LeaveSession(s) ==
    /\ Leaving(s)
    /\ session' = [session EXCEPT ![s] = "closed"]
    /\ IF conn = s THEN conn' = NoStream /\ db' = view ELSE UNCHANGED <<conn, db>>
    /\ UNCHANGED <<stream, task, queue, heard, view, performed>>

\* A closed session that the task used again goes with the task: its
\* connection is reset and its transaction is lost.
Collect(s) ==
    /\ session[s] = "closed"
    /\ task[s] = "ended"
    /\ conn = s
    /\ conn' = NoStream
    /\ view' = db
    /\ UNCHANGED <<stream, session, task, queue, heard, db, performed>>
-----------------------------------------------------------------------------
(* The task: IngestEventUseCase.execute with on_progress *)

Emit(s, steps, next) ==
    /\ queue' = [queue EXCEPT ![s] = @ \o steps]
    /\ task' = [task EXCEPT ![s] = next]

\* Mutant of Finish: the None is put after the try statement, not in `finally`.
FinishUnmarked(s, step) ==
    Emit(s, IF step = "error" THEN <<step>> ELSE <<step, End>>, "ended")

\* The last item of run() and, in any case, the None.
Finish(s, step) == Emit(s, <<step, End>>, "ended")

\* A statement runs on the connection that the session has, or checks it out.
Statement(s, phase) ==
    /\ task[s] = phase
    /\ conn \in {NoStream, s}
    /\ conn' = s

Write(s, status, tables) ==
    view' = [view EXCEPT ![s] = [status |-> status, tables |-> @.tables \cup tables]]

Existing(k) == {e \in Streams : view[e].status # "absent" /\ KeyOf[e] = k}

Find(s) ==
    /\ Statement(s, "find")
    /\ IF Existing(KeyOf[s]) # {}
       THEN Finish(s, "duplicate")
       ELSE Emit(s, <<"event_received">>, "save")
    /\ UNCHANGED <<response, view, db, performed>>

Save(s) ==
    /\ Statement(s, "save")
    /\ Existing(KeyOf[s]) = {}
    /\ Write(s, "processing", {})
    /\ Emit(s, <<"reasoning_started">>, "history")
    /\ UNCHANGED <<response, db, performed>>

\* UNIQUE(dedup_key): the session was closed after the check, and another event
\* with the key was committed since.
SaveCollides(s) ==
    /\ Statement(s, "save")
    /\ Existing(KeyOf[s]) # {}
    /\ Finish(s, "error")
    /\ UNCHANGED <<response, view, db, performed>>

ReadHistory(s) ==
    /\ Statement(s, "history")
    /\ Emit(s, <<>>, "reason")
    /\ UNCHANGED <<response, view, db, performed>>

\* The LLM has answered and the restrictions were applied.
Decide(s) ==
    /\ task[s] = "reason"
    /\ \/ Emit(s, <<"decision_made", "executing">>, "act")
       \/ Emit(s, <<"decision_made", "approval_required">>, "request")
    /\ UNCHANGED <<response, conn, view, db, performed>>

Act(s) ==
    /\ task[s] = "act"
    /\ performed' \in {performed, performed \cup {s}}
    /\ Emit(s, <<>>, "record")
    /\ UNCHANGED <<response, conn, view, db>>

\* Mutant of Record: the status of the answer is stored as that of the event.
RecordAsDone(s) ==
    /\ Statement(s, "record")
    /\ Write(s, "done", {"decision", "history"})
    /\ Finish(s, "done")
    /\ UNCHANGED <<response, db, performed>>

Record(s) ==
    /\ Statement(s, "record")
    /\ Write(s, "processed", {"decision", "history"})
    /\ Finish(s, "done")
    /\ UNCHANGED <<response, db, performed>>

Request(s) ==
    /\ Statement(s, "request")
    /\ Write(s, "processing", {"decision", "approval"})
    /\ Emit(s, <<"approval_created">>, "page")
    /\ UNCHANGED <<response, db, performed>>

NotifyOncall(s) ==
    /\ task[s] = "page"
    /\ Emit(s, <<"oncall_notified">>, "pending")
    /\ UNCHANGED <<response, conn, view, db, performed>>

RecordPending(s) ==
    /\ Statement(s, "pending")
    /\ Write(s, "processed", {"history"})
    /\ Finish(s, "done")
    /\ UNCHANGED <<response, db, performed>>

\* The except clause of execute(), then that of run().
MarkFailed(s) ==
    /\ Statement(s, "failing")
    /\ Write(s, "failed", {})
    /\ Finish(s, "error")
    /\ UNCHANGED <<response, db, performed>>
-----------------------------------------------------------------------------
(* Faults *)

\* The LLM client or the notifier raises what its adapter does not catch.
ProcessingRaises(s) ==
    /\ "raise" \in Faults
    /\ task[s] \in {"reason", "page"}
    /\ Emit(s, <<>>, "failing")
    /\ UNCHANGED <<response, conn, view, db, performed>>

\* QueuePool gives up; inside the try statement execute() tries to mark the event.
PoolTimeout(s) ==
    /\ "pool" \in Faults
    /\ task[s] \in Querying
    /\ conn \notin {NoStream, s}
    /\ IF task[s] \in {"find", "save", "failing"} THEN Finish(s, "error")
       ELSE Emit(s, <<>>, "failing")
    /\ UNCHANGED <<response, conn, view, db, performed>>

\* A flush fails and rolls the transaction back; the session stays unusable.
StoreFails(s) ==
    /\ "store" \in Faults
    /\ task[s] \in Writing
    /\ conn = s
    /\ view' = db
    /\ Finish(s, "error")
    /\ UNCHANGED <<response, conn, db, performed>>
-----------------------------------------------------------------------------
Generator(s) == StartSending(s) \/ Deliver(s)
Session(s) == LeaveSession(s) \/ Collect(s)
Run(s) ==
    \/ Find(s) \/ Save(s) \/ SaveCollides(s) \/ ReadHistory(s) \/ Decide(s)
    \/ Act(s) \/ Record(s)
    \/ Request(s) \/ NotifyOncall(s) \/ RecordPending(s)
    \/ MarkFailed(s)

Fault(s) == Disconnect(s) \/ ProcessingRaises(s) \/ PoolTimeout(s) \/ StoreFails(s)

Over(s) ==
    /\ stream[s] \in {"ended", "cut"} /\ session[s] = "closed"
    /\ task[s] \in {"absent", "ended"}
    /\ conn # s

Quiescent ==
    /\ \A s \in Streams : Over(s)
    /\ UNCHANGED vars

Next ==
    \/ \E s \in Streams : Enter(s) \/ Generator(s) \/ Session(s) \/ Run(s) \/ Fault(s)
    \/ Quiescent

Spec == Init /\ [][Next]_vars

\* The event loop runs the generator, the task and the exit of get_session, and
\* what they await ends; the interpreter collects what nobody refers to.
FairSpec ==
    Spec /\ \A s \in Streams : WF_vars(Generator(s)) /\ WF_vars(Session(s)) /\ WF_vars(Run(s))
-----------------------------------------------------------------------------
\* Every variable stays in the range the code gives it.
TypeOK ==
    /\ stream \in [Streams -> Responses]
    /\ session \in [Streams -> {"open", "closed"}]
    /\ task \in [Streams -> Tasks]
    /\ queue \in [Streams -> Seq(Steps \cup {End})]
    /\ heard \in [Streams -> Seq(Steps)]
    /\ conn \in Streams \cup {NoStream}
    /\ view \in [Streams -> Rows] /\ db \in [Streams -> Rows]
    /\ performed \subseteq Streams

Heard(s, step) == \E i \in DOMAIN heard[s] : heard[s][i] = step
Told(s) == stream[s] = "ended" /\ conn # s

\* A client that reads its stream to the end finds in the database what it was
\* told, whatever other clients do: after `done` the processed event with a
\* decision, its history and the approval it heard of; after a duplicate the
\* other event; after an error nothing, or an event that is marked as failed.
StreamTellsTheTruth ==
    \A s \in Streams : Told(s) =>
        /\ Heard(s, "done") =>
              /\ db[s].status = "processed"
              /\ db[s].tables = {"decision", "history"}
                    \cup IF Heard(s, "approval_created") THEN {"approval"} ELSE {}
        /\ Heard(s, "duplicate") =>
              \E e \in Streams \ {s} : KeyOf[e] = KeyOf[s] /\ db[e].status # "absent"
        /\ Heard(s, "error") => db[s].status \in {"absent", "failed"}

\* What run() has told the client, or put where it will be told.
Items(sequence) == {sequence[i] : i \in DOMAIN sequence}
Said(s) == Items(heard[s]) \cup Items(queue[s])

\* Whatever other clients do, and whatever fails: of the deliveries of one webhook
\* whose clients stay and are not told of an error, at most one makes the
\* orchestrator act, however they overlap.
ActsOncePerKey ==
    \A s, t \in performed :
        /\ KeyOf[s] = KeyOf[t]
        /\ "cut" \notin {stream[s], stream[t]} /\ "error" \notin Said(s) \cup Said(t)
        => s = t

\* A response that has begun is sent to its end, unless its client goes away.
EveryStreamEnds == \A s \in Streams : stream[s] = "entered" ~> stream[s] \in {"ended", "cut"}

\* No session keeps the connection for ever, not even one whose client is gone.
ConnectionComesBack == \A s \in Streams : conn = s ~> conn # s

\* README: "El sistema puede recibir el mismo webhook multiples veces sin efectos
\* secundarios": for one dedup key the orchestrator acts at most once.
StreamedWebhookIsIdempotent ==
    \A s, t \in performed : KeyOf[s] = KeyOf[t] => s = t

-----------------------------------------------------------------------------
(* The inductive invariant, for a session that outlives its response *)

Last == {"done", "duplicate", "error"}

\* A transaction differs from the committed rows in the row of its own event only.
TransactionIsLocal ==
    \A s \in Streams :
        /\ conn # s => view[s] = db[s]
        /\ db[s].status # "absent" => view[s].status # "absent"

\* The None ends what the task says, and a stream that was read to it was read whole.
EndIsLast ==
    \A s \in Streams :
        /\ End \in Items(queue[s]) => task[s] = "ended"
        /\ \A i \in DOMAIN queue[s] : queue[s][i] = End => i = Len(queue[s])
        /\ stream[s] = "ended" => queue[s] = <<>> /\ task[s] = "ended"

\* The session is open and has the connection as long as the task needs it.
SessionOutlivesTask(s) ==
    /\ stream[s] \in {"new", "entered"} <=> task[s] = "absent"
    /\ session[s] = "closed" => stream[s] = "ended" /\ conn # s
    /\ session[s] = "open" => db[s] = NoRow
    /\ conn = s => task[s] \notin {"absent", "find"}
    /\ task[s] \notin {"absent", "find", "ended"} => conn = s

RowIsKept(s) ==
    /\ task[s] \in {"absent", "find", "save"} => view[s] = NoRow
    /\ task[s] \in {"history", "reason", "act", "record", "request"} =>
          view[s] = [status |-> "processing", tables |-> {}]
    /\ task[s] \in {"page", "pending"} =>
          view[s] = [status |-> "processing", tables |-> {"decision", "approval"}]

ProgressIsTrue(s) ==
    /\ Said(s) \cap Last # {} => task[s] = "ended"
    /\ task[s] \in {"page", "pending"} => "approval_created" \in Said(s)
    /\ "approval_created" \in Said(s) => task[s] \in {"page", "pending", "failing", "ended"}
    /\ "done" \in Said(s) =>
          view[s] = [status |-> "processed",
                     tables |-> {"decision", "history"}
                        \cup IF "approval_created" \in Said(s) THEN {"approval"} ELSE {}]
    /\ "duplicate" \in Said(s) =>
          \E e \in Streams \ {s} : KeyOf[e] = KeyOf[s] /\ db[e].status # "absent"
    /\ "error" \in Said(s) => view[s].status \in {"absent", "failed"}

\* What a stream says is true of the row that the task leaves to get_session, as
\* long as the client does not go away: nobody else writes it, and no statement of
\* the task runs after get_session has closed the session.
IInv ==
    /\ TypeOK
    /\ TransactionIsLocal
    /\ EndIsLast
    /\ \A s \in Streams : stream[s] # "cut" =>
          SessionOutlivesTask(s) /\ RowIsKept(s) /\ ProgressIsTrue(s)
-----------------------------------------------------------------------------
(* What else it takes for ActsOncePerKey; inductive relative to IInv *)

HasRow(s) == view[s].status # "absent"

\* A task that has saved its event works on a row, and a key has one; the row of
\* who has acted stays, unless its client leaves or hears of an error.
ActorsHaveRows ==
    /\ \A s \in Streams : task[s] \notin {"absent", "find", "save", "ended"} => HasRow(s)
    /\ \A s, t \in Streams : HasRow(s) /\ HasRow(t) /\ KeyOf[s] = KeyOf[t] => s = t
    /\ \A s \in performed : stream[s] # "cut" /\ "error" \notin Said(s) => HasRow(s)
=============================================================================

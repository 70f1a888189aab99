# Warden in TLA+

A verification project kept beside the Warden API (`src/src/warden`): TLA+
modules that model the service, TLC configurations that check them on small
instances, and theorems checked by TLAPS. The code is the reference; where a
document or a test says something else than the code does, the run that shows it
is listed under *Findings*.

## The system

Warden receives webhooks about degraded workloads, asks an LLM what to do,
restricts the answer by business rules, and either has an orchestrator act or
asks a human. It is one process with one asyncio event loop and one SQLite file.

| Component | State it keeps | Operations | Talks to |
|---|---|---|---|
| `IngestEventUseCase` | rows of `events`, `decisions`, `approval_requests`, `workload_history`, through its session | `execute`: look for the dedup key, insert, decide, act or ask, record | repositories, reasoning engine, executor, notifier |
| `ReasoningEngineService` | none | `decide`: load the history, screen the payload, ask the LLM or fall back, apply R1-R4 | history repository, LLM |
| `OpenAIClient` | none | `reason`: call, parse, validate | OpenAI |
| `ActionExecutorService` | none | one handler per action; an exception becomes a failed action | orchestrator, notifier |
| `ApprovalService` | rows, through its session | `approve` (act, then record), `reject` | repositories, executor |
| `HttpOrchestratorClient`, `HttpNotifierClient` | none | one POST each; errors become a failed result, or are logged | external services |
| repositories | ORM rows of the session | insert, update, find, all flushed at once | SQLite |
| `get_session`, `build_engine` | the session of a request, the pool of **one** connection | check out at the first statement, COMMIT or ROLLBACK at the end | all of the above |
| routers, `main.py` | none | webhook, SSE webhook, approve, reject, reads; exception handlers | use cases |

How they interact: a request is a coroutine with its own session; everything it
awaits (LLM, orchestrator, notifier, statements) lets other requests run. Requests
meet in two places, the pool and the tables. The orchestrator acts at once,
the tables change when `get_session` commits at the very end.

What is hard here, and what must hold nevertheless:

- two deliveries of one webhook, or two humans on one approval, at the same time:
  one event per incident, one resolution, one remediation on record;
- the history is counted, then the LLM is awaited, then R4 compares the count;
- a statement, a call, or the COMMIT fails, or the process dies, between the
  orchestrator's action and the COMMIT;
- a call times out that was carried out;
- everybody waits for one connection, which is held while the LLM thinks;
- depending on the FastAPI version the answer leaves before or after the COMMIT;
- the four tables say the same about an event in their status columns;
- the SSE endpoint runs the use case in a task that may outlive its session;
- what a human said is written to two tables, by the id of the event, and must reach
  the prompts for later events of the workload while newer incidents compete for their places;
- a webhook's identity is a hash of four fields that are joined by colons.

`PROJECT.json` has the complete list of components and of hazards, each hazard
with its line and the properties that would catch it.

## The modules

| Module | What it is |
|---|---|
| `Restrictions` | The business rules as operators: actions, severities, `Fires`, `RestrictionsApplied`, `SafeToAuto`, the fallback, the limited history count. |
| `ReasoningEngine` | One call of `decide()`, a step per `if`/`raise` of the engine and the adapter. Extends `Restrictions`. |
| `Warden` | The core: requests, handlers, sessions, the connection, committed and uncommitted rows, orchestrator, notifier, faults. Extends `Restrictions`. Its properties and its inductive invariant `IInv`. |
| `WardenEffects` | `EInv`, the second invariant of `Warden`: what its rows have to do with the requests that wrote them and with the orchestrator. |
| `RemediationLedger` | The abstract specification: what an operator may believe about incidents. |
| `WardenLedger` | The refinement mapping from the committed rows to the ledger. |
| `SerialWarden` | The abstract specification for clients: one request at a time. |
| `WardenSerial` | The refinement mapping from `Warden` to it, and `SInv`, the third invariant. |
| `ForgetfulWarden` | The abstract specification for clients of a host that may lose power: `SerialWarden`, and now and then the last requests are forgotten. |
| `WardenPower` | `Warden` on a host that may lose power: what SQLite may undo. The refinement of `ForgetfulWarden`, and its invariant `PInv`. |
| `DecideOnce` | The abstract specification of `decide()`: one step, as `Warden` takes it. |
| `WardenStream` | The SSE webhook: task, queue, generator, client and the session they share. |
| `DedupKey` | What `dedup_key` hashes. |
| `FeedbackLoop` | What Warden learns: the texts in `workload_history` and `approval_requests`, and the history part of the prompts. Extends `DedupKey`. |
| `MCReasoningEngine`, `MCWarden`, `MCWardenPower`, `MCWardenStream`, `MCFeedbackLoop` | Small instances for TLC. |
| `WardenSafetyProofs`, `WardenEffectsProofs`, `WardenGuaranteesProofs`, `WardenRefinementProofs`, `WardenPowerProofs` | The proofs about `Warden`, each extending the one before. |
| `ReasoningEngineProofs`, `FeedbackLoopProofs`, `WardenStreamProofs` | The proofs about the others. |

### `Warden` and the code

One value of `Req` is one HTTP request; `call[r]` is its endpoint, payload and the
event it names. An event is named by the request that ingests it (its id is a fresh
uuid), so one row of the model is the event with its decision, approval and
history entry, reduced to the columns that code branches on or a property reads.

| Variable | In the code |
|---|---|
| `pc[r]`, `mem[r]` | where the handler's coroutine is, and its locals (`decision`, `len(history)`, `result.success`) |
| `outcome[r]` | what it returned or raised |
| `conn` | which session has the pool's only connection |
| `db` / `view` | committed rows / rows as a statement on the connection sees them |
| `performed[r]`, `paged[e]` | what the orchestrator and the on-call service did (outside the process, so they survive a crash) |
| `durable` | requests whose COMMIT succeeded |

| Actions | Code |
|---|---|
| `FindByDedupKey`, `FindDuplicate`, `SaveEvent` | `ingest_event.py:60-82` |
| `ReadHistory`, `Decide` | `reasoning_engine.py:55-181`, cut at the await of the LLM |
| `CallOrchestrator`, `NotifyHuman`, `NoAction` | `action_executor.py`, for ingestion and for approve |
| `RecordAutoDecision` | `ingest_event.py:98-113` |
| `RequestApproval`, `NotifyOncall`, `RecordPending` | `ingest_event.py:107-164`, cut at the call of the notifier |
| `LoadAndValidate`, `ApprovalNotFound`, `ApprovalAlreadyResolved`, `RecordApproval`, `RecordRejection` | `approval_service.py` |
| `GetEvent` | the reads |
| `Rollback`, `Commit`, `Answer`, `CommitFails` | `container.py:74-81` and the framework |
| `LookupFails`, `StoreFails`, `ProcessingRaises`, `PoolTimeout`, `Crash` | faults: the first statement of a session fails, a later one does, an exception that nothing catches, the pool's timeout, the process dies and is started again. `lookup`, `store`, `raise`, `pool`, `crash` and `commit` in `Faults` enable them and `CommitFails` |

Steps are cut at the awaits where another actor can notice the difference: the
connection is exclusive, so consecutive statements of one session are one step,
while a call to the LLM, the orchestrator or the notifier is always a step of its own.

`CommitFirst` is the framework's order: FastAPI from 0.106 to 0.117 leaves the
dependencies (and so commits) before the answer is sent, later versions after;
`pyproject.toml` admits both (`>=0.115.0`).

### `ReasoningEngine` and the code

The inputs are an event (severity, production or not, suspicious or not), the number
of history rows and a reply. A reply is what the adapter tests of it: how the call
ended, JSON or not, how its fields fit the schema, the values, the length of the
reasoning. The rules are applied one by one as in `_apply_restrictions`; the
properties compare the result with the table of the repository's README. `TableRows` writes
that table down a second time, with its own numbers and comparisons and on the rows on record instead of the
limited count, so that a wrong comparison in the code's rules would show.

`Warden` takes `decide()` in the step `Decide`, and its exceptions in `ProcessingRaises`. That this
leaves nothing out is `DecidesAtOnce`: the stages implement `DecideOnce`, whose one step chooses an
answer that a completion can hold, or the fallback, and applies the rules to it.

### `RemediationLedger`

An incident is entered once, automatically or awaiting a human; an awaiting one is
resolved once; and a workload with three incidents on record gets no more automatic
remediations (`AutoBudget`). `WardenLedger` instantiates it: `IncidentStates` reads the state of
an incident from the committed rows of the event that entered it, and `Budget` is R4's threshold, or
more than there are requests if the history limit is below the threshold, where R4 can never fire.
`ImplementsLedger` says that COMMIT by COMMIT the tables do nothing else.

### `SerialWarden`

The API as a client may think of it: no sessions, no faults, nothing in flight; a request is served
in one step on the tables that earlier requests left, or never. `WardenSerial` maps the committed
rows to its `table`, and says when a request counts as served: when its COMMIT succeeds, or, for a 404
and a 409, when the statement runs that finds the conflict. `ImplementsSerial` is then that Warden is
serializable in the order of commits, R4's count included: no interleaving, lost transaction or stale read
leaves a row or gives an answer that requests one after the other would not. The effects outside, in
the orchestrator, are not part of it; what holds of them is in `EInv` and its theorems.

### `WardenPower` and the code

`init_db` runs SQLite with `journal_mode=WAL` and `synchronous=NORMAL`: a COMMIT is not synced,
a checkpoint is. `WardenPower` adds one variable to `Warden`: `kept`, the tables (with the
transactions in them) that a power failure may leave, one for each COMMIT since the last `Checkpoint`.
`PowerFailure` takes the server back to one of them, and with it the requests: what is not
in the tables is lost, what orchestrator and on-call have done stays done. It is SQLite's
promise that this is all that can happen; `Checkpoint` may happen at any time, so the model
does not rely on when SQLite checkpoints. `KeepTorn`, the mutant of the commit, is a
database that breaks the promise, as it may with `synchronous=OFF`.

### `ForgetfulWarden`

`SerialWarden` with a memory of the tables it had (`past`, the mapping's `kept`). `Forget` goes back to one
of them: a request that is not in it has neither rows nor a verdict, and so no request is
forgotten in part, or before one that was served after it. A 404 or 409 is forgotten too, since it was about
tables that may no longer be there. `Sync` gives up the memory. `ImplementsForgetful` says that this is all that
a client can notice of power failures, R4's count over the restored tables included.

### `WardenStream` and the code

`POST /events/webhook/stream` runs the same use case, but not in the handler: the
generator of the response starts a task, reads its progress from a queue and sends it.

| Variable | In the code |
|---|---|
| `stream[s]`, `heard[s]` | the `StreamingResponse` of a request, and what its client has received |
| `task[s]`, `queue[s]` | how far `run()` is, and `queue` |
| `session[s]` | whether `get_session` has been left |
| `conn`, `view`, `db`, `performed` | as in `Warden` |

| Actions | Code |
|---|---|
| `Enter`, `StartSending`, `Deliver` | `events.py:38-43`, `generate()` |
| `Disconnect` | the client goes away: the framework cancels the generator, nobody cancels the task |
| `LeaveSession` | `container.py:75-81`; `run()` lets no exception out, so this is a COMMIT. After a flush that failed it raises `PendingRollbackError` and is rolled back, with the same effect on the rows, which `StoreFails` has already set back |
| `Find` ... `MarkFailed` | `IngestEventUseCase.execute` with `on_progress`, one action per step between progress events |
| `Collect` | a session that is used after its `close()` begins a new transaction; when the task is gone it is garbage collected and the transaction lost |

The use case appears only as its statements, calls and progress events: which
action is decided and whether it fails is left open, and `Act` may or may not have its
effect. A statement of the task and the COMMIT of `get_session` do not overlap;
in the program they may, and then SQLAlchemy raises in one of them, which has the effect
of `StoreFails`. `Collect` needs a SQLAlchemy whose aiosqlite dialect can
terminate a connection that is garbage collected.

With `CommitFirst` the session is closed before the task begins (`StartSending` waits for
`LeaveSession`); the task then begins a transaction of its own, which is lost in `Collect`: the client reads
`done` about an event that is never stored. The runs of the module use the order of FastAPI 0.118 and later.

### `FeedbackLoop` and the code

`Warden` looks at status columns. `FeedbackLoop` looks at texts, and therefore takes a
request that succeeds as one step: `Warden!Exclusive`, which is proved, says that its session has
the connection from its first statement to its COMMIT. A request that fails leaves nothing.

| Variable | In the code |
|---|---|
| `events` | the payloads of the ingested events, in the order of `created_at` |
| `history[i]` | the `workload_history` row of event `i`: outcome, feedback, rejection reason, alternative |
| `approval[i]` | its `approval_requests` row: status and comment |
| `prompt[i]` | the entries that `build_user_prompt` showed to the LLM for event `i` |
| `heardAt[i]` | how many events there were when a human resolved `i` (a history variable, no column) |

| Actions | Code |
|---|---|
| `Remediate`, `Escalate`, `Conflict` | the endings of `IngestEventUseCase.execute`; R4 and the screening leave no automatic branch to some payloads |
| `Approve`, `Reject` | `approval_service.py:35-90`, with `update_outcome` and the texts it falls back to when nothing was written |
| `FindByWorkload`, `BuildPrompt`, `PromptFor` | the ordered, limited query, and the entries in the prompt; a suspicious payload is never shown to the LLM |
| `DedupKeyOf`, `WorkloadKey` | `event.py:35-42` as the text that is hashed |

SHA-256 is taken to be injective. Texts are sequences of characters; the text of a timestamp is one
symbol, because `isoformat()` has a fixed shape. `ConflictsAreDuplicates` has a condition: project and
environment names contain no colon. With a colon in one of them two webhooks can join to the same text
(`a:b` + `c` and `a` + `b:c`); nothing in the schemas excludes that.

## The runs

| Run | Instance | Shows |
|---|---|---|
| `engine` | all events, 0-6 history rows around the limit of 5, a reply of every class, confidences 0, 69, 70, 100 | TypeOK, the decision follows the table, autonomy needs a usable confident answer; `Established` holds at each stage; `DecideOnce` is implemented |
| `engine_fallback` | the same | **violated**: every error of the LLM ends in a decision |
| `core` | 3 webhooks, approvals and rejections, 2 incidents of one production workload (one that the LLM may handle alone and that may also be reported as critical, and a suspicious one), answers `restart` and `rollback`, so that R1, R3 and the screening each decide alone, crashes, failing statements and commits, uncaught exceptions, commit before answer | the thirteen invariants, `IInv`, `EInv` and `SInv` among them, and the refinements of the ledger and of `SerialWarden` |
| `calm` | 3 requests of any kind, reads included, about one incident, answer before commit, uncaught exceptions, fairness | one remediation per incident, every request ends |
| `budget` | 4 webhooks for 4 incidents of one workload, first statements and commits may fail and the pool may time out, answer before commit | at most three automatic decisions per workload, and the refinement of `SerialWarden` with R4 in force |
| `power` | 3 deliveries, approvals and rejections of one incident, an answer below and one above the confidence threshold, crashes, first statements and commits that fail, power failures and checkpoints at any time | what a power failure leaves can be worked on (`PInv`), no resolution is orphaned, a checkpoint is final, and the refinement of `ForgetfulWarden` |
| `redelivery` | as `core` with reads, crash only | **violated**: repeated deliveries have no side effects |
| `failed_mark` | as `core` with reads, uncaught exceptions only | **violated**: failed events are stored as such |
| `stream` | 2 streams with the same webhook, disconnects, exceptions, failed writes and checkouts, fairness | a client that reads to the end was told what is stored; of two deliveries whose clients stay and hear of no error one acts; every stream ends; no session keeps the connection; `IInv` |
| `stream_disconnect` | the same, disconnects only | **violated**: repeated deliveries have no side effects |
| `feedback` | 4 payloads: three incidents of workload (`a`, `aa`), a suspicious one of (`aa`, `a`); humans who write nothing or everything, at most two of them; history limit 1 | feedback is the same in both tables, final, and in every later prompt until it is displaced; a 409 is about the same webhook; `IInv` |
| `feedback_displaced` | the same, any number of humans | **violated**: feedback is in the prompt for the next event |

Bounds. The faults are spread over the runs, each where it can do harm: a crash, a failing statement or COMMIT
and an exception lose the transaction of a handler under way (`core`), a checkout that times out or a first statement that fails only takes a request out of
the queue, with nothing written (`budget`, the latter also in `power`), and `power` undoes what was committed. Reads hold the connection and change nothing: they
are in `calm`, where the question is who waits for whom. The theorems have no such division.

Three requests are enough for the interactions of interest: they are
pairwise (two deliveries, two resolutions) with a third that observes, retries or
resolves (deliver, deliver again, approve). Two incidents show that transactions do not mix. R4
counts up to three, so `budget` has four requests and only webhooks. The rules'
boundaries are covered by `engine`. In `power` three requests are an incident, its resolution, and
either a second delivery that finds the incident forgotten or a second resolution that finds the first undone;
a second incident would only add rows that no failure takes apart; power may fail any number of times. Requests are symmetric in `core` and its
relatives and in `power`; `calm` checks liveness and uses no symmetry.

In `feedback` the number of events is bounded by the number of payloads, since a second
delivery is a conflict. A history limit of 1 makes displacement happen with two incidents, and three let
feedback come before, between and after them. `TwoResolutions`, the only state constraint, stops the
run at the second human: a third resolves an approval that the first two have nothing to do with, since each
resolution touches the rows of one event. The properties of that run are safety properties, which a constraint cannot make true by
cutting off a cycle. The two workloads consist of the same letters, so
that a key which ran its fields together would confuse them.

Deadlock is checked in every run; a state in which every request was served or
lost is an explicit stuttering step (`Quiescent`, `Finished`); in `FeedbackLoop` a webhook can always be
delivered again.

Two streams are enough: a third could only wait behind the one that has the connection, and
a payload of another incident only removes the `duplicate` ending.

Fairness. `FairSpec` is weak fairness of every request's next step. The event
loop runs every ready task, and everything that a task awaits ends: the HTTP client
has a timeout of 30 s, the OpenAI client one of 15 s, SQLite statements end.
Nothing makes a client send (`Arrive`) or a fault happen. Weak fairness suffices for
a waiting request too because no more than the finite number of other requests
can get the connection before it. In `WardenStream` the task, the generator and the
exit of `get_session` are each weakly fair, since all three are coroutines of the event loop; so is
`Collect`, since the interpreter collects unreachable objects. A client need not disconnect.

## The proofs

The theorems hold for every value of the constants that the named assumptions admit: any finite
set of requests, any keys, workloads, payloads, LLM answers and faults, either order of commit and
answer, any history limit. Where a theorem needs more, its statement says so.

| Module | Theorems |
|---|---|
| `WardenSafetyProofs` | `TypeCorrect`, `InductiveInvariant` (`IInv`), `RecordsAlwaysAgree`, `SavesNeverCollide`, `DuplicatesNameDurableEvents` |
| `WardenGuaranteesProofs` | `EffectsInvariant` (`EInv`), `AutonomyIsSafe`, `IncidentCountStaysFresh`, `PagesPrecedePending`, `R4BoundsAutonomy`, `RecordsVouch`, `RemediationsAreRecordedOnce`, `OnlyLossesRepeat`, `AnswersAreKept`, `OneHumanResolves`, `IncidentsAreRemediatedOnce` |
| `WardenRefinementProofs` | `WardenImplementsLedger`, `WorkIsSerial` (`SInv`), `WardenIsSerializable` |
| `WardenPowerProofs` | `PowerInvariant` (`PInv`), `PowerLeavesNoOrphans`, `RecordsAgreeAfterPowerFailure`, `RecordsVouchAfterPowerFailure`, `RecordedOnceAfterPowerFailure`, `OnlyLossesRepeatAfterPowerFailure`, `CheckpointsAreFinal`, `WardenForgetsWhole` |
| `ReasoningEngineProofs` | `EngineTypeCorrect`, `EngineInvariant`, `DecisionsFollowTable`, `AutonomyRestsOnEvidence`, `EngineDecidesAtOnce` |
| `FeedbackLoopProofs` | `FeedbackInvariant`, `FeedbackTypeCorrect`, `TablesAgree`, `FeedbackIsShown`, `DuplicatesAreReal`, `FeedbackStays` |
| `WardenStreamProofs` | `StreamTypeCorrect`, `StreamInvariant`, `StreamsTellTheTruth`, `StreamsActOncePerKey` |

**`IInv` of `Warden`.** `RecordsAgree` speaks of committed rows, but a COMMIT copies whatever
the connection sees. So the argument is about the holder of the connection:
`Exclusive` ties the connection to the phase of the one handler that is under way;
`TransactionIsLocal` says that only that handler's event differs between `view` and `db`;
`HandlerProgress` says, phase by phase, what its row looks like, and that at
the COMMIT it is settled; `RowsAreSound` and `KeysAreUnique` carry the dedup key from the check to the
insert. A step then either leaves the rows alone, writes the holder's row, inserts one, discards
or commits; the proof has one lemma for each of these and one step per action.

`SavesNeverCollide` is worth a remark: the repository's README plans for two
concurrent webhooks that collide in `UNIQUE(dedup_key)`. In one process with
the file database they cannot, because a session keeps the only connection from the check
to the insert. With several processes, or with an engine that has more
connections, the theorem's model does not apply.

**`EInv` of `Warden`** relates rows to what happened outside the tables. The orchestrator's
effects survive a rollback, so no row can be tied to `performed` without saying which request
wrote it and committed: `RowsHaveAuthors` does, `HolderKnows` says the same of the row that is about to be
committed, `ActsOnce` of the call before the row is written. `R4Holds` carries the count from the
query to the COMMIT, `AnswersFollowCommits` the order of commit and answer. `EInv` is inductive
relative to `IInv` (the step lemmas assume both). `AnswersAreKept` and `OneHumanResolves` are stated
under `AnswersAreFinal`: the commit comes first, or nothing that comes after the answer can lose the
transaction. Without it they are false, as *Seen and not counted* describes.
`IncidentsAreRemediatedOnce` is stated under `NothingIsLost`, without which `redelivery` refutes it: then
`EffectsCommit` is invariant too (who has acted commits, or is about to), and who is about to
found the row new or pending, so that nobody before it had acted.

`OnlyLossesRepeat` (`RepeatsFollowLosses`) says how far the promise that repeated deliveries have no side effects,
which `redelivery` refutes, does hold: under every fault, and with either order of commit and answer, two requests act on one
incident only if the transaction of one of them was lost, and a request that acted beside a rejection on record was itself
lost. A request that acted and is not forgotten is either durable, and then `RowsHaveAuthors` ties it to the row of
the incident, or it is the one that has the connection, and then `HolderKnows` and `ActsOnce` say that it found
the row new or pending: in both cases there is no room for a second one. `IncidentsAreRemediatedOnce` is the case in which nothing is
ever forgotten. `RecordedOnce`, of the requests on record, and `PagedBeforePending` follow from `IInv` and `EInv`
alone; the runs check these two, which are stronger, and not their consequences.

**The refinement of the ledger.** By `IInv` and `EInv`, a COMMIT changes the rows of one event, and what it
changes is an entry or the resolution of a pending approval; every other step leaves `IncidentStates`
as it is. `CommittedIsOne` removes the CHOOSE from the mapping. The budget needs a
counting argument: the incidents of a workload on record map injectively into the entries R4 counted
(`WithinBudget`).

**Serializability.** Only a COMMIT writes `db`, and only after a handler has run through many phases.
`SInv` says, phase by phase, that what the holder has decided and written is what
`SerialWarden` could do in one step on the rows that are committed *now*: `Decides` with
the incidents now on record, a row out of `Ingested` or `Resolved`. It stays so because nobody else can
commit while the connection is held (`Exclusive`), and the count that R4 used is still the
count (`R4Holds`). A COMMIT then maps to one step of the abstract API, a statement that finds a
conflict to one that says so, and every other step of Warden, each fault included, to a stutter: of a request that
is lost nothing was ever served. `ConnectionShared`, a pool of more than one connection, breaks it.

**Power failures.** That `IInv` and `EInv` hold after a failure is a claim about tables of the past,
in a world where the requests have gone on. So `PInv` carries for every member of `kept` what the two
invariants need of rows (`Sound`): they are settled, have authors among their own transactions, keys are
unique, every transaction in them shows in its row, R4's bound holds. A COMMIT adds a sound
member because `IInv` and `EInv` hold of the rows it commits; all later steps keep it sound, since `call` does
not change and `performed`, `paged` and `durable` only grow; and from a sound member a server without requests
in flight satisfies both invariants again. `PInv` also holds `SInv`, and says that what is committed now is among the kept.

`WardenForgetsWhole` rests on that: a step of Warden, by the argument of `WardenIsSerializable`, is one of
`SerialWarden` or a stutter, and `kept` gains what the abstract `past` gains, or what it has already
(`Current \in kept`); `Checkpoint` is `Sync`; `PowerFailure` is `Forget`, because the requests with the verdict `ok` are exactly
the durable ones (`ServedAreDurable`), and none of those was refused before (`CommittedWasServed`).
`CheckpointsAreFinal`: a request in every member of `kept` is in every one that a later step keeps, and `Sound` has
its effect shown in the rows of each.

What does not survive is said just as clearly by what the
theorems leave out: an answer that was given may be undone (`AckedIsDurable`), two humans may both resolve
one approval (`OneResolution`), and an incident may be remediated once per failure (`PerformedOnce`). What is
*on record* never says so: `RecordedOnce` holds throughout, and `OnlyLossesRepeatAfterPowerFailure` says that of two
requests that acted on one incident one was lost.

**The engine.** `Established` lists what is known at each stage; with `TypeOK` it is inductive.
At the end it says that the code's own rules were applied (`EstablishedDecides`); `RulesAreTheTable` says, rule by
rule, that these restrict what the independent table restricts, from which `DecisionsFollowTable` follows.
`DecidesAtOnce` is about the stages, not the rules, and has the same rules on both sides.
For `EngineDecidesAtOnce` the last rule's step maps to `Decide`, with the answer that `Established` remembers as
`Understood`, the stages before it to stutters, and an exception of the client to `Raise`.
`AutonomyRestsOnEvidence` needs a history limit of at least 3: below that, R4 never fires.

**The feedback loop.** `IInv` adds to the properties that keys are unique and that exactly the
resolved approvals were heard. For `DuplicatesAreReal` the joined text is cut again, at its first colon, then
the next: names without a colon can be recovered one after the other, and the signal is what is left
before the timestamp.

**The stream.** What a client was told is a claim about its own row. `TransactionIsLocal` keeps
other tasks away from the row, `SessionOutlivesTask` keeps the session and the connection with the task as long as
the client is there, `RowIsKept` says what the row is between two steps, `ProgressIsTrue` that what was said,
on the queue or already heard, fits it; `EndIsLast` makes what was heard all that was said. It is
stated for `CommitFirst = FALSE`; for the other order the property is false (see *Seen and not counted*), while
`StreamTypeCorrect` holds for both.

`StreamsActOncePerKey` adds `ActorsHaveRows`, inductive relative to `IInv` under every fault: a task that has
saved its event works on a row that is there, a key has one row, also in what is not committed, and the row of
who acted stays until its client leaves or an error is put on its queue. Without those two exceptions the property is
what `stream_disconnect` refutes.

Only model-checked: liveness (`EveryRequestEnds`, `EveryStreamEnds`, `ConnectionComesBack`), which
rests on fairness and ENABLED and is out of the prover's reach. Every other property of the passing runs is a theorem.
`ImplementsLedger`, `ImplementsSerial`, `ImplementsForgetful` and `DecidesAtOnce` are proved as theorems about `Spec`,
without fairness, as the abstract specifications have none.

## Findings

1. `engine_fallback`: an LLM answer without choices, or a client error other than
   the three that are caught, ends the webhook with a 500 and no decision, while the
   README promises `notify_human` for every error.
2. `redelivery`: the action is carried out before the COMMIT; after a crash between the two
   the next delivery acts again, while the README promises that repeated deliveries
   have no side effects. `calm` shows that this takes a lost transaction.
3. `failed_mark`: the status FAILED never survives the rollback of `get_session`.
4. `stream_disconnect`: a client that disconnects from the SSE endpoint before the event is
   saved leaves a task that acts and whose records are lost; the next delivery acts again. No
   crash is needed.
5. `feedback_displaced`: the history is ordered and limited by the age of the incident, and a
   resolution does not make it younger. Feedback about an incident that newer ones have displaced from the
   prompt never reaches the LLM, while the README (line 180) says that the LLM receives it in the next event of the
   workload. `feedback` shows what holds: it does, within the history limit.

Seen and not counted as findings: a page that fails is only logged, so a pending
approval may be unknown to on-call (`PagesComeFirst`, a part of `EInv`, says that the call was
made); a failed approved action cannot be approved again; the decision of a
rejected approval stays `pending_approval`; with the answer sent before the COMMIT, a
COMMIT that fails loses an acknowledged request; with a FastAPI below 0.118, which `pyproject.toml` admits,
a stream says `done` about an event that is never committed (TLC finds it in the instance of `stream` with
`CommitFirst = TRUE` and no faults, as a violation of `StreamTellsTheTruth`); three entries of any age and outcome in the history
end the autonomy of a workload for good;
the repository's README says that WAL gives reads that do not block writes, while in this
process a read waits for the same one connection.

## Not modelled

- The mock LLM, orchestrator and notifier and the demo script: stand-ins and a client,
  whose answers and requests are among those the models admit.
- The wording of the prompts, the keywords of the screening, the conversions of pydantic: abstracted to
  what the code tests of them.
- The answer 422 and serialisation: no state.
- `GET /events`, `GET /approvals`, `GET /approvals/{id}`: reads with the life cycle of `GetEvent`.
- The length of the pool's timeout: that it runs out is a fault which may happen at any time
  a request waits.
- What a power failure does to the file itself: that SQLite recovers the tables of an earlier COMMIT is taken
  from its documentation (`WardenPower`). Streams and the feedback texts are not combined with power failures.
- Plain webhooks and streams on one set of tables: each endpoint has a module of its own. What `Warden` says of the
  tables (`RecordsAgree` above all) is said of the plain webhook, approve and reject. The stream shares the tables, and a
  stream that fails or whose client leaves commits failed or half-processed rows, which `WardenStream` models.
- Whether a recorded failure was one: after a timeout the orchestrator may have acted and the record says `failed`
  (`OrchestratorReplies`). `ExecutedMeansPerformed` is about the other direction; no code could establish this one.
- Several processes, or another database than the SQLite file: the code is written for one.
- Logging, health, settings (those that matter are constants), the in-memory engine of the tests.

What could still be added: the pool's timeout as a clock, with the time the LLM takes; the effects of
the orchestrator as part of an abstract specification, with the requests that may lose them; the stream
as an implementation of the webhook in `SerialWarden`; the feedback texts under power failures.

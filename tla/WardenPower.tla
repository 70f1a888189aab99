----------------------------- MODULE WardenPower -----------------------------
(***************************************************************************)
(* Warden on a host that can lose power.  init_db runs SQLite in WAL mode  *)
(* with synchronous=NORMAL: a COMMIT is not synced to the disk, only a     *)
(* checkpoint is, so a power failure may undo the last commits, whatever   *)
(* their clients were told.  SQLite promises no more than that what is     *)
(* left is what the tables held after one of the commits since the last    *)
(* checkpoint.  A crash of the process alone (Crash) loses no commit.      *)
(***************************************************************************)
EXTENDS WardenSerial

VARIABLE kept    \* what a power failure may leave on the disk

powerVars == <<vars, kept>>

\* What is committed now: the rows, and the requests that wrote them.
Current == [rows |-> db, durable |-> durable]

PowerInit == Init /\ kept = {Current}

\* Mutant of Keep: rows of one commit, with the transactions of another.
KeepTorn == kept' = kept \cup {[rows |-> db', durable |-> durable]}

Keep == kept' = kept \cup {Current'}

\* Any step of Warden, each commit of which the disk may remember.
WardenStep == Next /\ Keep

\* SQLite moves the WAL to the database file and syncs both.
Checkpoint ==
    /\ kept' = {Current}
    /\ UNCHANGED vars

\* The host goes down and comes back with the rows of `left`.  Of a request that
\* is not in them nothing is left in the server: it counts as lost, and what it
\* made the orchestrator and the on-call service do is done.
PowerFailure ==
    \E left \in kept :
        /\ db' = left.rows
        /\ view' = left.rows
        /\ durable' = left.durable
        /\ kept' = {left}
        /\ conn' = NoReq
        /\ mem' = [r \in Req |-> NoMem]
        /\ pc' = [r \in Req |-> IF pc[r] = "idle" \/ (pc[r] = "done" /\ r \in left.durable)
                                THEN pc[r] ELSE "lost"]
        /\ outcome' = [r \in Req |-> IF r \in left.durable THEN outcome[r] ELSE NoOutcome]
        /\ UNCHANGED <<call, performed, paged>>

PowerNext == WardenStep \/ Checkpoint \/ PowerFailure

PowerSpec == PowerInit /\ [][PowerNext]_powerVars
-----------------------------------------------------------------------------
\* A power failure that undoes an ingestion undoes the approval or rejection of
\* its event too: no resolution is on record for an event that is not, or that
\* another request resolved.
NoOrphans ==
    \A r \in durable : Resolving(r) =>
        /\ db[Subject(r)].event = "processed" /\ Subject(r) \in durable
        /\ db[Subject(r)].approval = IF call[r].kind = "approve" THEN "approved" ELSE "rejected"

Forgetful == INSTANCE ForgetfulWarden WITH table <- db, verdict <- Verdicts, past <- kept

\* To its clients, a Warden whose host loses power is an API that serves one request
\* at a time and now and then forgets the last ones, each as a whole.
ImplementsForgetful == Forgetful!ForgetfulSpec

\* A request whose commit is in a checkpoint is in all that the disk may go back to,
\* and no later failure takes it out of there, or its effect out of the tables.
Synced(r) == \A left \in kept : r \in left.durable
SyncedStays == [][\A r \in Req : Synced(r) => Synced(r)' /\ Effect(r, db[Subject(r)])']_powerVars

-----------------------------------------------------------------------------
(* The inductive invariant *)

\* Rows that the server can go on with, and the requests that wrote them.
Sound(left) ==
    /\ left \in [rows : [Req -> Rows], durable : SUBSET durable]
    /\ \A e \in Req : left.rows[e] # NoRow =>
          /\ SettledRow(left.rows[e])
          /\ call[e].kind = "ingest" /\ e \in left.durable
          /\ left.rows[e].approval = "pending" => paged[e] # "none"
          /\ left.rows[e].approval = "approved" =>
                \E r \in left.durable : call[r].kind = "approve" /\ Subject(r) = e
    /\ \A e, f \in Req : left.rows[e] # NoRow /\ left.rows[f] # NoRow /\ KeyOf(e) = KeyOf(f) => e = f
    /\ \A r \in left.durable : Effect(r, left.rows[Subject(r)])
    /\ HistoryLimit >= HighIncidentThreshold =>
          \A w \in Workloads : Cardinality(AutoRows(left.rows, w)) <= HighIncidentThreshold

\* Everything the disk may remember is sound, and stays it.
KeptIsSound == \A left \in kept : Sound(left)

\* A request whose transaction is committed was not refused.
CommittedWasServed == \A r \in durable : outcome[r].code \notin Conflicts

PInv == IInv /\ EInv /\ SInv /\ CommittedWasServed /\ KeptIsSound /\ Current \in kept
=============================================================================

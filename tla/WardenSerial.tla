----------------------------- MODULE WardenSerial -----------------------------
(***************************************************************************)
(* The committed rows and the verdicts of Warden read as a SerialWarden.   *)
(* A request is served when it commits, or when the statement that finds a *)
(* conflict runs: from then on what it says of the tables is settled.      *)
(***************************************************************************)
EXTENDS WardenEffects

Conflicts == {"duplicate", "not_found", "resolved"}

Verdicts == [r \in Req |->
    IF r \in durable THEN [code |-> "ok", event |-> Subject(r)]
    ELSE IF outcome[r].code \in Conflicts THEN outcome[r]
    ELSE NoOutcome]

Serial == INSTANCE SerialWarden WITH table <- db, verdict <- Verdicts

\* The API is serializable in the order of commits, whatever requests wait,
\* interleave, fail or are lost: every row that is committed is one that a single
\* request, run on its own from the rows committed before, could write, with R4
\* counting the incidents then on record; every 404 and 409 is what such a
\* request would be told.
ImplementsSerial == Serial!Spec
-----------------------------------------------------------------------------
(* The invariant behind it, inductive relative to IInv and EInv *)

\* What the holder has decided or written is what a request alone would have.
Explained(r) ==
    /\ pc[r] = "decided" => Serial!Decides(r, mem[r].action, mem[r].auto)
    /\ pc[r] \in {"requested", "notified"} => Serial!Decides(r, mem[r].action, FALSE)
    /\ pc[r] = "executed" =>
          /\ call[r].kind = "ingest" => Serial!Decides(r, mem[r].action, TRUE)
          /\ mem[r].success \in Serial!Results(mem[r].action)
    /\ pc[r] \in {"validated", "executed"} /\ Resolving(r) => view = db
    /\ pc[r] \in {"returning", "answered"} =>
          LET row == view[Subject(r)]
          IN  /\ call[r].kind = "ingest" => \E action \in Actions : row \in Serial!Ingested(r, action)
              /\ Resolving(r) => row \in Serial!Resolved(r, db[Subject(r)])
              /\ call[r].kind = "read" => row.event # "absent"

\* A conflict ends the handler.
ConflictsEnd == \A r \in Req : outcome[r].code \in Conflicts => pc[r] \in {"raising", "done", "lost"}

\* Every reachable state satisfies it, and every step keeps it: the work in flight
\* is always that of one request run alone on the committed rows.
SInv == (\A r \in Req : conn = r => Explained(r)) /\ ConflictsEnd
=============================================================================

------------------------------ MODULE DecideOnce ------------------------------
(***************************************************************************)
(* What ingestion relies on when it awaits ReasoningEngineService.decide:  *)
(* one step, after which there is a decision that the restrictions allow   *)
(* or an exception.  It is the Decide of Warden, and the part of its       *)
(* ProcessingRaises that comes from the LLM client.                        *)
(***************************************************************************)
EXTENDS Restrictions

CONSTANTS
    LLMAnswers,      \* raw decisions the LLM may return
    HistoryLimit     \* history entries that a decision loads at most

VARIABLES
    event,       \* what is to be decided: [severity, prod, suspicious]
    rows,        \* history rows of its workload
    decision     \* what the caller got: [ending, action, auto]

NoDecision(ending) == [ending |-> ending, action |-> "none", auto |-> FALSE]
Awaited == NoDecision("none")

Init == decision = Awaited

Decide ==
    /\ decision = Awaited
    /\ \E raw \in IF event.suspicious THEN {Fallback} ELSE LLMAnswers \cup {Fallback} :
          decision' = [ending |-> "decided", action |-> raw.action,
                       auto |-> SafeToAuto(event.severity, event.prod, raw,
                                           Limited(rows, HistoryLimit))]
    /\ UNCHANGED <<event, rows>>

\* A payload that is not shown to the LLM cannot make its client raise.
Raise ==
    /\ decision = Awaited
    /\ ~event.suspicious
    /\ decision' = NoDecision("raised")
    /\ UNCHANGED <<event, rows>>

Spec == Init /\ [][Decide \/ Raise]_<<event, rows, decision>>
=============================================================================

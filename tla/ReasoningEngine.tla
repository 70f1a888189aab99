-------------------------- MODULE ReasoningEngine --------------------------
(***************************************************************************)
(* One call of ReasoningEngineService.decide with the OpenAI adapter: load *)
(* the history, screen the payload, ask the LLM, parse what it answers,    *)
(* fall back, apply the four restrictions in the order of the code.        *)
(*                                                                         *)
(* A reply is abstracted to what the adapter tests of it: how the call     *)
(* ended, whether the content (without fences) is JSON, how its fields fit *)
(* _LLMResponse, the values they are converted to, and whether the         *)
(* reasoning has ten characters.                                           *)
(***************************************************************************)
EXTENDS Restrictions

CONSTANTS
    Events,         \* [severity, prod, suspicious]
    Replies,        \* what the OpenAI call may come back with
    MaxRows,        \* bound on the workload_history rows of the workload
    HistoryLimit    \* WORKLOAD_HISTORY_LIMIT

\* "content": a completion with at least one choice.  "unreachable" and
\* "status_error" are the exceptions the adapter catches; the others it does not.
Endings == {"content", "no_choice", "unreachable", "status_error", "other_error"}

\* How the fields fit the schema: of the declared types, of types that pydantic
\* converts to them ("true" for a bool, "0.9" for a float), or not at all.
Fits == {"exact", "convertible", "invalid"}

AllReplies == [ending : Endings, json : BOOLEAN, fit : Fits, raw : RawDecisions,
               reasoned : BOOLEAN]

ASSUME EngineAssumption ==
    /\ Events \subseteq [severity : Severities, prod : BOOLEAN, suspicious : BOOLEAN]
    /\ Replies \subseteq AllReplies
    /\ MaxRows \in Nat
    /\ HistoryLimit \in Nat

VARIABLES
    event, rows, reply,         \* the inputs
    stage,                      \* how far decide() is
    seen,                       \* len(history)
    raw,                        \* the raw decision the restrictions read
    safe, restrictions          \* locals of _apply_restrictions

inputs == <<event, rows, reply>>
vars == <<event, rows, reply, stage, seen, raw, safe, restrictions>>

Stages == {"start", "loaded", "asking", "parsing", "validating", "reading", "raw",
           "R1", "R2", "R3", "R4", "decided", "raised"}

Init ==
    /\ event \in Events
    /\ rows \in 0..MaxRows
    /\ reply \in Replies
    /\ stage = "start"
    /\ seen = 0
    /\ raw = Fallback
    /\ safe = FALSE
    /\ restrictions = {}

\* Mutant of LoadHistory: the query has no LIMIT.
LoadHistoryUnlimited ==
    /\ stage = "start"
    /\ seen' = rows
    /\ stage' = "loaded"
    /\ UNCHANGED <<inputs, raw, safe, restrictions>>

LoadHistory ==
    /\ stage = "start"
    /\ seen' = Limited(rows, HistoryLimit)
    /\ stage' = "loaded"
    /\ UNCHANGED <<inputs, raw, safe, restrictions>>

UseRaw(decision) ==
    /\ raw' = decision
    /\ stage' = "raw"
    /\ UNCHANGED <<inputs, seen, safe, restrictions>>

GoOn(from, to) ==
    /\ stage = from
    /\ stage' = to
    /\ UNCHANGED <<inputs, seen, raw, safe, restrictions>>

\* Mutant of DetectInjection: every payload is shown to the LLM.
DetectNothing == GoOn("loaded", "asking")

DetectInjection ==
    \/ event.suspicious /\ stage = "loaded" /\ UseRaw(Fallback)
    \/ ~event.suspicious /\ GoOn("loaded", "asking")

\* OpenAIClient.reason; LLMUnavailableError is caught by _reason_with_fallback.
Ask ==
    \/ reply.ending = "content" /\ GoOn("asking", "parsing")
    \/ reply.ending \in {"unreachable", "status_error"} /\ stage = "asking" /\ UseRaw(Fallback)
    \/ reply.ending \in {"no_choice", "other_error"} /\ GoOn("asking", "raised")

\* The three places where _parse raises LLMResponseMalformedError.
ParseJSON ==
    \/ reply.json /\ GoOn("parsing", "validating")
    \/ ~reply.json /\ stage = "parsing" /\ UseRaw(Fallback)

ValidateSchema ==
    \/ reply.fit # "invalid" /\ GoOn("validating", "reading")
    \/ reply.fit = "invalid" /\ stage = "validating" /\ UseRaw(Fallback)

\* Mutant of ReadReasoning: the length of the reasoning is not tested.
ReadReasoningUnchecked ==
    /\ stage = "reading"
    /\ UseRaw(reply.raw)

ReadReasoning ==
    /\ stage = "reading"
    /\ UseRaw(IF reply.reasoned THEN reply.raw ELSE Fallback)

StartRestrictions ==
    /\ stage = "raw"
    /\ safe' = raw.safe
    /\ restrictions' = {}
    /\ stage' = "R1"
    /\ UNCHANGED <<inputs, seen, raw>>

NextStage == [R1 |-> "R2", R2 |-> "R3", R3 |-> "R4", R4 |-> "decided"]

\* Mutant of Restrict: elif instead of if, so that the first rule hides the others.
RestrictFirst(rule) ==
    /\ stage = rule
    /\ stage' = NextStage[rule]
    /\ IF restrictions = {} /\ Fires(rule, event.severity, event.prod, raw, seen)
       THEN safe' = FALSE /\ restrictions' = restrictions \cup {rule}
       ELSE UNCHANGED <<safe, restrictions>>
    /\ UNCHANGED <<inputs, seen, raw>>

\* One if statement of _apply_restrictions.
Restrict(rule) ==
    /\ stage = rule
    /\ stage' = NextStage[rule]
    /\ IF Fires(rule, event.severity, event.prod, raw, seen)
       THEN safe' = FALSE /\ restrictions' = restrictions \cup {rule}
       ELSE UNCHANGED <<safe, restrictions>>
    /\ UNCHANGED <<inputs, seen, raw>>

Finished == stage \in {"decided", "raised"} /\ UNCHANGED vars

Next ==
    \/ LoadHistory \/ DetectInjection
    \/ Ask \/ ParseJSON \/ ValidateSchema \/ ReadReasoning
    \/ StartRestrictions \/ \E rule \in Rules : Restrict(rule)
    \/ Finished

Spec == Init /\ [][Next]_vars
-----------------------------------------------------------------------------
\* Every variable stays in the range the code gives it.
TypeOK ==
    /\ event \in Events /\ rows \in 0..MaxRows /\ reply \in Replies
    /\ stage \in Stages
    /\ seen \in 0..HistoryLimit
    /\ raw \in RawDecisions
    /\ safe \in BOOLEAN
    /\ restrictions \subseteq Rules

\* What the event and the reply amount to, as the README's table has it: a
\* payload that is suspicious or an answer that is not usable is notify_human with
\* confidence 0.
Usable == reply.ending = "content" /\ reply.json /\ reply.fit # "invalid" /\ reply.reasoned
Understood == IF Usable /\ ~event.suspicious THEN reply.raw ELSE Fallback

\* The rows of the README's table that apply, with its own numbers, to what the event
\* and the reply amount to.  Its recent history is what is on record within the limit.
TableRows ==
    {rule \in {"R1", "R2", "R3", "R4"} :
        CASE rule = "R1" -> event.severity \notin {"low", "medium", "high"}
          [] rule = "R2" -> Understood.confidence \notin 70..100
          [] rule = "R3" -> event.prod /\ Understood.action \in {"rollback", "scale_up"}
          [] rule = "R4" -> rows >= 3 /\ HistoryLimit >= 3}

\* The decision is automatic exactly if the LLM says so and no row of the README's
\* table applies, and restrictions_applied names exactly the rows that apply: the
\* comparisons of the code, the limited query and one statement per rule amount to it.
DecisionFollowsTable ==
    stage = "decided" =>
        /\ raw = Understood
        /\ safe = (Understood.safe /\ TableRows = {})
        /\ restrictions = TableRows

\* An automatic decision goes back to a usable answer to a payload that is not
\* suspicious, that claims to be safe with a confidence of at least 0.7, about an
\* event that is not critical, for a workload with fewer than three incidents.
AutonomyNeedsEvidence ==
    stage = "decided" /\ safe =>
        /\ Usable /\ reply.raw.safe /\ reply.raw.confidence >= 70
        /\ ~event.suspicious /\ event.severity # "critical"
        /\ rows < 3
        /\ event.prod => reply.raw.action \notin {"rollback", "scale_up"}

\* The rules that have been tested when decide() is at a stage.
Tested == [R1 |-> {}, R2 |-> {"R1"}, R3 |-> {"R1", "R2"}, R4 |-> Rules \ {"R4"}, decided |-> Rules]

\* Behind the two properties, and inductive with TypeOK: what decide() has
\* established at each stage.
Established ==
    /\ stage # "start" => seen = Limited(rows, HistoryLimit)
    /\ stage \in {"asking", "parsing", "validating", "reading"} => ~event.suspicious
    /\ stage \in {"parsing", "validating", "reading"} => reply.ending = "content"
    /\ stage \in {"validating", "reading"} => reply.json
    /\ stage = "reading" => reply.fit # "invalid"
    /\ stage \in {"raw"} \cup DOMAIN Tested => raw = Understood
    /\ stage \in DOMAIN Tested =>
          /\ restrictions =
                RestrictionsApplied(event.severity, event.prod, raw, seen) \cap Tested[stage]
          /\ safe = (raw.safe /\ restrictions = {})

\* The stages of decide() as the caller sees them: nothing until it ends.
Decision ==
    IF stage = "decided" THEN [ending |-> "decided", action |-> raw.action, auto |-> safe]
    ELSE [ending |-> IF stage = "raised" THEN "raised" ELSE "none", action |-> "none", auto |-> FALSE]

\* Raw decisions that a completion can hold.
Answers == {r.raw : r \in {answer \in Replies : answer.ending = "content"}}

Atomic == INSTANCE DecideOnce WITH LLMAnswers <- Answers, decision <- Decision

\* To ingestion the stages of decide() are one step, with the answers, the
\* fallback and the exceptions that Warden gives it: an answer that is thrown away
\* half-parsed, or a rule tested on its own, never shows in the decision.
DecidesAtOnce == Atomic!Spec

\* README: "ante cualquier error del LLM, la decision es notify_human ... El
\* sistema nunca se queda sin respuesta": decide() never ends with an exception.
AlwaysDecides == stage # "raised"
=============================================================================

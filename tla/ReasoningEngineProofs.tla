------------------------ MODULE ReasoningEngineProofs ------------------------
(***************************************************************************)
(* decide() follows the README's table for every event, reply, number of   *)
(* history rows and history limit; automatic decisions rest on evidence    *)
(* once the limit lets R4 see three incidents.                             *)
(***************************************************************************)
EXTENDS ReasoningEngine, TLAPS

\* Every variable but the ones that a step of decide() sets.
LEMMA InputsStay ==
    ASSUME [Next]_vars
    PROVE  inputs' = inputs
  BY DEF Next, LoadHistory, DetectInjection, Ask, ParseJSON, ValidateSchema, ReadReasoning, UseRaw,
         GoOn, StartRestrictions, Restrict, Finished, inputs, vars

LEMMA FallbackIsRaw == Fallback \in RawDecisions
  BY DEF Fallback, RawDecisions, Actions, Confidences

\* decide() counts no more entries than the query returns.
LEMMA LimitedIsBounded ==
    ASSUME NEW n \in Nat, NEW limit \in Nat
    PROVE  Limited(n, limit) \in 0..limit
  BY DEF Limited

\* A stage of the restrictions tests one rule, and moves to the next stage.
LEMMA RuleIsTested ==
    ASSUME NEW rule \in Rules
    PROVE  /\ rule \in DOMAIN Tested /\ NextStage[rule] \in DOMAIN Tested /\ NextStage[rule] \in Stages
           /\ rule \notin Tested[rule]
           /\ Tested[NextStage[rule]] = Tested[rule] \cup {rule}
           /\ NextStage[rule] # "start"
  <1>1. DOMAIN Tested = {"R1", "R2", "R3", "R4", "decided"}
    BY DEF Tested
  <1>2. /\ Tested["R1"] = {} /\ Tested["R2"] = {"R1"} /\ Tested["R3"] = {"R1", "R2"}
        /\ Tested["R4"] = {"R1", "R2", "R3"} /\ Tested["decided"] = {"R1", "R2", "R3", "R4"}
    BY DEF Tested, Rules
  <1>3. /\ NextStage["R1"] = "R2" /\ NextStage["R2"] = "R3" /\ NextStage["R3"] = "R4"
        /\ NextStage["R4"] = "decided"
    BY DEF NextStage
  <1>4. CASE rule = "R1"
    BY <1>1, <1>2, <1>3, <1>4 DEF Stages
  <1>5. CASE rule = "R2"
    BY <1>1, <1>2, <1>3, <1>5 DEF Stages
  <1>6. CASE rule = "R3"
    BY <1>1, <1>2, <1>3, <1>6 DEF Stages
  <1>7. CASE rule = "R4"
    BY <1>1, <1>2, <1>3, <1>7 DEF Stages
  <1> QED
    BY <1>4, <1>5, <1>6, <1>7 DEF Rules

LEMMA InitTyped == Init => TypeOK
  <1>1. 0 \in 0..HistoryLimit
    BY EngineAssumption
  <1> QED
    BY <1>1, FallbackIsRaw DEF Init, TypeOK, Stages

LEMMA StepTyped ==
    ASSUME TypeOK, [Next]_vars
    PROVE  TypeOK'
  <1>0. event' \in Events /\ rows' \in 0..MaxRows /\ reply' \in Replies
    BY InputsStay DEF TypeOK, inputs
  <1>1. ASSUME NEW decision \in RawDecisions, UseRaw(decision) PROVE TypeOK'
    BY <1>0, <1>1 DEF TypeOK, UseRaw, Stages
  <1>2. ASSUME NEW from, NEW to \in Stages, GoOn(from, to) PROVE TypeOK'
    BY <1>0, <1>2 DEF TypeOK, GoOn
  <1>3. reply.raw \in RawDecisions
    BY EngineAssumption DEF TypeOK, AllReplies
  <1>4. CASE LoadHistory
    <2>1. rows \in Nat /\ Limited(rows, HistoryLimit) \in 0..HistoryLimit
      BY EngineAssumption, LimitedIsBounded DEF TypeOK
    <2> QED
      BY <1>0, <1>4, <2>1 DEF LoadHistory, TypeOK, Stages
  <1>5. CASE DetectInjection \/ Ask \/ ParseJSON \/ ValidateSchema \/ ReadReasoning
    <2>1. \/ UseRaw(Fallback) \/ UseRaw(reply.raw)
          \/ \E from \in Stages, to \in Stages : GoOn(from, to)
      BY <1>5 DEF DetectInjection, Ask, ParseJSON, ValidateSchema, ReadReasoning, Stages
    <2> QED
      BY <1>1, <1>2, <1>3, <2>1, FallbackIsRaw
  <1>6. CASE StartRestrictions
    <2>1. raw.safe \in BOOLEAN
      BY DEF TypeOK, RawDecisions
    <2> QED
      BY <1>0, <1>6, <2>1 DEF StartRestrictions, TypeOK, Stages
  <1>7. ASSUME NEW rule \in Rules, Restrict(rule) PROVE TypeOK'
    BY <1>0, <1>7, RuleIsTested DEF Restrict, TypeOK
  <1>8. CASE Finished \/ UNCHANGED vars
    BY <1>8 DEF Finished, vars, TypeOK
  <1> QED
    BY <1>4, <1>5, <1>6, <1>7, <1>8 DEF Next
-----------------------------------------------------------------------------
\* A raw decision that is used is what the event and the reply amount to.
LEMMA RawIsUnderstood ==
    ASSUME Established, inputs' = inputs, NEW decision, decision = Understood, UseRaw(decision),
           stage # "start"
    PROVE  Established'
  <1>1. Understood' = Understood
    BY DEF inputs, Understood, Usable
  <1>2. stage' = "raw" /\ raw' = decision /\ seen' = seen /\ "raw" \notin DOMAIN Tested
    BY DEF UseRaw, Tested
  <1> QED
    BY <1>1, <1>2 DEF Established, inputs

LEMMA StepEstablishes ==
    ASSUME TypeOK, Established, [Next]_vars
    PROVE  Established'
  <1>0. inputs' = inputs /\ Understood' = Understood /\ event' = event /\ reply' = reply /\ rows' = rows
    BY InputsStay DEF inputs, Understood, Usable
  <1>1. CASE LoadHistory
    <2>1. stage' = "loaded" /\ seen' = Limited(rows, HistoryLimit) /\ "loaded" \notin DOMAIN Tested
      BY <1>1 DEF LoadHistory, Tested
    <2> QED
      BY <1>0, <2>1 DEF Established
  <1>2. CASE DetectInjection \/ Ask \/ ParseJSON \/ ValidateSchema \/ ReadReasoning
    <2>1. CASE UseRaw(Fallback) \/ UseRaw(reply.raw)
      <3>1. \/ UseRaw(Fallback) /\ Understood = Fallback
            \/ UseRaw(reply.raw) /\ Understood = reply.raw
        BY <1>2, <2>1 DEF DetectInjection, Ask, ParseJSON, ValidateSchema, ReadReasoning, GoOn,
             UseRaw, Understood, Usable, Established
      <3>2. stage # "start"
        BY <1>2, <2>1 DEF DetectInjection, Ask, ParseJSON, ValidateSchema, ReadReasoning, GoOn, UseRaw
      <3> QED
        BY <1>0, <3>1, <3>2, RawIsUnderstood
    <2>2. CASE ~(UseRaw(Fallback) \/ UseRaw(reply.raw))
      <3>1. stage' \notin DOMAIN Tested \cup {"raw"} /\ seen' = seen /\ stage # "start"
        BY <1>2, <2>2 DEF DetectInjection, Ask, ParseJSON, ValidateSchema, ReadReasoning, GoOn, Tested
      <3> QED
        BY <1>0, <1>2, <2>2, <3>1 DEF Established, DetectInjection, Ask, ParseJSON, ValidateSchema,
             ReadReasoning, GoOn
    <2> QED
      BY <2>1, <2>2
  <1>3. CASE StartRestrictions
    <2>1. /\ stage = "raw" /\ stage' = "R1" /\ safe' = raw.safe /\ restrictions' = {} /\ raw' = raw
          /\ seen' = seen /\ Tested["R1"] = {} /\ raw.safe \in BOOLEAN /\ "R1" \in DOMAIN Tested
      BY <1>3 DEF StartRestrictions, Tested, TypeOK, RawDecisions
    <2> QED
      BY <1>0, <2>1 DEF Established
  <1>4. ASSUME NEW rule \in Rules, Restrict(rule) PROVE Established'
    <2>1. /\ stage = rule /\ stage' = NextStage[rule] /\ raw' = raw /\ seen' = seen
          /\ raw.safe \in BOOLEAN
      BY <1>4 DEF Restrict, TypeOK, RawDecisions
    <2>2. /\ restrictions = RestrictionsApplied(event.severity, event.prod, raw, seen) \cap Tested[rule]
          /\ safe = (raw.safe /\ restrictions = {})
          /\ raw = Understood /\ seen = Limited(rows, HistoryLimit)
      BY <2>1, RuleIsTested DEF Established, Rules
    <2>3. restrictions' = RestrictionsApplied(event.severity, event.prod, raw, seen)
                            \cap Tested[NextStage[rule]]
      BY <1>4, <2>2, RuleIsTested DEF Restrict, RestrictionsApplied
    <2>4. safe' = (raw.safe /\ restrictions' = {})
      BY <1>4, <2>1, <2>2 DEF Restrict
    <2>5. stage' \in {"R2", "R3", "R4", "decided"}
      BY <2>1 DEF Rules, NextStage
    <2> QED
      BY <1>0, <2>1, <2>2, <2>3, <2>4, <2>5 DEF Established
  <1>5. CASE Finished \/ UNCHANGED vars
    BY <1>5 DEF Finished, vars, Established, Understood, Usable
  <1> QED
    BY <1>1, <1>2, <1>3, <1>4, <1>5 DEF Next

\* Every variable of decide() stays in its range.
THEOREM EngineTypeCorrect == Spec => []TypeOK
  BY InitTyped, StepTyped, PTL DEF Spec

\* Each stage of decide() has established what it should.
THEOREM EngineInvariant == Spec => []Established
  <1>1. Init => Established
    BY DEF Init, Established, Tested
  <1>2. TypeOK /\ Established /\ [Next]_vars => Established'
    BY StepEstablishes
  <1> QED
    BY <1>1, <1>2, EngineTypeCorrect, PTL DEF Spec

\* What has been established when the last rule was tested.
LEMMA EstablishedDecides ==
    Established /\ stage = "decided"
      => /\ raw = Understood
         /\ restrictions =
               RestrictionsApplied(event.severity, event.prod, raw, Limited(rows, HistoryLimit))
         /\ safe = SafeToAuto(event.severity, event.prod, raw, Limited(rows, HistoryLimit))
  <1> SUFFICES ASSUME Established, stage = "decided"
               PROVE  /\ raw = Understood
                      /\ restrictions = RestrictionsApplied(event.severity, event.prod, raw,
                                                            Limited(rows, HistoryLimit))
                      /\ safe = SafeToAuto(event.severity, event.prod, raw,
                                           Limited(rows, HistoryLimit))
    OBVIOUS
  <1>1. stage \in DOMAIN Tested /\ Tested[stage] = Rules
    BY DEF Tested
  <1>2. raw = Understood /\ seen = Limited(rows, HistoryLimit)
    BY <1>1 DEF Established
  <1>3. RestrictionsApplied(event.severity, event.prod, raw, seen) \subseteq Rules
    BY DEF RestrictionsApplied
  <1>4. /\ restrictions = RestrictionsApplied(event.severity, event.prod, raw, seen)
        /\ safe = (raw.safe /\ restrictions = {})
    BY <1>1, <1>3 DEF Established
  <1> QED
    BY <1>2, <1>4 DEF SafeToAuto

\* A rule of the code restricts what its row in the table restricts: the comparisons and the
\* thresholds are those of the table, and the limited count reaches R4's if the limit does.
LEMMA RulesAreTheTable ==
    ASSUME TypeOK
    PROVE  RestrictionsApplied(event.severity, event.prod, Understood, Limited(rows, HistoryLimit))
              = TableRows
  <1> DEFINE incidents == Limited(rows, HistoryLimit)
             fires(rule) == Fires(rule, event.severity, event.prod, Understood, incidents)
  <1>1. event.severity \in Severities /\ Understood \in RawDecisions /\ rows \in Nat /\ HistoryLimit \in Nat
    BY EngineAssumption, FallbackIsRaw DEF TypeOK, AllReplies, Understood
  <1>2. fires("R1") <=> event.severity \notin {"low", "medium", "high"}
    BY <1>1 DEF Fires, Severities
  <1>3. Understood.confidence \in 0..100
    BY <1>1 DEF RawDecisions, Confidences
  <1>4. fires("R2") <=> Understood.confidence \notin 70..100
    BY <1>3 DEF Fires, ConfidenceFloor
  <1>5. fires("R3") <=> event.prod /\ Understood.action \in {"rollback", "scale_up"}
    BY DEF Fires, ProdRestrictedActions
  <1>6. incidents >= 3 <=> rows >= 3 /\ HistoryLimit >= 3
    BY <1>1 DEF Limited
  <1>7. fires("R4") <=> rows >= 3 /\ HistoryLimit >= 3
    BY <1>6 DEF Fires, HighIncidentThreshold
  <1> HIDE DEF fires
  <1>8. {rule \in Rules : fires(rule)} = TableRows
    BY <1>2, <1>4, <1>5, <1>7 DEF Rules, TableRows
  <1> QED
    BY <1>8 DEF RestrictionsApplied, fires

LEMMA EstablishedFollows ==
    ASSUME TypeOK, Established
    PROVE  DecisionFollowsTable
  BY EstablishedDecides, RulesAreTheTable DEF DecisionFollowsTable, SafeToAuto

\* A decision is automatic, and names the restrictions, exactly as the README's table
\* says of the event and of what the LLM answered.
THEOREM DecisionsFollowTable == Spec => []DecisionFollowsTable
  BY EstablishedFollows, EngineTypeCorrect, EngineInvariant, PTL

\* If WORKLOAD_HISTORY_LIMIT lets R4 see three incidents, no automatic decision
\* is without a usable, confident answer about a case that the rules leave to the LLM.
THEOREM AutonomyRestsOnEvidence == HistoryLimit >= 3 => (Spec => []AutonomyNeedsEvidence)
  <1> SUFFICES ASSUME HistoryLimit >= 3 PROVE Spec => []AutonomyNeedsEvidence
    OBVIOUS
  <1>1. ASSUME TypeOK, DecisionFollowsTable PROVE AutonomyNeedsEvidence
    <2> SUFFICES ASSUME stage = "decided", safe PROVE AutonomyNeedsEvidence
      BY DEF AutonomyNeedsEvidence
    <2>1. Understood.safe /\ TableRows = {}
      BY <1>1 DEF DecisionFollowsTable
    <2>2. Usable /\ ~event.suspicious /\ Understood = reply.raw
      BY <2>1 DEF Understood, Fallback
    <2>3. /\ event.severity \in {"low", "medium", "high"} /\ reply.raw.confidence \in 70..100
          /\ ~(event.prod /\ reply.raw.action \in {"rollback", "scale_up"}) /\ ~(rows >= 3)
      BY <2>1, <2>2 DEF TableRows
    <2>4. rows \in Nat
      BY <1>1, EngineAssumption DEF TypeOK
    <2> QED
      BY <2>1, <2>2, <2>3, <2>4 DEF AutonomyNeedsEvidence
  <1> QED
    BY <1>1, EngineTypeCorrect, DecisionsFollowTable, PTL
-----------------------------------------------------------------------------
(* decide() is one step to its caller *)

\* DecideOnce applies the rules as the engine does.
LEMMA AtomicRules ==
    ASSUME NEW severity, NEW prod, NEW decision, NEW n, NEW limit
    PROVE  /\ Atomic!SafeToAuto(severity, prod, decision, n) = SafeToAuto(severity, prod, decision, n)
           /\ Atomic!Limited(n, limit) = Limited(n, limit)
           /\ Atomic!Fallback = Fallback
  BY DEF Atomic!SafeToAuto, SafeToAuto, Atomic!RestrictionsApplied, RestrictionsApplied,
         Atomic!Fires, Fires, Atomic!Rules, Rules, Atomic!ConfidenceFloor, ConfidenceFloor,
         Atomic!ProdRestrictedActions, ProdRestrictedActions,
         Atomic!HighIncidentThreshold, HighIncidentThreshold,
         Atomic!Limited, Limited, Atomic!Fallback, Fallback

\* decide() ends by the last rule or by an exception out of the LLM client.
LEMMA EndsOnce ==
    ASSUME Established, [Next]_vars, stage' # stage, stage' \in {"decided", "raised"}
    PROVE  stage \notin {"decided", "raised"} /\ (stage' = "raised" => ~event.suspicious)
  <1>1. CASE \E rule \in Rules : Restrict(rule)
    BY <1>1 DEF Rules, Restrict, NextStage
  <1>2. CASE LoadHistory \/ DetectInjection \/ Ask \/ ParseJSON \/ ValidateSchema \/ ReadReasoning
               \/ StartRestrictions
    BY <1>2 DEF LoadHistory, DetectInjection, Ask, ParseJSON, ValidateSchema, ReadReasoning,
         StartRestrictions, UseRaw, GoOn, Established
  <1> QED
    BY <1>1, <1>2 DEF Next, Finished, vars

LEMMA StepIsAtomic ==
    ASSUME TypeOK, Established, Established', [Next]_vars
    PROVE  Atomic!Decide \/ Atomic!Raise \/ UNCHANGED <<event, rows, Decision>>
  <1>0. event' = event /\ rows' = rows /\ reply' = reply /\ Understood' = Understood
    BY InputsStay DEF inputs, Understood, Usable
  <1>1. CASE stage' = stage
    <2>1. stage = "decided" => raw' = raw /\ safe' = safe
      BY <1>1 DEF Next, LoadHistory, DetectInjection, Ask, ParseJSON, ValidateSchema, ReadReasoning,
           StartRestrictions, Restrict, Rules, UseRaw, GoOn, Finished, vars
    <2> QED
      BY <1>0, <1>1, <2>1 DEF Decision
  <1>2. CASE stage' # stage /\ stage' \notin {"decided", "raised"}
    <2>1. stage \notin {"decided", "raised"}
      BY <1>2 DEF Next, LoadHistory, DetectInjection, Ask, ParseJSON, ValidateSchema, ReadReasoning,
           StartRestrictions, Restrict, Rules, UseRaw, GoOn, Finished, vars
    <2> QED
      BY <1>0, <1>2, <2>1 DEF Decision
  <1>3. CASE stage' # stage /\ stage' = "raised"
    <2>1. Decision = Atomic!Awaited
      BY <1>3, EndsOnce DEF Decision, Atomic!Awaited, Atomic!NoDecision
    <2>2. Decision' = Atomic!NoDecision("raised")
      BY <1>3 DEF Decision, Atomic!Awaited, Atomic!NoDecision
    <2> QED
      BY <1>0, <1>3, <2>1, <2>2, EndsOnce DEF Atomic!Raise
  <1>4. CASE stage' # stage /\ stage' = "decided"
    <2>1. Decision = Atomic!Awaited
      BY <1>4, EndsOnce DEF Decision, Atomic!Awaited, Atomic!NoDecision
    <2>2. raw' = Understood
          /\ safe' = SafeToAuto(event.severity, event.prod, Understood, Limited(rows, HistoryLimit))
      <3>1. (Established /\ stage = "decided"
              => /\ raw = Understood
                 /\ restrictions = RestrictionsApplied(event.severity, event.prod, raw,
                                                       Limited(rows, HistoryLimit))
                 /\ safe = SafeToAuto(event.severity, event.prod, raw, Limited(rows, HistoryLimit)))'
        BY EstablishedDecides, PTL
      <3> QED
        BY <1>0, <1>4, <3>1
    <2>3. Understood \in IF event.suspicious THEN {Atomic!Fallback} ELSE Answers \cup {Atomic!Fallback}
      BY AtomicRules DEF TypeOK, Understood, Usable, Answers
    <2>4. Decision' = [ending |-> "decided", action |-> Understood.action,
                       auto |-> Atomic!SafeToAuto(event.severity, event.prod, Understood,
                                   Atomic!Limited(rows, HistoryLimit))]
      BY <1>4, <2>2, AtomicRules DEF Decision
    <2> QED
      BY <1>0, <2>1, <2>3, <2>4 DEF Atomic!Decide
  <1> QED
    BY <1>1, <1>2, <1>3, <1>4

\* The stages of decide() are one step of Warden, whatever the reply and the history: the
\* request path may treat the reasoning engine as atomic.
THEOREM EngineDecidesAtOnce == Spec => DecidesAtOnce
  <1>1. Init => Atomic!Init
    BY DEF Init, Atomic!Init, Decision, Atomic!Awaited, Atomic!NoDecision
  <1>2. TypeOK /\ Established /\ Established' /\ [Next]_vars
          => [Atomic!Decide \/ Atomic!Raise]_<<event, rows, Decision>>
    BY StepIsAtomic
  <1> QED
    BY <1>1, <1>2, EngineTypeCorrect, EngineInvariant, PTL DEF Spec, DecidesAtOnce, Atomic!Spec
=============================================================================

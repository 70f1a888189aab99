------------------------- MODULE MCReasoningEngine -------------------------
(***************************************************************************)
(* ReasoningEngine on every severity, environment and screening result, and *)
(* on a reply of every class; the raw decisions cover every action and     *)
(* flag, with the confidences around the threshold and at the ends.        *)
(***************************************************************************)
EXTENDS ReasoningEngine

AllEvents == [severity : Severities, prod : BOOLEAN, suspicious : BOOLEAN]

SampleRaw == [action : Actions, confidence : {0, 69, 70, 100}, safe : BOOLEAN]
Eager == [action |-> "restart", confidence |-> 100, safe |-> TRUE]

Reply(ending, json, fit, decision, reasoned) ==
    [ending |-> ending, json |-> json, fit |-> fit, raw |-> decision, reasoned |-> reasoned]

AnsweredReplies == {Reply("content", TRUE, "exact", decision, TRUE) : decision \in SampleRaw}

OddReplies ==
    {Reply("content", json, fit, Eager, reasoned) :
        json \in BOOLEAN, fit \in Fits, reasoned \in BOOLEAN}

Unreached == {Reply(ending, TRUE, "exact", Eager, TRUE) : ending \in {"unreachable", "status_error"}}
Uncaught == {Reply(ending, TRUE, "exact", Eager, TRUE) : ending \in {"no_choice", "other_error"}}

SampleReplies == AnsweredReplies \cup OddReplies \cup Unreached \cup Uncaught
=============================================================================

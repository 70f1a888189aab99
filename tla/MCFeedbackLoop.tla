--------------------------- MODULE MCFeedbackLoop ---------------------------
(***************************************************************************)
(* Instances of FeedbackLoop: a workload with several incidents, and one   *)
(* whose names consist of the same letters.                                *)
(***************************************************************************)
EXTENDS FeedbackLoop

A == <<"a">>
AA == <<"a", "a">>

Webhook(project, environment, timestamp, suspicious) ==
    [project |-> project, environment |-> environment, signal |-> A,
     timestamp |-> timestamp, suspicious |-> suspicious]

TwoWorkloads ==
    {Webhook(A, AA, "t1", FALSE), Webhook(A, AA, "t2", FALSE), Webhook(A, AA, "t3", FALSE),
     Webhook(AA, A, "t1", TRUE)}

NothingSaid == [comment |-> NoText, reason |-> NoText, alternative |-> NoText]
AllSaid == [comment |-> "c", reason |-> "r", alternative |-> "x"]
Said == {NothingSaid, AllSaid}

\* Bound: two humans speak before the run ends.
TwoResolutions == Cardinality({i \in Ids : heardAt[i] # 0}) <= 2
=============================================================================

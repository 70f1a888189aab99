--------------------------- MODULE ForgetfulWarden ---------------------------
(***************************************************************************)
(* The Warden API as its clients may think of it when its host may lose    *)
(* power: requests are served one at a time (SerialWarden), and now and    *)
(* then the API forgets the last ones it served: all of each, their        *)
(* verdicts included, and never one without those served after it.         *)
(***************************************************************************)
EXTENDS SerialWarden

VARIABLE past    \* the tables it may go back to, each with who had written them

Served == {r \in Req : verdict[r].code = "ok"}
Present == [rows |-> table, durable |-> Served]

ForgetfulInit == Init /\ past = {Present}

Serve == Next /\ past' = past \cup {Present'}

\* From here on nothing that was served is forgotten.
Sync ==
    /\ past' = {Present}
    /\ UNCHANGED <<call, table, verdict>>

\* A request that is no longer served, or was refused, has no verdict any more.
Forget ==
    \E old \in past :
        /\ table' = old.rows
        /\ verdict' = [r \in Req |-> IF r \in old.durable THEN verdict[r] ELSE Unserved]
        /\ past' = {old}
        /\ UNCHANGED call

ForgetfulNext == Serve \/ Sync \/ Forget

ForgetfulSpec == ForgetfulInit /\ [][ForgetfulNext]_<<call, table, verdict, past>>
=============================================================================

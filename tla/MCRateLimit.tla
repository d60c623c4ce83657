----------------------------- MODULE MCRateLimit -----------------------------
(***************************************************************************)
(* Instances of RateLimit for TLC, and a claim the program makes.          *)
(***************************************************************************)
EXTENDS RateLimit, TLC

FewRequests == ("fixed" :> 2) @@ ("rolling" :> 1)
FewTicks == ("fixed" :> 2) @@ ("rolling" :> 3)
MoreRequests == ("fixed" :> 4) @@ ("rolling" :> 3)

LimitOfOne == "fixed" :> 1
ThreeRequests == "fixed" :> 3
TwoTicks == "fixed" :> 2

Symmetric == Permutations(Workers)

\* routers/public_chatbot.py:293 and 318: the number of requests of an address in
\* a minute is limited, and who was refused may try again after a while. Nobody
\* is refused who has asked less than the limit in the last minute.
RefusesPerMinute ==
    [][\A w \in Workers : Refused(w) /\ timely => Sum(asked, Last(Window)) > Limit]_vars
=============================================================================

------------------------------ MODULE MCAdmin ------------------------------
(***************************************************************************)
(* What an operator meets, for TLC: the requests of AdminApi (one user     *)
(* with an open session, three requests), the lists of ListPages, the      *)
(* pages of UsageTrend, and the rebuilding of the aggregates those are     *)
(* made of (UsageRollup).  They have no variable in common, so that an     *)
(* interleaving of them shows nothing one of them does not: each is run on *)
(* its own, while the others rest.                                         *)
(***************************************************************************)
EXTENDS AdminApi, ListPages, UsageTrend, UsageRollup, TLC

CONSTANTS q1, q2, q3

RawAccess == [u \in Users |-> "raw_access"]
OneOwner == [s \in OpenSessions |-> CHOOSE u \in Users : TRUE]
OneEach == [op \in Limiters |-> 1]

Plan(a, b, c) == q1 :> a @@ q2 :> b @@ q3 :> c

\* The requests that get in each other's way.
MCPlans == {Plan("login", "password", "password"), Plan("login", "logout", "password"),
            Plan("logout", "catalog", "raw"), Plan("logout", "review", "lookup"),
            Plan("raw", "raw", "raw")}

VARIABLE running  \* the one that has left its initial state

Only(component) == running \in {"none", component} /\ running' = component

MCInit == Init /\ ListInit /\ TrendInit /\ RollupInit /\ running = "none"

MCNext ==
    \/ Only("admin") /\ Next /\ UNCHANGED <<listVars, trendVars, rollupVars>>
    \/ Only("lists") /\ ListNext /\ UNCHANGED <<vars, trendVars, rollupVars>>
    \/ Only("usage") /\ TrendNext /\ UNCHANGED <<vars, listVars, rollupVars>>
    \/ Only("rollup") /\ RollupNext /\ UNCHANGED <<vars, listVars, trendVars>>

\* Where the requests of AdminApi rest, one plan is as good as another.
OnePlan == running \notin {"none", "admin"} => \A q \in Requests : req[q].op = "raw"

MCSpec == MCInit /\ [][MCNext]_<<running, vars, listVars, trendVars, rollupVars>>

\* Requests, sessions, counters, lists, pages and aggregates keep the form the code gives
\* them; among other things the page of an empty list is page 1, and a trend has as many
\* points as its range has buckets.  What rests has the form it began with.
AdminTypeOK ==
    /\ running \in {"none", "admin"} => TypeOK
    /\ running \in {"none", "lists"} => ListTypeOK
    /\ running \in {"none", "usage"} => TrendTypeOK
    /\ running \in {"none", "rollup"} => RollupTypeOK
=============================================================================

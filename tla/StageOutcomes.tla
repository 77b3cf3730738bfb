--------------------------- MODULE StageOutcomes ---------------------------
(***************************************************************************)
(* What the analysis pipeline promises, without streams, leases or         *)
(* workers.  Each stage of each trace is open, then done or dead for good; *)
(* its results are counted once; enrichment is settled only for a trace    *)
(* whose core stage is done and demanded it.                               *)
(***************************************************************************)
EXTENDS Naturals

CONSTANT Traces

VARIABLES outcome,   \* [Traces \X {"core", "enrichment"}] -> open, done or dead
          results,   \* how often the results of a stage have been stored
          demanded   \* does the trace need enrichment?

AllStages == Traces \X {"core", "enrichment"}

Init ==
    /\ outcome = [k \in AllStages |-> "open"]
    /\ results = [k \in AllStages |-> 0]
    /\ demanded = [t \in Traces |-> FALSE]

Ready(k) ==
    /\ outcome[k] = "open"
    /\ k[2] = "enrichment" => outcome[<<k[1], "core">>] = "done" /\ demanded[k[1]]

Settle(k) ==
    /\ Ready(k)
    /\ outcome' = [outcome EXCEPT ![k] = "done"]
    /\ results' = [results EXCEPT ![k] = @ + 1]
    /\ IF k[2] = "core"
       THEN \E needed \in BOOLEAN : demanded' = [demanded EXCEPT ![k[1]] = needed]
       ELSE UNCHANGED demanded

GiveUp(k) ==
    /\ Ready(k)
    /\ outcome' = [outcome EXCEPT ![k] = "dead"]
    /\ UNCHANGED <<results, demanded>>

Next == \E k \in AllStages : Settle(k) \/ GiveUp(k)

Spec == Init /\ [][Next]_<<outcome, results, demanded>>
=============================================================================

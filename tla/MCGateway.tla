----------------------------- MODULE MCGateway -----------------------------
(***************************************************************************)
(* The gateway for TLC: the capture of a request (GatewayCapture), the     *)
(* reading of streamed answers (StreamUsage), the resolving of identities  *)
(* (IdentityCache), the life of the process (GatewayProcess) and its       *)
(* readiness probe (Readiness).  They have no variable in common: each is  *)
(* run on its own, while the others rest.                                  *)
(***************************************************************************)
EXTENDS GatewayCapture, MCStreamUsage, IdentityCache, GatewayProcess, Readiness, TLC

GoodEnv(backend) == [backend |-> backend, value |-> [k \in Keys |-> "valid"]]

\* Environments that are complete, and some with one variable that is not.
MCEnvs ==
    {GoodEnv("filesystem"), GoodEnv("oss"),
     [GoodEnv("filesystem") EXCEPT !.value["EVIDENCE_STORAGE_DIR"] = "unset"],
     GoodEnv(""), GoodEnv("s3"),
     [GoodEnv("oss") EXCEPT !.value["OSS_BUCKET"] = "blank"],
     [GoodEnv("oss") EXCEPT !.value["POSTGRES_DSN"] = "invalid"],
     [GoodEnv("filesystem") EXCEPT !.value["REDIS_ADDR"] = "unset"],
     [GoodEnv("filesystem") EXCEPT !.value["REDIS_ADDR"] = "blank"]}

VARIABLE running  \* the one that has left its initial state

allVars == <<running, vars, streamVars, identityVars, procVars, readyVars>>

Only(component) == running \in {"none", component} /\ running' = component

MCInit ==
    /\ Init /\ StreamInit /\ IdentityInit /\ ProcessInit /\ ReadinessInit
    /\ running = "none"

MCNext ==
    \/ /\ Only("capture") /\ Next
       /\ UNCHANGED <<streamVars, identityVars, procVars, readyVars>>
    \/ /\ Only("stream") /\ StreamNext
       /\ UNCHANGED <<vars, identityVars, procVars, readyVars>>
    \/ /\ Only("identity") /\ IdentityNext
       /\ UNCHANGED <<vars, streamVars, procVars, readyVars>>
    \/ /\ Only("process") /\ ProcessNext
       /\ UNCHANGED <<vars, streamVars, identityVars, readyVars>>
    \/ /\ Only("probe") /\ ReadinessNext
       /\ UNCHANGED <<vars, streamVars, identityVars, procVars>>

\* Where the caches rest, one token is as good as another.
OneToken == running \notin {"none", "identity"} => token = NoUser

MCSpec == MCInit /\ [][MCNext]_allVars /\ CaptureFairness /\ ProcessFairness

\* Requests, traces, streams, cached identities, the process and the probe keep the form
\* the code gives them; among other things token counts are never negative and Shutdown's
\* time does not pass its end.  What rests has the form it began with.
GatewayTypeOK ==
    /\ running \in {"none", "capture"} => TypeOK
    /\ running \in {"none", "stream"} => StreamTypeOK
    /\ running \in {"none", "identity"} => IdentityTypeOK
    /\ running \in {"none", "process"} => ProcessTypeOK
    /\ running \in {"none", "probe"} => ReadinessTypeOK
=============================================================================

------------------------------ MODULE Readiness ------------------------------
(***************************************************************************)
(* internal/ops and buildOpsHandler: /readyz.  The answer is put together  *)
(* from six checks, one after another, while the dependencies fail and     *)
(* come back, workers write heartbeats or fall silent, and the queue       *)
(* grows and shrinks.  The gateway's first XADD makes the core stream, the *)
(* first read of a core worker its group; a Redis that is set up anew has  *)
(* neither.                                                                *)
(***************************************************************************)
EXTENDS Integers, Sequences, FiniteSets

CONSTANTS Beaters,        \* worker processes
          MaxAge,         \* OpsWorkerHeartbeatMaxAge
          WarnThreshold,  \* OpsQueueLagWarnThreshold
          MaxDepth,       \* bound: entries of the core stream, and tasks of core
          MaxTick         \* bound: the last tick of the clock

ASSUME ReadinessAssumption ==
    /\ MaxAge \in Nat \ {0}
    /\ {WarnThreshold, MaxDepth, MaxTick} \subseteq Nat

VARIABLES
    tick,
    up,       \* the dependencies that answer
    seen,     \* worker_heartbeats.last_seen_at
    group,    \* the core stream in Redis: none, without its group, or with it
    depth,    \* pending and lag of the group, in Redis
    backlog,  \* open core tasks, in Postgres
    checks,   \* the checks made so far
    begun,    \* when the probe began, and what was true since:
    wasUp,    \*   the dependencies that were up at some time
    calm      \*   the queue was at the threshold or below at some time

readyVars == <<tick, up, seen, group, depth, backlog, checks, begun, wasUp, calm>>

Deps == {"postgres", "redis", "evidence"}
Order == <<"postgres", "redis", "evidence", "worker_heartbeat", "queue_lag", "runtime_metrics">>
Statuses == {"ok", "degraded", "down"}
Groups == {"none", "groupless", "grouped"}
NeverSeen == -1
Greatest(S) == CHOOSE x \in S : \A y \in S : x >= y

ReadinessTypeOK ==
    /\ tick \in 0 .. MaxTick
    /\ up \subseteq Deps
    /\ seen \in [Beaters -> {NeverSeen} \cup 0 .. MaxTick]
    /\ group \in Groups
    /\ {depth, backlog} \subseteq 0 .. MaxDepth
    /\ calm \in BOOLEAN
    /\ checks \in Seq(Statuses) /\ Len(checks) <= Len(Order)
    /\ begun \in 0 .. MaxTick
    /\ wasUp \subseteq Deps
-----------------------------------------------------------------------------
SimpleCheck(dependency) == IF dependency \in up THEN "ok" ELSE "down"

\* Mutant: a worker that once had a row is there.
WorkerHeartbeatCheck_any_age ==
    IF "postgres" \notin up THEN "down"
    ELSE IF \A w \in Beaters : seen[w] = NeverSeen THEN "degraded" ELSE "ok"

\* MAX(last_seen_at) and COUNT(*) of the rows.
WorkerHeartbeatCheck ==
    IF "postgres" \notin up THEN "down"
    ELSE IF \A w \in Beaters : seen[w] = NeverSeen THEN "degraded"
    ELSE IF tick - Greatest({seen[w] : w \in Beaters}) > MaxAge THEN "degraded" ELSE "ok"

\* streamDepthForGroup: the XINFO of a stream that is not there is an error; a stream
\* that has not got the group has the depth 0.
StreamDepth == IF group = "grouped" THEN depth ELSE 0
StreamAnswers == "redis" \in up /\ group # "none"

\* The depth of the group in Redis, or else that of the table.
QueueLagCheck ==
    IF StreamAnswers THEN IF StreamDepth > WarnThreshold THEN "degraded" ELSE "ok"
    ELSE IF "postgres" \notin up THEN "down"
    ELSE IF backlog > WarnThreshold THEN "degraded" ELSE "ok"

RuntimeMetricsCheck == SimpleCheck("postgres")

Check(name) ==
    CASE name \in Deps -> SimpleCheck(name)
      [] name = "worker_heartbeat" -> WorkerHeartbeatCheck
      [] name = "queue_lag" -> QueueLagCheck
      [] name = "runtime_metrics" -> RuntimeMetricsCheck

\* Mutant: the last check that is not ok decides.
OverallStatus_last(made) ==
    LET bad == {i \in DOMAIN made : made[i] # "ok"}
    IN  IF bad = {} THEN "ok" ELSE made[Greatest(bad)]

\* One check that is down is enough; a degraded one hides no other.
OverallStatus(made) ==
    IF \E i \in DOMAIN made : made[i] = "down" THEN "down"
    ELSE IF \E i \in DOMAIN made : made[i] = "degraded" THEN "degraded" ELSE "ok"

Answered == Len(checks) = Len(Order)
-----------------------------------------------------------------------------
\* For the properties: no more than the threshold waits, in the group where Redis has
\* it, in the table where Redis is away or has no stream.  A stream that nobody has
\* begun to read counts as empty, however long it is.
Calm ==
    \/ "redis" \in up /\ group = "grouped" /\ depth <= WarnThreshold
    \/ "redis" \in up /\ group = "groupless"
    \/ ("redis" \notin up \/ group = "none") /\ backlog <= WarnThreshold

\* Readiness makes its next check.
Probe ==
    /\ ~Answered
    /\ checks' = Append(checks, Check(Order[Len(checks) + 1]))
    /\ UNCHANGED <<tick, up, seen, group, depth, backlog, begun, wasUp, calm>>

\* The answer is sent; the next probe comes.
Respond ==
    /\ Answered
    /\ checks' = <<>>
    /\ begun' = tick
    /\ wasUp' = up
    /\ calm' = Calm
    /\ UNCHANGED <<tick, up, seen, group, depth, backlog>>

\* What the probe can see changes, and is noted for the properties.  What happens between
\* the last check and the answer is left to the time after it: no check is about it.
Fluctuate ==
    /\ ~Answered
    /\ \/ \E d \in Deps : up' = (up \ {d}) \cup ({d} \ up) /\ UNCHANGED <<group, depth, backlog>>
       \/ /\ group' \in Groups \ {group}
          /\ depth' \in IF group' = "grouped" THEN 0 .. MaxDepth ELSE {0}
          /\ UNCHANGED <<up, backlog>>
       \/ /\ group = "grouped" /\ depth' \in {depth - 1, depth + 1}
          /\ UNCHANGED <<up, group, backlog>>
       \/ backlog' \in {backlog - 1, backlog + 1} /\ UNCHANGED <<up, group, depth>>
    /\ {depth', backlog'} \subseteq 0 .. MaxDepth
    /\ wasUp' = wasUp \cup up'
    /\ calm' = (calm \/ Calm')
    /\ UNCHANGED <<tick, seen, checks, begun>>

Beat(w) ==
    /\ ~Answered
    /\ "postgres" \in up
    /\ seen' = [seen EXCEPT ![w] = tick]
    /\ UNCHANGED <<tick, up, group, depth, backlog, checks, begun, wasUp, calm>>

Pass ==
    /\ ~Answered /\ tick < MaxTick
    /\ tick' = tick + 1
    /\ UNCHANGED <<up, seen, group, depth, backlog, checks, begun, wasUp, calm>>

ReadinessInit ==
    /\ tick = 0
    /\ up = Deps
    /\ seen = [w \in Beaters |-> NeverSeen]
    /\ group = "none"
    /\ depth = 0
    /\ backlog = 0
    /\ checks = <<>>
    /\ begun = 0
    /\ wasUp = Deps
    /\ calm = TRUE

ReadinessNext == Probe \/ Respond \/ Fluctuate \/ Pass \/ \E w \in Beaters : Beat(w)

ReadinessSpec == ReadinessInit /\ [][ReadinessNext]_readyVars
-----------------------------------------------------------------------------
\* 503 for every outage: an answer that is not down was given by a probe during which
\* each dependency was up at some time, however long the others were degraded.
OutageIsDown == Answered /\ OverallStatus(checks) # "down" => wasUp = Deps

\* An ok was true: some worker wrote its heartbeat no longer than MaxAge before the
\* probe began, and at some time during the probe no more than the threshold waited:
\* in the group, or in the table while Redis was away or had no stream.  What it does
\* not say is that somebody reads the stream: one without its group has the depth 0.
OkWasTrue ==
    Answered /\ OverallStatus(checks) = "ok" =>
        /\ \E w \in Beaters : seen[w] # NeverSeen /\ seen[w] >= begun - MaxAge
        /\ calm
=============================================================================

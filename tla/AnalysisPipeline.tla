-------------------------- MODULE AnalysisPipeline --------------------------
(***************************************************************************)
(* The two-stage analysis pipeline of workers/analysis_worker: messages on *)
(* the Redis streams analysis.core and analysis.enrichment, the leased     *)
(* rows of analysis_tasks, the status columns of traces, and the threads   *)
(* that run _process_stream_message (main.py).                             *)
(*                                                                         *)
(* A handler is one thread of a worker process.  One action is one         *)
(* committed database transaction or one Redis command, so that handlers   *)
(* interleave wherever the code lets go of the shared state.               *)
(***************************************************************************)
EXTENDS TaskStore

CONSTANTS Traces,
          CoreHandlers,        \* threads that consume analysis.core
          EnrichmentHandlers,  \* threads that consume analysis.enrichment
          Worker,              \* the worker_id of each handler
          Kinds,               \* what the publisher of analysis.core may send
          MaxMessages,         \* bound: entries ever added to the streams
          MaxFaults            \* bound: crashes and I/O errors

Handlers == CoreHandlers \cup EnrichmentHandlers

ASSUME HandlersAssumption ==
    /\ CoreHandlers \cap EnrichmentHandlers = {}
    /\ Worker \in [Handlers -> Workers]
ASSUME KindsAssumption == Kinds \subseteq {"job", "unknown_stage"}
ASSUME BoundsAssumption == MaxMessages \in Nat /\ MaxFaults \in Nat

VARIABLES
    stream,     \* the entries of both streams, by message id
    task,       \* analysis_tasks, by (trace_id, stage)
    trace,      \* the status columns of traces
    committed,  \* how often a stage's results were committed
    dlq,        \* entries on analysis.dlq, by (trace_id, stage)
    pc, msg, attempt, lapsed,  \* the locals of each handler
    faults      \* crashes and I/O errors so far

store == <<task, trace, committed>>
locals == <<pc, msg, attempt, lapsed>>
vars == <<stream, store, dlq, locals, faults>>

Stages == {"core", "enrichment"}
Keys == Traces \X Stages
MsgIds == 1 .. MaxMessages

StageOf(h) == IF h \in CoreHandlers THEN "core" ELSE "enrichment"

\* "reclaimable": delivered, not acknowledged, idle for reclaim_idle_ms.
EntryState == {"new", "pending", "reclaimable", "acked"}
FreeEntry == [key |-> <<"", "">>, kind |-> "job", state |-> "free"]
Entry == [key : Keys, kind : {"job", "unknown_stage"}, state : EntryState]
         \cup {FreeEntry}

TraceRow == [core_status          : {"pending", "processing", "completed", "failed"},
             enrichment_required  : BOOLEAN,
             enrichment_status    : {"not_required", "pending", "processing",
                                     "completed", "failed"},
             enrichment_queued_at : BOOLEAN]

ProgramCounter == {"idle", "insert", "claim", "inspect", "begin", "load", "process",
                   "fail", "bury", "requeue", "enqueue", "enqueued", "ack"}

TypeOK ==
    /\ stream \in [MsgIds -> Entry]
    /\ task \in [Keys -> TaskRow]
    /\ trace \in [Traces -> TraceRow]
    /\ committed \in [Keys -> Nat]
    /\ dlq \in [Keys -> Nat]
    /\ pc \in [Handlers -> ProgramCounter]
    /\ msg \in [Handlers -> MsgIds \cup {0}]
    /\ attempt \in [Handlers -> Nat]
    /\ lapsed \in [Handlers -> Nat]
    /\ faults \in Nat
-----------------------------------------------------------------------------
(* Streams *)

\* The entry behind a message id; a handler's own message.
TaskOf(h) == stream[msg[h]].key
TraceOf(h) == TaskOf(h)[1]

Unacked == {"new", "pending", "reclaimable"}

\* XADD: the entry gets the next id.
Publish(key, kind) ==
    \E i \in MsgIds :
        /\ stream[i].state = "free"
        /\ \A j \in MsgIds : j < i => stream[j].state # "free"
        /\ stream' = [stream EXCEPT ![i] = [key |-> key, kind |-> kind, state |-> "new"]]

InStream(i, stage, state) == stream[i].key[2] = stage /\ stream[i].state = state

Goto(h, label) == pc' = [pc EXCEPT ![h] = label]

\* Leave _process_stream_message; the message is acknowledged only by Ack.
Return(h) ==
    /\ pc' = [pc EXCEPT ![h] = "idle"]
    /\ msg' = [msg EXCEPT ![h] = 0]
    /\ attempt' = [attempt EXCEPT ![h] = 0]
    /\ lapsed' = [lapsed EXCEPT ![h] = 0]
-----------------------------------------------------------------------------
(* The gateway *)

\* Mutant: the message names the wrong stage and lands on the wrong stream.
PublishTraceCaptured_misrouted(t, kind) ==
    /\ \A i \in MsgIds : stream[i].key[1] # t
    /\ Publish(<<t, "enrichment">>, kind)
    /\ UNCHANGED <<store, dlq, locals, faults>>

\* PublishTraceCaptured: one message for each trace the gateway has stored.
PublishTraceCaptured(t, kind) ==
    /\ \A i \in MsgIds : stream[i].key[1] # t
    /\ Publish(<<t, "core">>, kind)
    /\ UNCHANGED <<store, dlq, locals, faults>>
-----------------------------------------------------------------------------
(* StreamConsumer.read_batch *)

\* _messages_from_entries: an unknown stage is acknowledged and dropped.
Deliver(h, i) ==
    /\ IF stream[i].kind = "unknown_stage"
       THEN /\ stream' = [stream EXCEPT ![i].state = "acked"]
            /\ UNCHANGED <<pc, msg>>
       ELSE /\ stream' = [stream EXCEPT ![i].state = "pending"]
            /\ pc' = [pc EXCEPT ![h] = "insert"]
            /\ msg' = [msg EXCEPT ![h] = i]
    /\ UNCHANGED <<store, dlq, attempt, lapsed, faults>>

\* XAUTOCLAIM comes first.  A worker polls again only when its whole batch is
\* done, so no thread is handed what another thread of its process holds.
Reclaim(h, i) ==
    /\ pc[h] = "idle"
    /\ \A g \in Handlers : Worker[g] = Worker[h] => msg[g] # i
    /\ InStream(i, StageOf(h), "reclaimable")
    /\ Deliver(h, i)

\* XREADGROUP > hands out new entries in order, when nothing was reclaimed.
ReadNew(h, i) ==
    /\ pc[h] = "idle"
    /\ InStream(i, StageOf(h), "new")
    /\ \A j \in MsgIds : /\ ~InStream(j, StageOf(h), "reclaimable")
                         /\ j < i => ~InStream(j, StageOf(h), "new")
    /\ Deliver(h, i)
-----------------------------------------------------------------------------
(* _process_stream_message: taking the lease *)

InsertTask(h) ==
    /\ pc[h] = "insert"
    /\ task' = [task EXCEPT ![TaskOf(h)] = insert_task(@)]
    /\ Goto(h, "claim")
    /\ UNCHANGED <<stream, trace, committed, dlq, msg, attempt, lapsed, faults>>

ClaimTask(h) ==
    /\ pc[h] = "claim"
    /\ IF Claimable(task[TaskOf(h)])
       THEN /\ task' = [task EXCEPT ![TaskOf(h)] = claim_task(@, Worker[h])]
            /\ attempt' = [attempt EXCEPT ![h] = task[TaskOf(h)].attempt_count + 1]
            /\ Goto(h, "begin")
       ELSE /\ Goto(h, "inspect")
            /\ UNCHANGED <<task, attempt>>
    /\ UNCHANGED <<stream, trace, committed, dlq, msg, lapsed, faults>>

\* Mutant: a redelivered core message never publishes the enrichment message.
NeedsEnqueueRecovery_never(t) == FALSE

\* trace_needs_enrichment_enqueue_recovery
NeedsEnqueueRecovery(t) ==
    /\ trace[t].enrichment_required
    /\ trace[t].enrichment_status = "pending"
    /\ ~trace[t].enrichment_queued_at

\* Mutant: a message whose task somebody else has leased is acknowledged.
Inspect_acks_leased(h) ==
    /\ pc[h] = "inspect"
    /\ Goto(h, IF /\ task[TaskOf(h)].status = "succeeded"
                  /\ TaskOf(h)[2] = "core"
                  /\ NeedsEnqueueRecovery(TraceOf(h))
               THEN "enqueue" ELSE "ack")
    /\ UNCHANGED <<stream, store, dlq, msg, attempt, lapsed, faults>>

\* Mutant: a duplicate of a failed_terminal task is not acknowledged.
Inspect_keeps_terminal(h) ==
    /\ pc[h] = "inspect"
    /\ \/ /\ task[TaskOf(h)].status = "succeeded"
          /\ Goto(h, IF TaskOf(h)[2] = "core" /\ NeedsEnqueueRecovery(TraceOf(h))
                     THEN "enqueue" ELSE "ack")
          /\ UNCHANGED <<msg, attempt, lapsed>>
       \/ /\ task[TaskOf(h)].status # "succeeded"
          /\ Return(h)
    /\ UNCHANGED <<stream, store, dlq, faults>>

\* The branches of `if task is None`.
Inspect(h) ==
    /\ pc[h] = "inspect"
    /\ \/ /\ task[TaskOf(h)].status = "succeeded"
          /\ Goto(h, IF TaskOf(h)[2] = "core" /\ NeedsEnqueueRecovery(TraceOf(h))
                     THEN "enqueue" ELSE "ack")
          /\ UNCHANGED <<msg, attempt, lapsed>>
       \/ /\ task[TaskOf(h)].status = "failed_terminal"
          /\ Goto(h, "ack")
          /\ UNCHANGED <<msg, attempt, lapsed>>
       \/ /\ task[TaskOf(h)].status \notin Final
          /\ Return(h)
    /\ UNCHANGED <<stream, store, dlq, faults>>
-----------------------------------------------------------------------------
(* _process_stream_message: running the stage *)

\* mark_trace_stage_processing
ProcessingTrace(row, stage) ==
    IF stage = "core" THEN [row EXCEPT !.core_status = "processing"]
                      ELSE [row EXCEPT !.enrichment_status = "processing"]

BeginStage(h) ==
    /\ pc[h] = "begin"
    /\ trace' = [trace EXCEPT ![TraceOf(h)] = ProcessingTrace(@, TaskOf(h)[2])]
    /\ Goto(h, "load")
    /\ UNCHANGED <<stream, task, committed, dlq, msg, attempt, lapsed, faults>>

\* The first statement of the processor opens the transaction: now() is fixed.
LoadTrace(h) ==
    /\ pc[h] = "load"
    /\ lapsed' = [lapsed EXCEPT ![h] = LapsedAttempt(task[TaskOf(h)])]
    /\ Goto(h, "process")
    /\ UNCHANGED <<stream, store, dlq, msg, attempt, faults>>

\* What the processor writes to the trace's status columns.
CompletedTrace(row, stage, needed) ==
    IF stage = "core"
    THEN [core_status          |-> "completed",
          enrichment_required  |-> needed,
          enrichment_status    |-> IF needed THEN "pending" ELSE "not_required",
          enrichment_queued_at |-> FALSE]
    ELSE [row EXCEPT !.enrichment_status = "completed"]

\* Mutant: enrichment is published whether or not it is required.
CompleteStage_enqueues(h, needed) ==
    /\ pc[h] = "process"
    /\ HoldsLease(task[TaskOf(h)], Worker[h], lapsed[h])
    /\ task' = [task EXCEPT ![TaskOf(h)] = mark_succeeded(@)]
    /\ committed' = [committed EXCEPT ![TaskOf(h)] = @ + 1]
    /\ trace' = [trace EXCEPT ![TraceOf(h)] = CompletedTrace(@, TaskOf(h)[2], needed)]
    /\ Goto(h, IF TaskOf(h)[2] = "core" THEN "enqueue" ELSE "ack")
    /\ UNCHANGED <<stream, dlq, msg, attempt, lapsed, faults>>

\* The stage's results, mark_succeeded and the status columns: one commit.
CompleteStage(h, needed) ==
    /\ pc[h] = "process"
    /\ HoldsLease(task[TaskOf(h)], Worker[h], lapsed[h])
    /\ task' = [task EXCEPT ![TaskOf(h)] = mark_succeeded(@)]
    /\ committed' = [committed EXCEPT ![TaskOf(h)] = @ + 1]
    /\ trace' = [trace EXCEPT ![TraceOf(h)] = CompletedTrace(@, TaskOf(h)[2], needed)]
    /\ Goto(h, IF TaskOf(h)[2] = "core" /\ needed THEN "enqueue" ELSE "ack")
    /\ UNCHANGED <<stream, dlq, msg, attempt, lapsed, faults>>

\* LeaseLostError before the commit: everything is rolled back, nothing acked.
LoseLease(h) ==
    /\ pc[h] = "process"
    /\ ~HoldsLease(task[TaskOf(h)], Worker[h], lapsed[h])
    /\ Return(h)
    /\ UNCHANGED <<stream, store, dlq, faults>>

\* Anything else in the try block raises: rollback, then the except branch.
FailStage(h) ==
    /\ pc[h] \in {"begin", "load", "process"}
    /\ Goto(h, "fail")
    /\ UNCHANGED <<stream, store, dlq, msg, attempt, lapsed, faults>>
-----------------------------------------------------------------------------
(* _process_stream_message: the except branch *)

\* Mutant: the attempt before the last is taken for the last.
DeadLetter_early(h) ==
    /\ pc[h] = "fail"
    /\ attempt[h] >= MaxAttempts - 1
    /\ dlq' = [dlq EXCEPT ![TaskOf(h)] = @ + 1]
    /\ Goto(h, "bury")
    /\ UNCHANGED <<stream, store, msg, attempt, lapsed, faults>>

\* The last attempt failed: the dead letter goes out first.
DeadLetter(h) ==
    /\ pc[h] = "fail"
    /\ attempt[h] >= MaxAttempts
    /\ dlq' = [dlq EXCEPT ![TaskOf(h)] = @ + 1]
    /\ Goto(h, "bury")
    /\ UNCHANGED <<stream, store, msg, attempt, lapsed, faults>>

\* mark_trace_stage_failed
FailedTrace(row, stage, terminal) ==
    IF stage = "core"
    THEN [row EXCEPT !.core_status = IF terminal THEN "failed" ELSE "pending"]
    ELSE [row EXCEPT !.enrichment_status = IF terminal THEN "failed" ELSE "pending"]

\* Mutant: the failure of an attempt without lease is still noted in the trace.
RecordFailure_always(h, row, terminal, label) ==
    \/ /\ HoldsLease(task[TaskOf(h)], Worker[h], LapsedAttempt(task[TaskOf(h)]))
       /\ task' = [task EXCEPT ![TaskOf(h)] = row]
       /\ trace' = [trace EXCEPT ![TraceOf(h)] = FailedTrace(@, TaskOf(h)[2], terminal)]
       /\ Goto(h, label)
       /\ UNCHANGED <<msg, attempt, lapsed>>
    \/ /\ ~HoldsLease(task[TaskOf(h)], Worker[h], LapsedAttempt(task[TaskOf(h)]))
       /\ trace' = [trace EXCEPT ![TraceOf(h)] = FailedTrace(@, TaskOf(h)[2], terminal)]
       /\ Return(h)
       /\ UNCHANGED task

\* mark_failed_*, mark_trace_stage_failed and their commit in a new transaction.
RecordFailure(h, row, terminal, label) ==
    \/ /\ HoldsLease(task[TaskOf(h)], Worker[h], LapsedAttempt(task[TaskOf(h)]))
       /\ task' = [task EXCEPT ![TaskOf(h)] = row]
       /\ trace' = [trace EXCEPT ![TraceOf(h)] = FailedTrace(@, TaskOf(h)[2], terminal)]
       /\ Goto(h, label)
       /\ UNCHANGED <<msg, attempt, lapsed>>
    \/ /\ ~HoldsLease(task[TaskOf(h)], Worker[h], LapsedAttempt(task[TaskOf(h)]))
       /\ Return(h)
       /\ UNCHANGED <<task, trace>>

FailTerminally(h) ==
    /\ pc[h] = "bury"
    /\ RecordFailure(h, mark_failed_terminal(task[TaskOf(h)]), TRUE, "ack")
    /\ UNCHANGED <<stream, committed, dlq, faults>>

\* Mutant: the failed message is acknowledged without a new one.
FailRetryably_forgets(h) ==
    /\ pc[h] = "fail"
    /\ attempt[h] < MaxAttempts
    /\ RecordFailure(h, mark_failed_retryable(task[TaskOf(h)]), FALSE, "ack")
    /\ UNCHANGED <<stream, committed, dlq, faults>>

FailRetryably(h) ==
    /\ pc[h] = "fail"
    /\ attempt[h] < MaxAttempts
    /\ RecordFailure(h, mark_failed_retryable(task[TaskOf(h)]), FALSE, "requeue")
    /\ UNCHANGED <<stream, committed, dlq, faults>>

\* requeue_retryable_stage_message
Requeue(h) ==
    /\ pc[h] = "requeue"
    /\ Publish(TaskOf(h), "job")
    /\ Goto(h, "ack")
    /\ UNCHANGED <<store, dlq, msg, attempt, lapsed, faults>>
-----------------------------------------------------------------------------
(* maybe_enqueue_enrichment_after_core_commit *)

EnqueueEnrichment(h) ==
    /\ pc[h] = "enqueue"
    /\ Publish(<<TraceOf(h), "enrichment">>, "job")
    /\ Goto(h, "enqueued")
    /\ UNCHANGED <<store, dlq, msg, attempt, lapsed, faults>>

\* Mutant: a status outside the vocabulary of the column.
EnqueuedTrace_as_queued(row) ==
    [row EXCEPT !.enrichment_required = TRUE,
                !.enrichment_status = "queued",
                !.enrichment_queued_at = TRUE]

\* mark_trace_enrichment_enqueued
EnqueuedTrace(row) ==
    [row EXCEPT !.enrichment_required = TRUE,
                !.enrichment_status = "pending",
                !.enrichment_queued_at = TRUE]

MarkEnqueued(h) ==
    /\ pc[h] = "enqueued"
    /\ trace' = [trace EXCEPT ![TraceOf(h)] = EnqueuedTrace(@)]
    /\ Goto(h, "ack")
    /\ UNCHANGED <<stream, task, committed, dlq, msg, attempt, lapsed, faults>>

\* That UPDATE fails: after a claim the generic except branch catches it.
MarkEnqueuedFails(h) ==
    /\ pc[h] = "enqueued"
    /\ attempt[h] > 0
    /\ faults < MaxFaults
    /\ faults' = faults + 1
    /\ Goto(h, "fail")
    /\ UNCHANGED <<stream, store, dlq, msg, attempt, lapsed>>
-----------------------------------------------------------------------------
(* Acknowledging, failing, and the passing of time *)

Ack(h) ==
    /\ pc[h] = "ack"
    /\ stream' = [stream EXCEPT ![msg[h]].state = "acked"]
    /\ Return(h)
    /\ UNCHANGED <<store, dlq, faults>>

\* The process dies, or a Redis or database call outside the try block (or in
\* its except branch) raises: nothing more happens to the message.
Abort(h) ==
    /\ pc[h] # "idle"
    /\ faults < MaxFaults
    /\ faults' = faults + 1
    /\ Return(h)
    /\ UNCHANGED <<stream, store, dlq>>

\* reclaim_idle_ms have passed since the last delivery.
MessageIdles(i) ==
    /\ stream[i].state = "pending"
    /\ stream' = [stream EXCEPT ![i].state = "reclaimable"]
    /\ UNCHANGED <<store, dlq, locals, faults>>

\* lease_expires_at has passed.
LeaseExpires(k) ==
    /\ task[k].status = "leased"
    /\ ~task[k].lease_expired
    /\ task' = [task EXCEPT ![k].lease_expired = TRUE]
    /\ UNCHANGED <<stream, trace, committed, dlq, locals, faults>>
-----------------------------------------------------------------------------
Init ==
    /\ stream = [i \in MsgIds |-> FreeEntry]
    /\ task = [k \in Keys |-> AbsentRow]
    /\ trace = [t \in Traces |-> [core_status          |-> "pending",
                                  enrichment_required  |-> FALSE,
                                  enrichment_status    |-> "not_required",
                                  enrichment_queued_at |-> FALSE]]
    /\ committed = [k \in Keys |-> 0]
    /\ dlq = [k \in Keys |-> 0]
    /\ pc = [h \in Handlers |-> "idle"]
    /\ msg = [h \in Handlers |-> 0]
    /\ attempt = [h \in Handlers |-> 0]
    /\ lapsed = [h \in Handlers |-> 0]
    /\ faults = 0

\* The steps a handler that holds a message takes by itself.
HandlerStep(h) ==
    \/ InsertTask(h) \/ ClaimTask(h) \/ Inspect(h)
    \/ BeginStage(h) \/ LoadTrace(h)
    \/ \E needed \in BOOLEAN : CompleteStage(h, needed)
    \/ LoseLease(h) \/ FailStage(h)
    \/ DeadLetter(h) \/ FailTerminally(h) \/ FailRetryably(h) \/ Requeue(h)
    \/ EnqueueEnrichment(h) \/ MarkEnqueued(h)
    \/ Ack(h)

Poll(h) == \E i \in MsgIds : Reclaim(h, i) \/ ReadNew(h, i)

Next ==
    \/ \E t \in Traces, kind \in Kinds : PublishTraceCaptured(t, kind)
    \/ \E h \in Handlers : Poll(h) \/ HandlerStep(h) \/ MarkEnqueuedFails(h) \/ Abort(h)
    \/ \E i \in MsgIds : MessageIdles(i)
    \/ \E k \in Keys : LeaseExpires(k)

Spec == Init /\ [][Next]_vars
(***************************************************************************)
(* Worker processes keep polling (process_redis_loop), a handler that      *)
(* holds a message keeps running, clocks advance.  Nothing obliges a crash *)
(* or an I/O error to happen, nor the gateway to capture anything.         *)
(***************************************************************************)
Fairness ==
    /\ \A h \in Handlers : WF_vars(Poll(h)) /\ WF_vars(HandlerStep(h))
    /\ \A i \in MsgIds : WF_vars(MessageIdles(i))
    /\ \A k \in Keys : WF_vars(LeaseExpires(k))

FairSpec == Spec /\ Fairness
-----------------------------------------------------------------------------
(* Safety *)

Published(k) == \E i \in MsgIds : stream[i].key = k /\ stream[i].kind = "job"
Pending(k) == \E i \in MsgIds : /\ stream[i].key = k
                                /\ stream[i].kind = "job"
                                /\ stream[i].state \in Unacked

\* However often a message is delivered, and whatever leases are lost on the
\* way, the results of a stage are committed exactly when its task succeeds, and
\* once (process, mark_succeeded and their single commit in main.py).
ResultsOnce ==
    \A k \in Keys : committed[k] = IF task[k].status = "succeeded" THEN 1 ELSE 0

\* A task that is succeeded or failed_terminal stays so: neither a late worker's
\* mark_* nor a redelivered message's claim_task reopens it.
FinalIsFinal ==
    [][\A k \in Keys : task[k].status \in Final => task'[k].status = task[k].status]_vars

\* No acknowledgement loses work.  A published stage that is not settled has an
\* unacknowledged message, and a core result that asks for enrichment has an
\* unacknowledged enrichment message or leaves the columns that make a
\* redelivered core message publish it (enqueue recovery).
NoLostWork ==
    /\ \A k \in Keys : Published(k) /\ task[k].status \notin Final => Pending(k)
    /\ \A t \in Traces :
          /\ task[<<t, "core">>].status = "succeeded"
          /\ trace[t].enrichment_required
          /\ task[<<t, "enrichment">>].status \notin Final
          => \/ Pending(<<t, "enrichment">>)
             \/ NeedsEnqueueRecovery(t) /\ Pending(<<t, "core">>)

\* A task fails terminally only after its dead letter was published, and no
\* redelivery of an exhausted task publishes a second one.
OneDeadLetter ==
    \A k \in Keys : /\ dlq[k] <= 1
                    /\ task[k].status = "failed_terminal" => dlq[k] = 1

\* Enrichment runs only for a trace whose core stage succeeded and asked for it.
EnrichmentFollowsCore ==
    \A t \in Traces :
        task[<<t, "enrichment">>].status # "absent" =>
            /\ task[<<t, "core">>].status = "succeeded"
            /\ trace[t].enrichment_required

\* When every handler has its own worker_id, results are only ever committed by
\* the newest claim of the task: an attempt whose lease was taken over is fenced
\* off by the guard of mark_succeeded, though it compares owners, not attempts.
CommitsAreFenced ==
    [][\A h \in Handlers :
          pc[h] = "process" /\ committed' # committed /\ pc'[h] # "process" =>
              attempt[h] = task[TaskOf(h)].attempt_count]_vars

-----------------------------------------------------------------------------
(* Liveness *)

\* A task that is leased for the last time and whose lease has run out can be
\* neither claimed nor, by its owner's later transactions, marked.
Stranded(k) ==
    /\ task[k].status = "leased"
    /\ task[k].lease_expired
    /\ task[k].attempt_count = MaxAttempts

\* Every published stage settles, unless its last attempt outlives its lease.
EventuallySettled ==
    \A k \in Keys : Published(k) ~> (task[k].status \in Final \/ Stranded(k))

\* A core result that asks for enrichment gets an enrichment message, even when
\* the publishing worker dies between its commit and the XADD.
EnrichmentEventuallyQueued ==
    \A t \in Traces :
        (task[<<t, "core">>].status = "succeeded" /\ trace[t].enrichment_required)
            ~> Published(<<t, "enrichment">>)

\* Once a task is settled, all of its messages are acknowledged in the end.
SettledIsDrained ==
    \A k \in Keys : (task[k].status \in Final) ~> ~Pending(k)

\* docs: another worker takes an expired lease over, so every published stage
\* ends succeeded or failed_terminal.
EveryTaskSettles ==
    \A k \in Keys : Published(k) ~> task[k].status \in Final

-----------------------------------------------------------------------------
(* The status columns of traces *)

\* ARCHITECTURE.md: core_status and enrichment_status go pending -> processing ->
\* completed, each for its own stage.
CompletedIsFinal ==
    [][\A t \in Traces :
          /\ trace[t].core_status = "completed" => trace'[t].core_status = "completed"
          /\ trace[t].enrichment_status = "completed"
                 => trace'[t].enrichment_status = "completed"]_vars

\* They leave completed by two writes only, both of which look at no lease: the
\* mark_trace_stage_processing of an attempt that was overtaken, and, for enrichment, the
\* mark_trace_enrichment_enqueued of a core worker that the enrichment has overtaken.
\* The task is succeeded by then and stays so.
ReopenedOnlyByTheOvertaken ==
    [][\A t \in Traces :
          /\ trace[t].core_status = "completed" /\ trace'[t].core_status # "completed" =>
                /\ task[<<t, "core">>].status = "succeeded"
                /\ \E h \in Handlers : pc[h] = "begin" /\ pc'[h] = "load"
                                      /\ TaskOf(h) = <<t, "core">>
          /\ trace[t].enrichment_status = "completed"
             /\ trace'[t].enrichment_status # "completed" =>
                /\ task[<<t, "enrichment">>].status = "succeeded"
                /\ \E h \in Handlers :
                      \/ pc[h] = "enqueued" /\ pc'[h] = "ack" /\ TraceOf(h) = t
                      \/ pc[h] = "begin" /\ pc'[h] = "load" /\ TaskOf(h) = <<t, "enrichment">>]_vars
-----------------------------------------------------------------------------
(* Refinement *)

Outcome(status) ==
    CASE status = "succeeded"       -> "done"
      [] status = "failed_terminal" -> "dead"
      [] OTHER                      -> "open"

Abstract == INSTANCE StageOutcomes WITH
    outcome  <- [k \in Keys |-> Outcome(task[k].status)],
    results  <- committed,
    demanded <- [t \in Traces |-> trace[t].enrichment_required]

\* Streams, leases, retries and recovery implement the abstract outcomes: every
\* step of every handler settles one ready stage or changes no outcome.
RefinesOutcomes == Abstract!Spec
=============================================================================

----------------------- MODULE PipelineDelivery_proofs -----------------------
(***************************************************************************)
(* Messages and results: enrichment follows core, no acknowledgement loses *)
(* work, and the pipeline implements StageOutcomes.                        *)
(*                                                                         *)
(* Order says why an enrichment message exists; NothingLost strengthens    *)
(* NoLostWork: the message left over must be one that no handler has       *)
(* already decided to acknowledge.                                         *)
(***************************************************************************)
EXTENDS AnalysisPipeline_proofs

\* The core stage of a trace has succeeded and asked for enrichment.
CoreAsked(t) ==
    /\ task[<<t, "core">>].status = "succeeded"
    /\ trace[t].enrichment_required

\* A task exists only for a published message; an enrichment message only for a
\* core result that asked for it.
Order ==
    /\ \A k \in Keys : task[k].status # "absent" => Published(k)
    /\ \A t \in Traces : Published(<<t, "enrichment">>) => CoreAsked(t)
    /\ \A h \in Handlers :
          /\ pc[h] \in {"enqueue", "enqueued"} =>
                TaskOf(h) = <<TraceOf(h), "core">> /\ CoreAsked(TraceOf(h))
          /\ pc[h] = "enqueued" => Published(<<TraceOf(h), "enrichment">>)

\* What was published stays published.
LEMMA PublishedStays ==
    ASSUME IType, [Next]_vars, NEW k \in Keys, Published(k)
    PROVE  Published(k)'
BY StepsKeepEntries DEF IType, KeepsEntries, Published

\* A busy handler's task was published.
LEMMA HeldIsPublished ==
    ASSUME IType, NEW h \in Handlers, pc[h] # "idle"
    PROVE  Published(TaskOf(h))
BY DEF IType, Holding, Published, TaskOf

\* Delivering, idling and acknowledging publish nothing.
LEMMA MovingPublishesNothing ==
    ASSUME TypeOK, NEW i \in MsgIds, NEW s \in EntryState, stream[i].state # "free",
           stream' = [stream EXCEPT ![i].state = s], NEW k \in Keys
    PROVE  Published(k)' => Published(k)
<1>1. \A j \in MsgIds : stream'[j].key = stream[j].key /\ stream'[j].kind = stream[j].kind
  BY EntriesTyped DEF TypeOK
<1>2. QED
  BY <1>1 DEF Published

\* XADD publishes its own task and no other.
LEMMA PublishingPublishes ==
    ASSUME TypeOK, NEW key \in Keys, NEW kind, Publish(key, kind), NEW k \in Keys
    PROVE  Published(k)' => Published(k) \/ (k = key /\ kind = "job")
BY DEF Publish, Published, TypeOK

\* What a step may add to the streams: requeueing a message adds nothing new.
LEMMA NewMessages ==
    ASSUME IType, [Next]_vars, NEW k \in Keys, Published(k)', ~Published(k)
    PROVE  \/ \E t \in Traces : PublishTraceCaptured(t, "job") /\ k = <<t, "core">>
           \/ \E h \in Handlers : EnqueueEnrichment(h) /\ k = <<TraceOf(h), "enrichment">>
<1>1. CASE \E t \in Traces, kind \in Kinds : PublishTraceCaptured(t, kind)
  <2>1. PICK t \in Traces, kind \in Kinds : PublishTraceCaptured(t, kind)
    BY <1>1
  <2>2. <<t, "core">> \in Keys
    BY DEF Keys, Stages
  <2>3. QED
    BY <2>1, <2>2, PublishingPublishes DEF PublishTraceCaptured, IType
<1>2. ASSUME NEW h \in Handlers, NEW i \in MsgIds, Reclaim(h, i) \/ ReadNew(h, i)
      PROVE  FALSE
  <2>1. stream[i].state # "free"
    BY <1>2 DEF Reclaim, ReadNew, InStream
  <2>2. PICK s \in {"acked", "pending"} : stream' = [stream EXCEPT ![i].state = s]
    BY <1>2 DEF Reclaim, ReadNew, Deliver
  <2>3. QED
    BY <2>1, <2>2, MovingPublishesNothing, Zenon DEF IType, EntryState
<1>3. ASSUME NEW h \in Handlers, Requeue(h) PROVE FALSE
  <2>1. TaskOf(h) \in Keys /\ Published(TaskOf(h))
    BY <1>3, BusyHandlers, HeldIsPublished DEF Requeue
  <2>2. QED
    BY <1>3, <2>1, PublishingPublishes DEF Requeue, IType
<1>4. ASSUME NEW h \in Handlers, EnqueueEnrichment(h)
      PROVE  k = <<TraceOf(h), "enrichment">>
  <2>1. <<TraceOf(h), "enrichment">> \in Keys
    BY <1>4, BusyHandlers DEF EnqueueEnrichment, Keys, Stages
  <2>2. QED
    BY <1>4, <2>1, PublishingPublishes DEF EnqueueEnrichment, IType
<1>5. ASSUME NEW h \in Handlers, Ack(h) PROVE FALSE
  <2>1. msg[h] \in MsgIds /\ stream[msg[h]].state # "free"
    BY <1>5, HeldEntries DEF Ack, IType
  <2>2. QED
    BY <1>5, <2>1, MovingPublishesNothing, Zenon DEF Ack, IType, EntryState
<1>6. ASSUME NEW i \in MsgIds, MessageIdles(i) PROVE FALSE
  BY <1>6, MovingPublishesNothing, Zenon DEF MessageIdles, IType, EntryState
<1>7. CASE UNCHANGED stream
  BY <1>7 DEF Published
<1>8. QED
  BY <1>1, <1>2, <1>3, <1>4, <1>5, <1>6, <1>7, StreamSteps

\* The transactions that touch the status columns.
LEMMA TraceSteps ==
    ASSUME [Next]_vars
    PROVE  \/ \E h \in Handlers : BeginStage(h) \/ MarkEnqueued(h)
           \/ \E h \in Handlers, needed \in BOOLEAN : CompleteStage(h, needed)
           \/ \E h \in Handlers : FailTerminally(h) \/ FailRetryably(h)
           \/ UNCHANGED trace
BY ZenonT(30) DEF Next, HandlerStep, Poll, vars, store, PublishTraceCaptured, Reclaim, ReadNew, Deliver,
       InsertTask, ClaimTask, Inspect, LoadTrace, LoseLease, FailStage, DeadLetter, Requeue,
       EnqueueEnrichment, MarkEnqueuedFails, Ack, Abort, MessageIdles, LeaseExpires

\* What each update of traces does to enrichment_required.
LEMMA RequiredColumn ==
    ASSUME NEW row \in TraceRow
    PROVE  /\ \A stage \in Stages :
                  ProcessingTrace(row, stage).enrichment_required = row.enrichment_required
           /\ \A stage \in Stages, b \in BOOLEAN :
                  FailedTrace(row, stage, b).enrichment_required = row.enrichment_required
           /\ \A stage \in Stages, b \in BOOLEAN :
                  CompletedTrace(row, stage, b).enrichment_required
                      = IF stage = "core" THEN b ELSE row.enrichment_required
           /\ EnqueuedTrace(row).enrichment_required
<1>1. ASSUME NEW stage \in Stages
      PROVE  ProcessingTrace(row, stage).enrichment_required = row.enrichment_required
  BY DEF ProcessingTrace, TraceRow
<1>2. ASSUME NEW stage \in Stages, NEW b \in BOOLEAN
      PROVE  FailedTrace(row, stage, b).enrichment_required = row.enrichment_required
  BY DEF FailedTrace, TraceRow
<1>3. ASSUME NEW stage \in Stages, NEW b \in BOOLEAN
      PROVE  CompletedTrace(row, stage, b).enrichment_required
                 = IF stage = "core" THEN b ELSE row.enrichment_required
  BY DEF CompletedTrace, TraceRow
<1>4. EnqueuedTrace(row).enrichment_required
  BY DEF EnqueuedTrace, TraceRow
<1>5. QED
  BY <1>1, <1>2, <1>3, <1>4

\* The commit of a stage writes enrichment_required of its own trace, in the core
\* stage only.
LEMMA CompletingRequired ==
    ASSUME IType, NEW h \in Handlers, NEW needed \in BOOLEAN, CompleteStage(h, needed),
           NEW t \in Traces
    PROVE  IF TaskOf(h) = <<t, "core">>
           THEN trace'[t].enrichment_required = needed
           ELSE trace'[t].enrichment_required = trace[t].enrichment_required
<1>1. TaskOf(h) = <<t, "core">> <=> TraceOf(h) = t /\ TaskOf(h)[2] = "core"
  BY BusyHandlers DEF CompleteStage, TraceOf, Keys
<1>2. /\ trace[TraceOf(h)] \in TraceRow /\ TaskOf(h)[2] \in Stages
      /\ trace' = [trace EXCEPT ![TraceOf(h)] =
                       CompletedTrace(trace[TraceOf(h)], TaskOf(h)[2], needed)]
  BY BusyHandlers DEF CompleteStage
<1>3. CompletedTrace(trace[TraceOf(h)], TaskOf(h)[2], needed).enrichment_required
          = IF TaskOf(h)[2] = "core" THEN needed ELSE trace[TraceOf(h)].enrichment_required
  BY <1>2, RequiredColumn
<1>4. trace'[t] = IF TraceOf(h) = t
                  THEN CompletedTrace(trace[TraceOf(h)], TaskOf(h)[2], needed)
                  ELSE trace[t]
  BY <1>2 DEF IType, TypeOK
<1>5. QED
  BY <1>1, <1>3, <1>4

\* Who writes the column enrichment_required.
LEMMA RequiredSteps ==
    ASSUME IType, [Next]_vars, NEW t \in Traces
    PROVE  \/ trace'[t].enrichment_required = trace[t].enrichment_required
           \/ \E h \in Handlers, needed \in BOOLEAN :
                 /\ CompleteStage(h, needed)
                 /\ TaskOf(h) = <<t, "core">>
                 /\ trace'[t].enrichment_required = needed
           \/ \E h \in Handlers : /\ MarkEnqueued(h)
                                  /\ TraceOf(h) = t
                                  /\ trace'[t].enrichment_required
<1>1. ASSUME NEW h \in Handlers, NEW row, trace' = [trace EXCEPT ![TraceOf(h)] = row]
      PROVE  trace'[t] = IF TraceOf(h) = t THEN row ELSE trace[t]
  BY <1>1 DEF IType, TypeOK
<1>2. ASSUME NEW h \in Handlers, BeginStage(h)
      PROVE  trace'[t].enrichment_required = trace[t].enrichment_required
  BY <1>1, <1>2, BusyHandlers, RequiredColumn DEF BeginStage
<1>3. ASSUME NEW h \in Handlers, MarkEnqueued(h)
      PROVE  IF TraceOf(h) = t THEN trace'[t].enrichment_required ELSE trace'[t] = trace[t]
  <2>1. trace[TraceOf(h)] \in TraceRow
    BY <1>3, BusyHandlers DEF MarkEnqueued
  <2>2. EnqueuedTrace(trace[TraceOf(h)]).enrichment_required
    BY <2>1, RequiredColumn
  <2>3. QED
    BY <1>1, <1>3, <2>2, Zenon DEF MarkEnqueued
<1>4. ASSUME NEW h \in Handlers, NEW needed \in BOOLEAN, CompleteStage(h, needed)
      PROVE  IF TaskOf(h) = <<t, "core">>
             THEN trace'[t].enrichment_required = needed
             ELSE trace'[t].enrichment_required = trace[t].enrichment_required
  BY <1>4, CompletingRequired
<1>5. ASSUME NEW h \in Handlers, FailTerminally(h) \/ FailRetryably(h)
      PROVE  trace'[t].enrichment_required = trace[t].enrichment_required
  <2>1. trace[TraceOf(h)] \in TraceRow /\ TaskOf(h)[2] \in Stages
    BY <1>5, BusyHandlers, Zenon DEF FailTerminally, FailRetryably
  <2>2. \/ UNCHANGED trace
        \/ \E b \in BOOLEAN : trace' = [trace EXCEPT ![TraceOf(h)] =
                                  FailedTrace(trace[TraceOf(h)], TaskOf(h)[2], b)]
    BY <1>5, Zenon DEF FailTerminally, FailRetryably, RecordFailure
  <2>3. \A b \in BOOLEAN : FailedTrace(trace[TraceOf(h)], TaskOf(h)[2], b).enrichment_required
                               = trace[TraceOf(h)].enrichment_required
    BY <2>1, RequiredColumn
  <2>4. QED
    BY <1>1, <2>2, <2>3
<1>6. QED
  BY <1>2, <1>3, <1>4, <1>5, TraceSteps

\* Once a core result has asked for enrichment, no later step withdraws it.
LEMMA CoreAskedStays ==
    ASSUME IType, [Next]_vars, NEW t \in Traces, CoreAsked(t)
    PROVE  CoreAsked(t)'
<1>1. <<t, "core">> \in Keys
  BY DEF Keys, Stages
<1>2. task'[<<t, "core">>].status = "succeeded"
  BY <1>1, SettlingSteps DEF CoreAsked, Final
<1>3. trace'[t].enrichment_required
  BY RequiredSteps DEF CoreAsked, CompleteStage, HoldsLease
<1>4. QED
  BY <1>2, <1>3 DEF CoreAsked

\* How a handler comes to publish or to record an enrichment message.
LEMMA EnqueueSteps ==
    ASSUME IType, [Next]_vars, NEW h \in Handlers
    PROVE  /\ pc'[h] = "enqueue" => \/ pc[h] = "enqueue"
                                    \/ CompleteStage(h, TRUE) /\ TaskOf(h)[2] = "core"
                                    \/ /\ Inspect(h)
                                       /\ task[TaskOf(h)].status = "succeeded"
                                       /\ TaskOf(h)[2] = "core"
                                       /\ NeedsEnqueueRecovery(TraceOf(h))
           /\ pc'[h] = "enqueued" => pc[h] = "enqueued" \/ EnqueueEnrichment(h)
<1> USE DEF IType, TypeOK, Goto, Return
<1>1. CASE \E needed \in BOOLEAN : CompleteStage(h, needed)
  BY <1>1, Zenon DEF CompleteStage
<1>2. CASE Inspect(h)
  BY <1>2, Zenon DEF Inspect
<1>3. CASE EnqueueEnrichment(h)
  BY <1>3 DEF EnqueueEnrichment
<1>4. CASE /\ ~\E needed \in BOOLEAN : CompleteStage(h, needed)
           /\ ~Inspect(h)
           /\ ~EnqueueEnrichment(h)
  BY <1>4, OwnSteps, Zenon DEF HandlerStep, Poll, Reclaim, ReadNew, Deliver, InsertTask, ClaimTask,
     BeginStage, LoadTrace, LoseLease, FailStage, DeadLetter, FailTerminally, FailRetryably,
     RecordFailure, Requeue, MarkEnqueued, MarkEnqueuedFails, Ack, Abort
<1>5. QED
  BY <1>1, <1>2, <1>3, <1>4, Zenon

\* Why a handler decides to acknowledge its message.
LEMMA AckSteps ==
    ASSUME IType, [Next]_vars, NEW h \in Handlers, pc[h] # "ack", pc'[h] = "ack"
    PROVE  \/ /\ Inspect(h)
              /\ task[TaskOf(h)].status \in Final
              /\ ~(TaskOf(h)[2] = "core" /\ NeedsEnqueueRecovery(TraceOf(h)))
                 \/ task[TaskOf(h)].status # "succeeded"
           \/ \E needed \in BOOLEAN : /\ CompleteStage(h, needed)
                                      /\ ~(TaskOf(h)[2] = "core" /\ needed)
           \/ /\ FailTerminally(h)
              /\ task[TaskOf(h)].status = "leased"
              /\ task' = [task EXCEPT ![TaskOf(h)] = mark_failed_terminal(@)]
           \/ Requeue(h)
           \/ MarkEnqueued(h)
<1> USE DEF IType, TypeOK, Goto, Return
<1>1. CASE \E needed \in BOOLEAN : CompleteStage(h, needed)
  BY <1>1, Zenon DEF CompleteStage
<1>2. CASE Inspect(h)
  BY <1>2 DEF Inspect, Final
<1>3. CASE FailTerminally(h)
  BY <1>3, Zenon DEF FailTerminally, RecordFailure, HoldsLease
<1>4. CASE FailRetryably(h)
  BY <1>4, Zenon DEF FailRetryably, RecordFailure
<1>5. CASE Poll(h) \/ InsertTask(h) \/ ClaimTask(h) \/ BeginStage(h) \/ LoadTrace(h) \/ LoseLease(h)
           \/ FailStage(h) \/ DeadLetter(h) \/ EnqueueEnrichment(h) \/ MarkEnqueuedFails(h)
           \/ Ack(h) \/ Abort(h)
  BY <1>5 DEF Poll, Reclaim, ReadNew, Deliver, InsertTask, ClaimTask, BeginStage, LoadTrace,
     LoseLease, FailStage, DeadLetter, EnqueueEnrichment, MarkEnqueuedFails, Ack, Abort
<1>6. QED
  BY <1>1, <1>2, <1>3, <1>4, <1>5, OwnSteps DEF HandlerStep

\* A published job is on its stream.
LEMMA PublishingAdds ==
    ASSUME TypeOK, NEW key \in Keys, Publish(key, "job")
    PROVE  Published(key)'
BY DEF TypeOK, Publish, Published

\* A task row changes under a handler that holds its message, or by the clock.
LEMMA TaskChanges ==
    ASSUME IType, [Next]_vars, NEW k \in Keys, task'[k] # task[k]
    PROVE  \/ LeaseExpires(k)
           \/ \E h \in Handlers : pc[h] # "idle" /\ TaskOf(h) = k
<1>1. ASSUME NEW h \in Handlers, NEW row, task' = [task EXCEPT ![TaskOf(h)] = row]
      PROVE  TaskOf(h) = k
  BY <1>1 DEF IType, TypeOK
<1>2. CASE \E h \in Handlers, needed \in BOOLEAN : CompleteStage(h, needed)
  BY <1>1, <1>2 DEF CompleteStage
<1>3. CASE \E h \in Handlers : InsertTask(h) \/ ClaimTask(h)
  BY <1>1, <1>3 DEF InsertTask, ClaimTask
<1>4. CASE \E h \in Handlers : FailTerminally(h) \/ FailRetryably(h)
  BY <1>1, <1>4, Zenon DEF FailTerminally, FailRetryably, RecordFailure
<1>5. CASE \E j \in Keys : LeaseExpires(j)
  BY <1>5, Zenon DEF LeaseExpires, IType, TypeOK
<1>6. QED
  BY <1>2, <1>3, <1>4, <1>5, TaskSteps

\* Order is inductive relative to IType.
LEMMA OrderStep == IType /\ IType' /\ Order /\ [Next]_vars => Order'
<1> SUFFICES ASSUME IType, IType', Order, [Next]_vars PROVE Order'
  OBVIOUS
<1>1. ASSUME NEW k \in Keys, task'[k].status # "absent" PROVE Published(k)'
  <2>1. CASE task[k].status # "absent"
    BY <2>1, PublishedStays DEF Order
  <2>2. CASE task[k].status = "absent"
    <3>1. PICK h \in Handlers : /\ pc[h] # "idle"
                                /\ TaskOf(h) = k
      BY <1>1, <2>2, TaskChanges DEF LeaseExpires
    <3>2. QED
      BY <3>1, HeldIsPublished, PublishedStays
  <2>3. QED
    BY <2>1, <2>2
<1>2. ASSUME NEW t \in Traces, Published(<<t, "enrichment">>)' PROVE CoreAsked(t)'
  <2>1. <<t, "enrichment">> \in Keys
    BY DEF Keys, Stages
  <2>2. CASE Published(<<t, "enrichment">>)
    BY <2>2, CoreAskedStays DEF Order
  <2>3. CASE ~Published(<<t, "enrichment">>)
    <3>1. PICK h \in Handlers : EnqueueEnrichment(h) /\ TraceOf(h) = t
      BY <1>2, <2>1, <2>3, NewMessages
    <3>2. CoreAsked(t)
      BY <3>1 DEF EnqueueEnrichment, Order
    <3>3. QED
      BY <3>2, CoreAskedStays
  <2>4. QED
    BY <2>2, <2>3
<1>3. ASSUME NEW h \in Handlers, pc'[h] \in {"enqueue", "enqueued"}
      PROVE  TaskOf(h)' = <<TraceOf(h)', "core">> /\ CoreAsked(TraceOf(h))'
  <2>1. pc[h] # "idle"
    BY <1>3, EnqueueSteps, Zenon DEF CompleteStage, Inspect, EnqueueEnrichment
  <2>2. /\ TaskOf(h)' = TaskOf(h) /\ TraceOf(h)' = TraceOf(h)
        /\ TraceOf(h) \in Traces /\ TaskOf(h) \in Keys
    BY <1>3, <2>1, HandlersKeepTask, BusyHandlers
  <2>3. CASE pc[h] \in {"enqueue", "enqueued"}
    BY <2>2, <2>3, CoreAskedStays, Zenon DEF Order, CoreAsked
  <2>4. CASE CompleteStage(h, TRUE) /\ TaskOf(h)[2] = "core"
    <3>1. TaskOf(h) = <<TraceOf(h), "core">>
      BY <2>2, <2>4 DEF TraceOf, Keys
    <3>2. task'[TaskOf(h)].status = "succeeded"
      BY <2>1, <2>4, BusyHandlers, StatusAfter DEF CompleteStage, IType, TypeOK
    <3>3. CompletedTrace(trace[TraceOf(h)], TaskOf(h)[2], TRUE).enrichment_required
      BY <2>1, <2>4, BusyHandlers, RequiredColumn, ZenonT(30)
    <3>4. trace'[TraceOf(h)].enrichment_required
      BY <2>2, <2>4, <3>3, Zenon DEF CompleteStage, IType, TypeOK
    <3>5. QED
      BY <2>2, <3>1, <3>2, <3>4 DEF CoreAsked
  <2>5. CASE /\ Inspect(h)
             /\ task[TaskOf(h)].status = "succeeded"
             /\ TaskOf(h)[2] = "core"
             /\ NeedsEnqueueRecovery(TraceOf(h))
    <3>1. TaskOf(h) = <<TraceOf(h), "core">>
      BY <2>2, <2>5 DEF TraceOf, Keys
    <3>2. CoreAsked(TraceOf(h))
      BY <2>5, <3>1 DEF CoreAsked, NeedsEnqueueRecovery
    <3>3. QED
      BY <2>2, <3>1, <3>2, CoreAskedStays DEF CoreAsked
  <2>6. QED
    BY <1>3, <2>3, <2>4, <2>5, EnqueueSteps, Zenon DEF EnqueueEnrichment
<1>4. ASSUME NEW h \in Handlers, pc'[h] = "enqueued"
      PROVE  Published(<<TraceOf(h), "enrichment">>)'
  <2>1. pc[h] # "idle"
    BY <1>4, EnqueueSteps, Zenon DEF EnqueueEnrichment
  <2>2. TraceOf(h)' = TraceOf(h) /\ <<TraceOf(h), "enrichment">> \in Keys
    BY <1>4, <2>1, HandlersKeepTask, BusyHandlers DEF Keys, Stages
  <2>3. CASE pc[h] = "enqueued"
    BY <2>2, <2>3, PublishedStays DEF Order, Published
  <2>4. CASE EnqueueEnrichment(h)
    BY <2>2, <2>4, PublishingAdds DEF EnqueueEnrichment, IType, Published
  <2>5. QED
    BY <1>4, <2>3, <2>4, EnqueueSteps, Zenon
<1>5. QED
  BY <1>1, <1>2, <1>3, <1>4 DEF Order

\* Order holds initially: nothing is published.
LEMMA OrderInit == Init => Order
<1> SUFFICES ASSUME Init PROVE Order
  OBVIOUS
<1>1. \A k \in Keys : ~Published(k)
  BY FreeEntryHasNoKey DEF Init, Published
<1>2. \A t \in Traces : <<t, "enrichment">> \in Keys
  BY DEF Keys, Stages
<1>3. QED
  BY <1>1, <1>2 DEF Init, Order, AbsentRow

\* Order holds always.
LEMMA OrderInvariant == Spec => [](IType /\ Order)
BY ITypeInit, ITypeStep, OrderInit, OrderStep, PTL DEF Spec

\* Enrichment runs only for a trace whose core stage succeeded and asked for it.
THEOREM EnrichmentIsOrdered == Spec => []EnrichmentFollowsCore
<1>1. Order => EnrichmentFollowsCore
  BY DEF Order, EnrichmentFollowsCore, CoreAsked, Keys, Stages
<1>2. QED
  BY <1>1, OrderInvariant, PTL
-----------------------------------------------------------------------------
(* No work is lost *)

\* An unacknowledged message that no handler is about to acknowledge.
Live(i) ==
    /\ stream[i].state \in Unacked
    /\ stream[i].kind = "job"
    /\ \A h \in Handlers : ~(pc[h] = "ack" /\ msg[h] = i)

\* The task has a message somebody will still have to deal with.
HasLive(k) == \E i \in MsgIds : stream[i].key = k /\ Live(i)

\* The inductive form of NoLostWork.
NothingLost ==
    /\ \A k \in Keys : Published(k) /\ task[k].status \notin Final => HasLive(k)
    /\ \A t \in Traces :
          CoreAsked(t) => \/ Published(<<t, "enrichment">>)
                          \/ NeedsEnqueueRecovery(t) /\ HasLive(<<t, "core">>)

\* A handler about to acknowledge was busy before, with the same message.
LEMMA AckersWereBusy ==
    ASSUME IType, [Next]_vars, NEW h \in Handlers, pc'[h] = "ack"
    PROVE  pc[h] # "idle" /\ msg'[h] = msg[h]
<1>1. pc[h] # "idle"
  BY AckSteps, Zenon DEF Inspect, CompleteStage, FailTerminally, Requeue, MarkEnqueued
<1>2. QED
  BY <1>1, HandlersKeepTask

\* A task keeps its live message until a handler of that task decides to
\* acknowledge.
LEMMA LiveStays ==
    ASSUME IType, [Next]_vars, NEW k \in Keys, HasLive(k),
           \A h \in Handlers : pc[h] # "ack" /\ pc'[h] = "ack" => TaskOf(h) # k
    PROVE  HasLive(k)'
<1>1. PICK i \in MsgIds : stream[i].key = k /\ Live(i)
  BY DEF HasLive
<1>2. stream'[i].key = k /\ stream'[i].kind = "job"
  BY <1>1, StepsKeepEntries DEF IType, KeepsEntries, Live
<1>3. stream'[i].state \in Unacked
  <2> USE DEF IType, TypeOK, Unacked
  <2>0. stream[i].state \in Unacked /\ stream[i].kind = "job"
    BY <1>1 DEF Live
  <2>publish. ASSUME NEW key, NEW kind, Publish(key, kind) PROVE stream'[i] = stream[i]
    BY <2>publish, <2>0 DEF Publish
  <2>move. ASSUME NEW j \in MsgIds, NEW s \in Unacked, stream' = [stream EXCEPT ![j].state = s]
        PROVE  stream'[i].state \in Unacked
    <3>1. CASE j # i
      BY <2>move, <2>0, <3>1
    <3>2. CASE j = i
      <4>1. [stream[i] EXCEPT !.state = s].state = s
        BY <2>0, EntriesTyped DEF EntryState
      <4>2. QED
        BY <2>move, <3>2, <4>1
    <3>3. QED
      BY <3>1, <3>2
  <2>1. CASE \E t \in Traces, kind \in Kinds : PublishTraceCaptured(t, kind)
    BY <2>1, <2>0, <2>publish, Zenon DEF PublishTraceCaptured
  <2>2. ASSUME NEW h \in Handlers, NEW j \in MsgIds, Reclaim(h, j) \/ ReadNew(h, j)
        PROVE  stream'[i].state \in Unacked
    <3>1. CASE stream[j].kind = "unknown_stage"
      BY <2>2, <3>1, <2>0 DEF Reclaim, ReadNew, Deliver
    <3>2. CASE stream[j].kind # "unknown_stage"
      BY <2>2, <3>2, <2>move, Zenon DEF Reclaim, ReadNew, Deliver
    <3>3. QED
      BY <3>1, <3>2
  <2>3. CASE \E h \in Handlers : Requeue(h) \/ EnqueueEnrichment(h)
    BY <2>3, <2>0, <2>publish DEF Requeue, EnqueueEnrichment
  <2>4. ASSUME NEW h \in Handlers, Ack(h) PROVE stream'[i].state \in Unacked
    BY <2>4, <2>0, <1>1 DEF Ack, Live
  <2>5. ASSUME NEW j \in MsgIds, MessageIdles(j) PROVE stream'[i].state \in Unacked
    BY <2>5, <2>move, Zenon DEF MessageIdles
  <2>6. QED
    BY <2>0, <2>1, <2>2, <2>3, <2>4, <2>5, StreamSteps
<1>4. ASSUME NEW h \in Handlers, pc'[h] = "ack" PROVE msg'[h] # i
  <2>1. msg'[h] = msg[h]
    BY <1>4, AckersWereBusy, Zenon
  <2>2. QED
    BY <1>1, <1>4, <2>1 DEF Live, TaskOf
<1>5. QED
  BY <1>2, <1>3, <1>4 DEF HasLive, Live

\* A message is live when it has just been published.
LEMMA PublishedIsLive ==
    ASSUME IType, [Next]_vars, NEW key \in Keys, Publish(key, "job")
    PROVE  HasLive(key)'
<1>1. PICK i \in MsgIds :
          /\ stream[i].state = "free"
          /\ stream' = [stream EXCEPT ![i] = [key |-> key, kind |-> "job", state |-> "new"]]
  BY Zenon DEF Publish
<1>2. stream'[i] = [key |-> key, kind |-> "job", state |-> "new"]
  BY <1>1, Zenon DEF IType, TypeOK
<1>3. ASSUME NEW h \in Handlers, pc'[h] = "ack" PROVE msg'[h] # i
  BY <1>1, <1>3, AckersWereBusy, HeldEntries DEF IType
<1>4. QED
  BY <1>2, <1>3 DEF HasLive, Live, Unacked

\* The updates of the core stage other than its commit leave the enrichment
\* columns alone.
LEMMA CoreKeepsEnrichmentColumns ==
    ASSUME NEW row \in TraceRow,
           NEW new \in {ProcessingTrace(row, "core"), FailedTrace(row, "core", TRUE),
                        FailedTrace(row, "core", FALSE)}
    PROVE  /\ new.enrichment_required = row.enrichment_required
           /\ new.enrichment_status = row.enrichment_status
           /\ new.enrichment_queued_at = row.enrichment_queued_at
BY DEF TraceRow, ProcessingTrace, FailedTrace

\* The columns that make a redelivered core message publish the enrichment message
\* last until it is published.
LEMMA RecoveryStays ==
    ASSUME IType, Order, [Next]_vars, NEW t \in Traces, CoreAsked(t),
           NeedsEnqueueRecovery(t), ~Published(<<t, "enrichment">>)'
    PROVE  NeedsEnqueueRecovery(t)'
<1>1. <<t, "enrichment">> \in Keys /\ ~Published(<<t, "enrichment">>)
  BY PublishedStays DEF Keys, Stages
<1>2. ASSUME NEW h \in Handlers, pc[h] # "idle", TraceOf(h) = t
      PROVE  /\ TaskOf(h) = <<t, "core">>
             /\ TaskOf(h)[2] = "core"
             /\ task[TaskOf(h)].status = "succeeded"
             /\ pc[h] # "enqueued"
             /\ trace[t] \in TraceRow
  <2>1. TaskOf(h) \in Keys /\ TaskOf(h) # <<t, "enrichment">> /\ trace[t] \in TraceRow
    BY <1>1, <1>2, BusyHandlers, HeldIsPublished
  <2>2. TaskOf(h) = <<t, "core">>
    BY <1>2, <2>1 DEF Keys, Stages, TraceOf
  <2>3. QED
    BY <1>1, <1>2, <2>1, <2>2 DEF Order, CoreAsked
<1>3. ASSUME NEW h \in Handlers, pc[h] # "idle",
             NEW new \in {ProcessingTrace(trace[TraceOf(h)], TaskOf(h)[2]),
                          FailedTrace(trace[TraceOf(h)], TaskOf(h)[2], TRUE),
                          FailedTrace(trace[TraceOf(h)], TaskOf(h)[2], FALSE)},
             trace' = [trace EXCEPT ![TraceOf(h)] = new]
      PROVE  NeedsEnqueueRecovery(t)'
  <2>1. CASE TraceOf(h) = t
    <3>1. /\ new.enrichment_required = trace[t].enrichment_required
          /\ new.enrichment_status = trace[t].enrichment_status
          /\ new.enrichment_queued_at = trace[t].enrichment_queued_at
      <4>1. new \in {ProcessingTrace(trace[t], "core"), FailedTrace(trace[t], "core", TRUE),
                     FailedTrace(trace[t], "core", FALSE)}
        BY <1>2, <1>3, <2>1, Zenon
      <4>2. QED
        BY <1>2, <1>3, <2>1, <4>1, CoreKeepsEnrichmentColumns, Zenon
    <3>2. QED
      BY <1>3, <2>1, <3>1, Zenon DEF NeedsEnqueueRecovery, IType, TypeOK
  <2>2. CASE TraceOf(h) # t
    BY <1>3, <2>2 DEF NeedsEnqueueRecovery, IType, TypeOK
  <2>3. QED
    BY <2>1, <2>2
<1>4. ASSUME NEW h \in Handlers, NEW needed \in BOOLEAN,
             MarkEnqueued(h) \/ CompleteStage(h, needed)
      PROVE  NeedsEnqueueRecovery(t)'
  <2>1. TraceOf(h) # t
    BY <1>2, <1>4 DEF MarkEnqueued, CompleteStage, HoldsLease
  <2>2. trace'[t] = trace[t]
    BY <1>4, <2>1 DEF MarkEnqueued, CompleteStage, IType, TypeOK
  <2>3. QED
    BY <2>2, Zenon DEF NeedsEnqueueRecovery
<1>5. ASSUME NEW h \in Handlers, BeginStage(h) PROVE NeedsEnqueueRecovery(t)'
  BY <1>3, <1>5, Zenon DEF BeginStage
<1>6. ASSUME NEW h \in Handlers, FailTerminally(h) \/ FailRetryably(h)
      PROVE  NeedsEnqueueRecovery(t)'
  <2>1. CASE UNCHANGED trace
    BY <2>1 DEF NeedsEnqueueRecovery
  <2>2. CASE trace' # trace
    BY <1>3, <1>6, <2>2, Zenon DEF FailTerminally, FailRetryably, RecordFailure
  <2>3. QED
    BY <2>1, <2>2
<1>7. CASE UNCHANGED trace
  BY <1>7, SMTT(30) DEF NeedsEnqueueRecovery
<1>8. QED
  BY <1>4, <1>5, <1>6, <1>7, TraceSteps, Zenon

\* NothingLost is inductive relative to IType and Order.
LEMMA NothingLostStep == IType /\ Order /\ NothingLost /\ [Next]_vars => NothingLost'
<1> SUFFICES ASSUME IType, Order, NothingLost, [Next]_vars PROVE NothingLost'
  BY Zenon
\* Whoever decides to acknowledge leaves a settled task or another message.
<1>1. ASSUME NEW h \in Handlers, NEW k \in Keys, TaskOf(h) = k,
             pc[h] # "ack", pc'[h] = "ack"
      PROVE  HasLive(k)' \/ task'[k].status \in Final
  <2>1. CASE task[k].status \in Final
    BY <2>1, SettlingSteps
  <2>2. CASE \E needed \in BOOLEAN : CompleteStage(h, needed)
    BY <1>1, <2>2, BusyHandlers, StatusAfter DEF CompleteStage, IType, TypeOK, Final
  <2>3. CASE FailTerminally(h) /\ task' = [task EXCEPT ![k] = mark_failed_terminal(@)]
    BY <1>1, <2>3, StatusAfter DEF IType, TypeOK, Final
  <2>4. CASE Requeue(h)
    BY <1>1, <2>4, PublishedIsLive DEF Requeue
  <2>5. CASE MarkEnqueued(h)
    BY <1>1, <2>1, <2>5, Zenon DEF MarkEnqueued, Order, CoreAsked, Final
  <2>6. QED
    BY <1>1, <2>1, <2>2, <2>3, <2>4, <2>5, AckSteps
<1>2. ASSUME NEW k \in Keys, Published(k)', task'[k].status \notin Final
      PROVE  HasLive(k)'
  <2>1. CASE Published(k)
    <3>1. HasLive(k)
      BY <1>2, <2>1, SettlingSteps DEF NothingLost
    <3>2. QED
      BY <1>1, <1>2, <3>1, LiveStays, Zenon
  <2>2. CASE ~Published(k)
    BY <1>2, <2>2, NewMessages, PublishedIsLive, Zenon DEF PublishTraceCaptured, EnqueueEnrichment
  <2>3. QED
    BY <2>1, <2>2
<1>3. ASSUME NEW t \in Traces, CoreAsked(t)', ~Published(<<t, "enrichment">>)'
      PROVE  NeedsEnqueueRecovery(t)' /\ HasLive(<<t, "core">>)'
  <2>1. <<t, "core">> \in Keys /\ <<t, "enrichment">> \in Keys
    BY DEF Keys, Stages
  <2>2. ~Published(<<t, "enrichment">>)
    BY <1>3, <2>1, PublishedStays, Zenon
  <2>3. CASE CoreAsked(t)
    <3>1. NeedsEnqueueRecovery(t) /\ HasLive(<<t, "core">>)
      BY <2>2, <2>3 DEF NothingLost
    <3>2. NeedsEnqueueRecovery(t)'
      BY <1>3, <2>3, <3>1, RecoveryStays, Zenon
    <3>3. ASSUME NEW h \in Handlers, TaskOf(h) = <<t, "core">>, pc[h] # "ack", pc'[h] = "ack"
          PROVE  Requeue(h)
      <4>1. TraceOf(h) = t /\ TaskOf(h)[2] = "core" /\ task[TaskOf(h)].status = "succeeded"
        BY <2>3, <3>3 DEF TraceOf, CoreAsked
      <4>2. ~MarkEnqueued(h)
        BY <2>2, <4>1 DEF MarkEnqueued, Order
      <4>3. QED
        BY <3>1, <3>3, <4>1, <4>2, AckSteps DEF CompleteStage, HoldsLease
    <3>4. ASSUME NEW h \in Handlers, Requeue(h), TaskOf(h) = <<t, "core">>
          PROVE  HasLive(<<t, "core">>)'
      BY <2>1, <3>4, PublishedIsLive DEF Requeue
    <3>5. QED
      BY <2>1, <3>1, <3>2, <3>3, <3>4, LiveStays, Zenon
  <2>4. CASE ~CoreAsked(t)
    <3>1. PICK h \in Handlers : CompleteStage(h, TRUE) /\ TaskOf(h) = <<t, "core">>
      <4>1. CASE task[<<t, "core">>].status # "succeeded"
        <5>1. PICK h \in Handlers, needed \in BOOLEAN : CompleteStage(h, needed)
          BY <1>3, <2>1, <4>1, SettlingSteps, Zenon DEF CoreAsked
        <5>2. TaskOf(h) = <<t, "core">>
          BY <1>3, <2>1, <4>1, <5>1, Zenon DEF CompleteStage, CoreAsked, IType, TypeOK
        <5>3. trace'[t].enrichment_required = needed
          BY <5>1, <5>2, CompletingRequired
        <5>4. needed = TRUE
          BY <1>3, <5>3 DEF CoreAsked
        <5>5. QED
          BY <5>1, <5>2, <5>4, ZenonT(30)
      <4>2. CASE task[<<t, "core">>].status = "succeeded"
        BY <1>3, <2>4, <4>2, RequiredSteps, Zenon
           DEF CoreAsked, MarkEnqueued, Order, CompleteStage, HoldsLease
      <4>3. QED
        BY <4>1, <4>2, Zenon
    <3>2. NeedsEnqueueRecovery(t)'
      <4>1. TraceOf(h) = t /\ TaskOf(h)[2] = "core"
        BY <3>1 DEF TraceOf
      <4>2. trace' = [trace EXCEPT ![t] = CompletedTrace(@, "core", TRUE)]
        BY <3>1, <4>1 DEF CompleteStage
      <4>3. trace \in [Traces -> TraceRow]
        BY DEF IType, TypeOK
      <4>4. trace'[t] = CompletedTrace(trace[t], "core", TRUE)
        BY <4>2, <4>3, Zenon
      <4>5. QED
        BY <4>4 DEF NeedsEnqueueRecovery, CompletedTrace
    <3>3. HasLive(<<t, "core">>)
      BY <2>1, <3>1, HeldIsPublished, Zenon DEF NothingLost, CompleteStage, HoldsLease, Final
    <3>4. \A g \in Handlers : pc[g] # "ack" => pc'[g] # "ack"
      BY <3>1 DEF CompleteStage, Goto, IType, TypeOK
    <3>5. QED
      BY <2>1, <3>2, <3>3, <3>4, LiveStays
  <2>5. QED
    BY <2>3, <2>4
<1>4. QED
  BY <1>2, <1>3 DEF NothingLost

\* No acknowledgement of _process_stream_message loses a published stage or the
\* enrichment a core result asked for.
THEOREM NoWorkIsLost == Spec => []NoLostWork
<1>1. Init => NothingLost
  <2> SUFFICES ASSUME Init PROVE NothingLost
    OBVIOUS
  <2>1. \A k \in Keys : ~Published(k)
    BY FreeEntryHasNoKey DEF Init, Published
  <2>2. \A t \in Traces : ~CoreAsked(t)
    BY Zenon DEF Init, CoreAsked
  <2>3. QED
    BY <2>1, <2>2 DEF NothingLost
<1>2. NothingLost => NoLostWork
  <2> SUFFICES ASSUME NothingLost PROVE NoLostWork
    OBVIOUS
  <2>1. \A k \in Keys : HasLive(k) => Pending(k)
    BY DEF HasLive, Live, Pending
  <2>2. \A t \in Traces : <<t, "core">> \in Keys /\ <<t, "enrichment">> \in Keys
    BY Zenon DEF Keys, Stages
  <2>3. QED
    BY <2>1, <2>2 DEF NothingLost, NoLostWork, CoreAsked
<1>3. QED
  BY <1>1, <1>2, NothingLostStep, ITypeInit, ITypeStep, OrderInit, OrderStep, PTL DEF Spec
-----------------------------------------------------------------------------
(* The pipeline implements StageOutcomes *)

\* Every step settles one stage, gives one up, or changes no outcome.
LEMMA OutcomeSteps ==
    ASSUME IType, Order, [Next]_vars
    PROVE  \/ \E k \in Keys : Abstract!Settle(k) \/ Abstract!GiveUp(k)
           \/ UNCHANGED <<[k \in Keys |-> Outcome(task[k].status)], committed,
                          [t \in Traces |-> trace[t].enrichment_required]>>
<1> DEFINE outcome == [k \in Keys |-> Outcome(task[k].status)]
           demanded == [t \in Traces |-> trace[t].enrichment_required]
<1>1. ASSUME NEW h \in Handlers, pc[h] # "idle", task[TaskOf(h)].status = "leased"
      PROVE  Abstract!Ready(TaskOf(h))
  <2>1. TaskOf(h) \in Keys /\ TraceOf(h) \in Traces /\ TraceOf(h) = TaskOf(h)[1]
    BY <1>1, BusyHandlers DEF TraceOf
  <2>2. outcome[TaskOf(h)] = "open"
    BY <1>1, <2>1 DEF Outcome
  <2>3. ASSUME TaskOf(h)[2] = "enrichment"
        PROVE  outcome[<<TraceOf(h), "core">>] = "done" /\ demanded[TraceOf(h)]
    <3>1. TaskOf(h) = <<TraceOf(h), "enrichment">>
      BY <2>1, <2>3 DEF Keys
    <3>2. CoreAsked(TraceOf(h))
      BY <1>1, <2>1, <3>1, HeldIsPublished DEF Order
    <3>3. <<TraceOf(h), "core">> \in Keys
      BY <2>1 DEF Keys, Stages
    <3>4. QED
      BY <2>1, <3>2, <3>3 DEF CoreAsked, Outcome
  <2>4. QED
    BY <2>1, <2>2, <2>3 DEF Abstract!Ready
<1>2. ASSUME NEW h \in Handlers, NEW needed \in BOOLEAN, CompleteStage(h, needed)
      PROVE  Abstract!Settle(TaskOf(h))
  <2>1. /\ TaskOf(h) \in Keys
        /\ TaskOf(h) = <<TaskOf(h)[1], TaskOf(h)[2]>>
        /\ TaskOf(h)[1] \in Traces
        /\ task' = [task EXCEPT ![TaskOf(h)] = mark_succeeded(task[TaskOf(h)])]
        /\ mark_succeeded(task[TaskOf(h)]).status = "succeeded"
    BY <1>2, BusyHandlers, StatusAfter DEF CompleteStage, Keys
  <2>2. Abstract!Ready(TaskOf(h))
    BY <1>1, <1>2 DEF CompleteStage, HoldsLease
  <2>3. outcome' = [outcome EXCEPT ![TaskOf(h)] = "done"]
    BY <2>1, Zenon DEF Outcome, IType, TypeOK
  <2>4. committed' = [committed EXCEPT ![TaskOf(h)] = committed[TaskOf(h)] + 1]
    BY <1>2 DEF CompleteStage
  <2>5. TaskOf(h)[2] = "core" => demanded' = [demanded EXCEPT ![TaskOf(h)[1]] = needed]
    <3>1. ASSUME NEW t \in Traces, TaskOf(h)[2] = "core"
          PROVE  trace'[t].enrichment_required = IF t = TaskOf(h)[1] THEN needed
                                                 ELSE trace[t].enrichment_required
      BY <1>2, <2>1, <3>1, CompletingRequired
    <3>2. QED
      BY <3>1, Zenon
  <2>6. TaskOf(h)[2] # "core" => demanded' = demanded
    BY <1>2, <2>1, CompletingRequired
  <2>7. QED
    BY <2>2, <2>3, <2>4, <2>5, <2>6, Zenon DEF Abstract!Settle
<1>3. CASE ~\E h \in Handlers, needed \in BOOLEAN : CompleteStage(h, needed)
  <2>1. UNCHANGED committed
    BY <1>3, SettlingSteps
  <2>2. demanded' = demanded
    <3>1. ASSUME NEW t \in Traces
          PROVE  trace'[t].enrichment_required = trace[t].enrichment_required
      <4>1. CASE \E h \in Handlers : /\ MarkEnqueued(h)
                                     /\ TraceOf(h) = t
                                     /\ trace'[t].enrichment_required
        <5>1. trace[t].enrichment_required
          BY <4>1, Zenon DEF MarkEnqueued, Order, CoreAsked
        <5>2. trace[t].enrichment_required \in BOOLEAN /\ trace'[t].enrichment_required \in BOOLEAN
          BY ITypeStep, Zenon DEF IType, TypeOK, TraceRow
        <5>3. QED
          BY <4>1, <5>1, <5>2
      <4>2. QED
        BY <1>3, <4>1, RequiredSteps
    <3>2. QED
      BY <3>1
  <2>3. ASSUME NEW h \in Handlers, FailTerminally(h), task' # task
        PROVE  Abstract!GiveUp(TaskOf(h))
    <3>1. /\ TaskOf(h) \in Keys
          /\ task' = [task EXCEPT ![TaskOf(h)] = mark_failed_terminal(task[TaskOf(h)])]
          /\ mark_failed_terminal(task[TaskOf(h)]).status = "failed_terminal"
          /\ task[TaskOf(h)].status = "leased"
      BY <2>3, BusyHandlers, StatusAfter, Zenon DEF FailTerminally, RecordFailure, HoldsLease
    <3>2. Abstract!Ready(TaskOf(h))
      BY <1>1, <2>3, <3>1 DEF FailTerminally
    <3>3. outcome' = [outcome EXCEPT ![TaskOf(h)] = "dead"]
      BY <3>1, Zenon DEF Outcome, IType, TypeOK
    <3>4. QED
      BY <2>1, <2>2, <3>2, <3>3 DEF Abstract!GiveUp
  <2>4. ASSUME \A h \in Handlers : FailTerminally(h) => task' = task
        PROVE  outcome' = outcome
    <3>1. ASSUME NEW k \in Keys PROVE Outcome(task'[k].status) = Outcome(task[k].status)
      BY <1>3, <2>4, SettlingSteps, TerminalSteps DEF Outcome, Final
    <3>2. QED
      BY <3>1
  <2>5. CASE \E h \in Handlers : FailTerminally(h) /\ task' # task
    BY <2>3, <2>5, BusyHandlers, Zenon DEF FailTerminally
  <2>6. CASE ~\E h \in Handlers : FailTerminally(h) /\ task' # task
    <3>1. outcome' = outcome
      BY <2>4, <2>6
    <3>2. QED
      BY <2>1, <2>2, <3>1
  <2>7. QED
    BY <2>5, <2>6
<1>4. CASE \E h \in Handlers, needed \in BOOLEAN : CompleteStage(h, needed)
  <2>1. PICK h \in Handlers, needed \in BOOLEAN : CompleteStage(h, needed)
    BY <1>4
  <2>2. TaskOf(h) \in Keys /\ Abstract!Settle(TaskOf(h))
    BY <1>2, <2>1, BusyHandlers, Zenon DEF CompleteStage
  <2>3. QED
    BY <2>2, Zenon DEF Abstract!Settle, Abstract!Ready
<1>5. QED
  BY <1>3, <1>4

\* The pipeline implements the abstract specification of stage outcomes.
THEOREM PipelineRefinesOutcomes == Spec => RefinesOutcomes
<1>1. Init => Abstract!Init
  <2> SUFFICES ASSUME Init PROVE Abstract!Init
    OBVIOUS
  <2>1. Abstract!AllStages = Keys
    BY DEF Abstract!AllStages, Keys, Stages
  <2>2. \A k \in Keys : task[k].status = "absent"
    BY DEF Init, AbsentRow
  <2>3. \A k \in Keys : Outcome(task[k].status) = "open"
    BY <2>2 DEF Outcome
  <2>4. \A t \in Traces : trace[t].enrichment_required = FALSE
    BY DEF Init
  <2>5. committed = [k \in Keys |-> 0]
    BY Zenon DEF Init
  <2>6. QED
    BY <2>1, <2>3, <2>4, <2>5, Zenon DEF Abstract!Init
<1>2. IType /\ Order /\ [Next]_vars =>
          [Abstract!Next]_<<[k \in Keys |-> Outcome(task[k].status)], committed,
                            [t \in Traces |-> trace[t].enrichment_required]>>
  <2>1. Abstract!AllStages = Keys
    BY DEF Abstract!AllStages, Keys, Stages
  <2>2. QED
    BY <2>1, OutcomeSteps DEF Abstract!Next
<1>3. QED
  BY <1>1, <1>2, OrderInvariant, PTL DEF Spec, RefinesOutcomes, Abstract!Spec
-----------------------------------------------------------------------------
(* The status columns of traces *)

\* A status column says completed only once the task of its stage has succeeded.
CompletedIsSucceeded ==
    \A t \in Traces :
       /\ trace[t].core_status = "completed" => task[<<t, "core">>].status = "succeeded"
       /\ trace[t].enrichment_status = "completed"
             => task[<<t, "enrichment">>].status = "succeeded"

\* What each update of traces does to the two status columns.
LEMMA StatusColumns ==
    ASSUME NEW row \in TraceRow, NEW stage \in Stages
    PROVE  /\ ProcessingTrace(row, stage).core_status
                  = IF stage = "core" THEN "processing" ELSE row.core_status
           /\ ProcessingTrace(row, stage).enrichment_status
                  = IF stage = "core" THEN row.enrichment_status ELSE "processing"
           /\ EnqueuedTrace(row).core_status = row.core_status
           /\ EnqueuedTrace(row).enrichment_status = "pending"
           /\ \A needed \in BOOLEAN :
                 /\ CompletedTrace(row, stage, needed).core_status
                       = IF stage = "core" THEN "completed" ELSE row.core_status
                 /\ CompletedTrace(row, stage, needed).enrichment_status = "completed"
                       <=> stage # "core"
           /\ \A terminal \in BOOLEAN :
                 /\ FailedTrace(row, stage, terminal).core_status
                       = IF stage # "core" THEN row.core_status
                         ELSE IF terminal THEN "failed" ELSE "pending"
                 /\ FailedTrace(row, stage, terminal).enrichment_status
                       = IF stage = "core" THEN row.enrichment_status
                         ELSE IF terminal THEN "failed" ELSE "pending"
<1>1. /\ ProcessingTrace(row, stage).core_status
             = IF stage = "core" THEN "processing" ELSE row.core_status
      /\ ProcessingTrace(row, stage).enrichment_status
             = IF stage = "core" THEN row.enrichment_status ELSE "processing"
  BY DEF ProcessingTrace, TraceRow
<1>2. /\ EnqueuedTrace(row).core_status = row.core_status
      /\ EnqueuedTrace(row).enrichment_status = "pending"
  BY DEF EnqueuedTrace, TraceRow
<1>3. ASSUME NEW needed \in BOOLEAN
      PROVE  /\ CompletedTrace(row, stage, needed).core_status
                   = IF stage = "core" THEN "completed" ELSE row.core_status
             /\ CompletedTrace(row, stage, needed).enrichment_status = "completed"
                   <=> stage # "core"
  BY DEF CompletedTrace, TraceRow
<1>4. ASSUME NEW terminal \in BOOLEAN
      PROVE  /\ FailedTrace(row, stage, terminal).core_status
                   = IF stage # "core" THEN row.core_status
                     ELSE IF terminal THEN "failed" ELSE "pending"
             /\ FailedTrace(row, stage, terminal).enrichment_status
                   = IF stage = "core" THEN row.enrichment_status
                     ELSE IF terminal THEN "failed" ELSE "pending"
  BY DEF FailedTrace, TraceRow
<1>5. QED
  BY <1>1, <1>2, <1>3, <1>4

\* Who writes the status columns of a trace: the start of an attempt, which looks at no
\* lease, a commit or a failure recorded under a lease, or the mark that enrichment was
\* enqueued.
LEMMA StatusSteps ==
    ASSUME IType, [Next]_vars, NEW t \in Traces, trace'[t] # trace[t]
    PROVE  \E h \in Handlers, s \in Stages :
              /\ TraceOf(h) = t
              /\ TaskOf(h) = <<t, s>>
              /\ \/ BeginStage(h) /\ trace'[t] = ProcessingTrace(trace[t], s)
                 \/ MarkEnqueued(h) /\ trace'[t] = EnqueuedTrace(trace[t])
                 \/ \E needed \in BOOLEAN :
                       CompleteStage(h, needed) /\ trace'[t] = CompletedTrace(trace[t], s, needed)
                 \/ \E b \in BOOLEAN :
                       /\ task[TaskOf(h)].status = "leased"
                       /\ trace'[t] = FailedTrace(trace[t], s, b)
<1>1. ASSUME NEW h \in Handlers, NEW row, trace' = [trace EXCEPT ![TraceOf(h)] = row]
      PROVE  TraceOf(h) = t /\ trace'[t] = row
  BY <1>1 DEF IType, TypeOK
<1>2. ASSUME NEW h \in Handlers, pc[h] # "idle", TraceOf(h) = t
      PROVE  TaskOf(h) = <<t, TaskOf(h)[2]>> /\ TaskOf(h)[2] \in Stages
  BY <1>2, BusyHandlers, SMTT(30) DEF TraceOf, Keys
<1>3. CASE \E h \in Handlers : BeginStage(h) \/ MarkEnqueued(h)
  <2>1. PICK h \in Handlers : BeginStage(h) \/ MarkEnqueued(h)
    BY <1>3
  <2>2. TraceOf(h) = t /\ pc[h] # "idle"
    BY <1>1, <2>1, ZenonT(30) DEF BeginStage, MarkEnqueued
  <2>3. QED
    BY <1>1, <1>2, <2>1, <2>2 DEF BeginStage, MarkEnqueued
<1>4. CASE \E h \in Handlers, needed \in BOOLEAN : CompleteStage(h, needed)
  <2>1. PICK h \in Handlers, needed \in BOOLEAN : CompleteStage(h, needed)
    BY <1>4
  <2>2. TraceOf(h) = t /\ pc[h] # "idle"
    BY <1>1, <2>1, Zenon DEF CompleteStage
  <2>3. QED
    BY <1>1, <1>2, <2>1, <2>2, ZenonT(30) DEF CompleteStage
<1>5. CASE \E h \in Handlers : FailTerminally(h) \/ FailRetryably(h)
  <2>1. PICK h \in Handlers : FailTerminally(h) \/ FailRetryably(h)
    BY <1>5
  <2>2. PICK b \in BOOLEAN :
            /\ task[TaskOf(h)].status = "leased"
            /\ pc[h] # "idle"
            /\ trace' = [trace EXCEPT ![TraceOf(h)] =
                             FailedTrace(trace[TraceOf(h)], TaskOf(h)[2], b)]
    BY <2>1, Zenon DEF FailTerminally, FailRetryably, RecordFailure, HoldsLease
  <2>3. QED
    BY <1>1, <1>2, <2>2
<1>6. QED
  BY <1>3, <1>4, <1>5, TraceSteps, Zenon

\* CompletedIsSucceeded is inductive: completed is written by the commit that makes the
\* task succeed, and a succeeded task stays so.
LEMMA CompletedStep ==
    ASSUME IType, [Next]_vars, CompletedIsSucceeded
    PROVE  CompletedIsSucceeded'
<1> SUFFICES ASSUME NEW t \in Traces, NEW s \in Stages,
                    \/ s = "core" /\ trace'[t].core_status = "completed"
                    \/ s = "enrichment" /\ trace'[t].enrichment_status = "completed"
             PROVE  task'[<<t, s>>].status = "succeeded"
  BY Zenon DEF CompletedIsSucceeded, Stages
<1>1. <<t, s>> \in Keys /\ trace[t] \in TraceRow
  BY DEF Keys, IType, TypeOK
<1>2. CASE task[<<t, s>>].status = "succeeded"
  BY <1>1, <1>2, SettlingSteps, Zenon DEF Final
<1>3. CASE task[<<t, s>>].status # "succeeded"
  <2>1. \/ s = "core" /\ trace[t].core_status # "completed"
        \/ s = "enrichment" /\ trace[t].enrichment_status # "completed"
    BY <1>3, ZenonT(30) DEF CompletedIsSucceeded
  <2>2. trace'[t] # trace[t]
    BY <2>1, Zenon
  <2>3. PICK h \in Handlers, stage \in Stages :
            /\ TaskOf(h) = <<t, stage>>
            /\ \/ trace'[t] = ProcessingTrace(trace[t], stage)
               \/ trace'[t] = EnqueuedTrace(trace[t])
               \/ \E needed \in BOOLEAN :
                     CompleteStage(h, needed) /\ trace'[t] = CompletedTrace(trace[t], stage, needed)
               \/ \E b \in BOOLEAN : trace'[t] = FailedTrace(trace[t], stage, b)
    BY <2>2, StatusSteps
  <2>4. CASE \E needed \in BOOLEAN :
                CompleteStage(h, needed) /\ trace'[t] = CompletedTrace(trace[t], stage, needed)
    <3>1. stage = s
      BY <1>1, <2>1, <2>3, <2>4, StatusColumns, SMTT(30) DEF Stages
    <3>2. QED
      BY <1>1, <2>3, <2>4, <3>1, StatusAfter, SMTT(30) DEF CompleteStage, IType, TypeOK
  <2>5. CASE \E b \in BOOLEAN : trace'[t] = FailedTrace(trace[t], stage, b)
    BY <1>1, <2>1, <2>5, StatusColumns
  <2>6. CASE trace'[t] = ProcessingTrace(trace[t], stage) \/ trace'[t] = EnqueuedTrace(trace[t])
    BY <1>1, <2>1, <2>6, StatusColumns
  <2>7. QED
    BY <2>3, <2>4, <2>5, <2>6
<1>4. QED
  BY <1>2, <1>3

\* The columns leave completed only under an attempt that was overtaken: its
\* mark_trace_stage_processing or its mark_trace_enrichment_enqueued comes after the
\* success. A failure needs a lease, which a succeeded task does not have, and the core
\* stage does not commit again under an enrichment that exists.
THEOREM OnlyTheOvertakenReopen == Spec => ReopenedOnlyByTheOvertaken
<1> DEFINE Reopened(t) ==
       /\ trace[t].core_status = "completed" /\ trace'[t].core_status # "completed" =>
             /\ task[<<t, "core">>].status = "succeeded"
             /\ \E h \in Handlers : pc[h] = "begin" /\ pc'[h] = "load"
                                   /\ TaskOf(h) = <<t, "core">>
       /\ trace[t].enrichment_status = "completed"
          /\ trace'[t].enrichment_status # "completed" =>
             /\ task[<<t, "enrichment">>].status = "succeeded"
             /\ \E h \in Handlers :
                   \/ pc[h] = "enqueued" /\ pc'[h] = "ack" /\ TraceOf(h) = t
                   \/ pc[h] = "begin" /\ pc'[h] = "load" /\ TaskOf(h) = <<t, "enrichment">>
<1>1. Init => CompletedIsSucceeded
  BY DEF Init, CompletedIsSucceeded
<1>2. IType /\ Order /\ CompletedIsSucceeded /\ [Next]_vars => [\A t \in Traces : Reopened(t)]_vars
  <2> SUFFICES ASSUME IType, Order, CompletedIsSucceeded, [Next]_vars, NEW t \in Traces
               PROVE  Reopened(t)
    OBVIOUS
  <2>1. trace[t] \in TraceRow /\ <<t, "core">> \in Keys /\ <<t, "enrichment">> \in Keys
    BY DEF IType, TypeOK, Keys, Stages
  <2>2. CASE trace'[t] = trace[t]
    BY <2>2
  <2>3. CASE trace'[t] # trace[t]
    <3>1. PICK h \in Handlers, s \in Stages :
              /\ TraceOf(h) = t
              /\ TaskOf(h) = <<t, s>>
              /\ \/ BeginStage(h) /\ trace'[t] = ProcessingTrace(trace[t], s)
                 \/ MarkEnqueued(h) /\ trace'[t] = EnqueuedTrace(trace[t])
                 \/ \E needed \in BOOLEAN :
                       CompleteStage(h, needed) /\ trace'[t] = CompletedTrace(trace[t], s, needed)
                 \/ \E b \in BOOLEAN :
                       /\ task[TaskOf(h)].status = "leased"
                       /\ trace'[t] = FailedTrace(trace[t], s, b)
      BY <2>3, StatusSteps, Zenon
    <3>2. s = "core" \/ s = "enrichment"
      BY DEF Stages
    <3>3. CASE BeginStage(h) /\ trace'[t] = ProcessingTrace(trace[t], s)
      <4>1. pc[h] = "begin" /\ pc'[h] = "load"
        BY <3>3 DEF BeginStage, Goto, IType, TypeOK
      <4>2. /\ trace'[t].core_status = IF s = "core" THEN "processing" ELSE trace[t].core_status
            /\ trace'[t].enrichment_status
                   = IF s = "core" THEN trace[t].enrichment_status ELSE "processing"
        <5>1. /\ ProcessingTrace(trace[t], s).core_status
                     = IF s = "core" THEN "processing" ELSE trace[t].core_status
              /\ ProcessingTrace(trace[t], s).enrichment_status
                     = IF s = "core" THEN trace[t].enrichment_status ELSE "processing"
          BY <2>1, StatusColumns, ZenonT(30)
        <5>2. QED
          BY <3>3, <5>1, ZenonT(30)
      <4>3. QED
        BY <3>1, <3>2, <4>1, <4>2, Zenon DEF CompletedIsSucceeded
    <3>4. CASE MarkEnqueued(h) /\ trace'[t] = EnqueuedTrace(trace[t])
      <4>1. pc[h] = "enqueued" /\ pc'[h] = "ack"
        BY <3>4, ZenonT(30) DEF MarkEnqueued, Goto, IType, TypeOK
      <4>2. trace'[t].core_status = trace[t].core_status
        BY <2>1, <3>4, StatusColumns
      <4>3. QED
        BY <3>1, <4>1, <4>2 DEF CompletedIsSucceeded
    <3>5. CASE \E needed \in BOOLEAN :
                  CompleteStage(h, needed) /\ trace'[t] = CompletedTrace(trace[t], s, needed)
      <4>1. task[TaskOf(h)].status = "leased"
        BY <3>5, Zenon DEF CompleteStage, HoldsLease
      <4>2. trace[t].enrichment_status = "completed" => task[<<t, "core">>].status = "succeeded"
        BY <2>1, Zenon DEF CompletedIsSucceeded, Order, CoreAsked
      <4>3. CASE s = "core"
        <5>1. trace'[t].core_status = "completed"
          BY <2>1, <3>5, <4>3, StatusColumns
        <5>2. QED
          BY <3>1, <4>1, <4>2, <4>3, <5>1, Zenon
      <4>4. CASE s = "enrichment"
        <5>1. /\ trace'[t].core_status = trace[t].core_status
              /\ trace'[t].enrichment_status = "completed"
          BY <2>1, <3>5, <4>4, StatusColumns
        <5>2. QED
          BY <5>1, Zenon
      <4>5. QED
        BY <3>2, <4>3, <4>4, ZenonT(30)
    <3>6. CASE \E b \in BOOLEAN :
                  /\ task[TaskOf(h)].status = "leased"
                  /\ trace'[t] = FailedTrace(trace[t], s, b)
      <4>1. /\ s # "core" => trace'[t].core_status = trace[t].core_status
            /\ s = "core" => trace'[t].enrichment_status = trace[t].enrichment_status
        BY <2>1, <3>6, StatusColumns
      <4>2. QED
        BY <3>1, <3>2, <3>6, <4>1, Zenon DEF CompletedIsSucceeded
    <3>7. QED
      BY <3>1, <3>3, <3>4, <3>5, <3>6, ZenonT(30)
  <2>4. QED
    BY <2>2, <2>3
<1>3. QED
  BY <1>1, <1>2, CompletedStep, OrderInvariant, PTL DEF Spec, ReopenedOnlyByTheOvertaken
=============================================================================

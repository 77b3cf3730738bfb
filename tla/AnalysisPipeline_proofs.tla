----------------------- MODULE AnalysisPipeline_proofs -----------------------
(***************************************************************************)
(* Type correctness of AnalysisPipeline, and the theorems about the        *)
(* settling of tasks: results are committed once, a settled task stays.    *)
(*                                                                         *)
(* The inductive invariant is IType: the types, and Holding, which ties a  *)
(* busy handler to the entry it was handed.                                *)
(*                                                                         *)
(* Attempts of a task: at most one dead letter, and fencing by lease       *)
(* owners when no two handlers share a worker_id.                          *)
(***************************************************************************)
EXTENDS AnalysisPipeline, TLAPS

\* The statements of task_store.py map rows of analysis_tasks to rows.
LEMMA TaskRowsTyped ==
    ASSUME NEW row \in TaskRow
    PROVE  /\ insert_task(row) \in TaskRow
           /\ \A w \in Workers : claim_task(row, w) \in TaskRow
           /\ mark_succeeded(row) \in TaskRow
           /\ mark_failed_retryable(row) \in TaskRow
           /\ mark_failed_terminal(row) \in TaskRow
           /\ [row EXCEPT !.lease_expired = TRUE] \in TaskRow
           /\ LapsedAttempt(row) \in Nat
<1>1. insert_task(row) \in TaskRow
  BY DEF TaskRow, TaskStatus, insert_task
<1>2. \A w \in Workers : claim_task(row, w) \in TaskRow
  BY DEF TaskRow, TaskStatus, claim_task
<1>3. ASSUME NEW s \in Final \cup {"failed_retryable"}
      PROVE  Released(row, s) \in TaskRow
  BY Zenon DEF TaskRow, TaskStatus, Released
<1>4. [row EXCEPT !.lease_expired = TRUE] \in TaskRow /\ LapsedAttempt(row) \in Nat
  BY Zenon DEF TaskRow, LapsedAttempt
<1>5. QED
  BY <1>1, <1>2, <1>3, <1>4
     DEF mark_succeeded, mark_failed_retryable, mark_failed_terminal, Final

\* The updates of the status columns map rows of traces to rows.
LEMMA TraceRowsTyped ==
    ASSUME NEW row \in TraceRow, NEW stage, NEW b \in BOOLEAN
    PROVE  /\ ProcessingTrace(row, stage) \in TraceRow
           /\ CompletedTrace(row, stage, b) \in TraceRow
           /\ FailedTrace(row, stage, b) \in TraceRow
           /\ EnqueuedTrace(row) \in TraceRow
<1>1. ProcessingTrace(row, stage) \in TraceRow
  BY DEF ProcessingTrace, TraceRow
<1>2. CompletedTrace(row, stage, b) \in TraceRow
  BY DEF CompletedTrace, TraceRow
<1>3. FailedTrace(row, stage, b) \in TraceRow
  BY DEF FailedTrace, TraceRow
<1>4. EnqueuedTrace(row) \in TraceRow
  BY Zenon DEF EnqueuedTrace, TraceRow
<1>5. QED
  BY <1>1, <1>2, <1>3, <1>4

\* Delivering, idling and acknowledging change nothing but the state of an entry.
LEMMA EntriesTyped ==
    ASSUME NEW e \in Entry, NEW s \in EntryState
    PROVE  e.state # "free" => /\ [e EXCEPT !.state = s] \in Entry
                               /\ [e EXCEPT !.state = s].key = e.key
                               /\ [e EXCEPT !.state = s].kind = e.kind
                               /\ [e EXCEPT !.state = s].state = s
                               /\ e.key \in Keys
                               /\ e.kind \in {"job", "unknown_stage"}
<1>1. FreeEntry.state = "free"
  BY DEF FreeEntry
<1>2. QED
  BY <1>1 DEF Entry

\* No step takes an entry off a stream or changes what it is about.
KeepsEntries ==
    /\ stream' \in [MsgIds -> Entry]
    /\ \A i \in MsgIds :
          stream[i].key \in Keys => /\ stream'[i].key = stream[i].key
                                    /\ stream'[i].kind = stream[i].kind

\* XREADGROUP, XAUTOCLAIM and XACK keep what every entry is about.
LEMMA MovingKeepsEntries ==
    ASSUME TypeOK, NEW i \in MsgIds, NEW s \in EntryState, stream[i].state # "free",
           stream' = [stream EXCEPT ![i].state = s]
    PROVE  KeepsEntries
<1>1. /\ [stream[i] EXCEPT !.state = s] \in Entry
      /\ [stream[i] EXCEPT !.state = s].key = stream[i].key
      /\ [stream[i] EXCEPT !.state = s].kind = stream[i].kind
  BY EntriesTyped DEF TypeOK
<1>2. QED
  BY <1>1 DEF KeepsEntries, TypeOK

\* A place no XADD has filled yet belongs to no task.
LEMMA FreeEntryHasNoKey == FreeEntry \in Entry /\ FreeEntry.key \notin Keys
BY Zenon DEF Entry, FreeEntry, Keys, Stages

\* XADD fills a free place and keeps every entry on the streams.
LEMMA PublishingKeepsEntries ==
    ASSUME TypeOK, NEW key \in Keys, NEW kind \in {"job", "unknown_stage"},
           Publish(key, kind)
    PROVE  KeepsEntries
<1>1. PICK i \in MsgIds :
          /\ stream[i].state = "free"
          /\ stream' = [stream EXCEPT ![i] = [key |-> key, kind |-> kind, state |-> "new"]]
  BY Zenon DEF Publish
<1>2. stream[i] = FreeEntry
  BY <1>1 DEF TypeOK, Entry, EntryState
<1>3. [key |-> key, kind |-> kind, state |-> "new"] \in Entry
  BY DEF Entry, EntryState
<1>4. QED
  BY <1>1, <1>2, <1>3, FreeEntryHasNoKey DEF KeepsEntries, TypeOK

\* A busy handler holds a published message of a job; before its claim it has no
\* attempt.
Holding ==
    \A h \in Handlers :
        /\ pc[h] \in {"idle", "insert", "claim", "inspect"} => attempt[h] = 0
        /\ pc[h] # "idle" => /\ msg[h] \in MsgIds
                             /\ stream[msg[h]].key \in Keys
                             /\ stream[msg[h]].kind = "job"

\* The inductive type invariant.
IType == TypeOK /\ Holding

\* What a busy handler holds is an entry of a stream, about a trace.
LEMMA HeldEntries ==
    ASSUME TypeOK, Holding, NEW h \in Handlers, pc[h] # "idle"
    PROVE  /\ msg[h] \in MsgIds
           /\ stream[msg[h]].state # "free"
           /\ TaskOf(h) \in Keys
           /\ TraceOf(h) \in Traces
<1>1. msg[h] \in MsgIds /\ stream[msg[h]].key \in Keys
  BY DEF Holding
<1>2. stream[msg[h]].state # "free"
  BY <1>1, FreeEntryHasNoKey DEF TypeOK, Entry, EntryState
<1>3. QED
  BY <1>1, <1>2 DEF TaskOf, TraceOf, Keys

\* The commands that touch a stream.
LEMMA StreamSteps ==
    ASSUME [Next]_vars
    PROVE  \/ \E t \in Traces, kind \in Kinds : PublishTraceCaptured(t, kind)
           \/ \E h \in Handlers, i \in MsgIds : Reclaim(h, i) \/ ReadNew(h, i)
           \/ \E h \in Handlers : Requeue(h) \/ EnqueueEnrichment(h)
           \/ \E h \in Handlers : Ack(h)
           \/ \E i \in MsgIds : MessageIdles(i)
           \/ UNCHANGED stream
BY Zenon DEF Next, HandlerStep, Poll, vars, InsertTask, ClaimTask, Inspect, BeginStage, LoadTrace,
       CompleteStage, LoseLease, FailStage, DeadLetter, FailTerminally, FailRetryably,
       MarkEnqueued, MarkEnqueuedFails, Abort, LeaseExpires

\* No step of any process takes an entry off a stream or changes its key.
LEMMA StepsKeepEntries ==
    ASSUME TypeOK, Holding, [Next]_vars
    PROVE  KeepsEntries
<1>1. ASSUME NEW t \in Traces, NEW kind \in Kinds, PublishTraceCaptured(t, kind)
      PROVE  KeepsEntries
  <2>1. <<t, "core">> \in Keys /\ kind \in {"job", "unknown_stage"}
    BY KindsAssumption DEF Keys, Stages
  <2>2. QED
    BY <1>1, <2>1, PublishingKeepsEntries DEF PublishTraceCaptured
<1>2. ASSUME NEW h \in Handlers, NEW i \in MsgIds, Reclaim(h, i) \/ ReadNew(h, i)
      PROVE  KeepsEntries
  <2>1. stream[i].state # "free"
    BY <1>2 DEF Reclaim, ReadNew, InStream
  <2>2. CASE stream' = [stream EXCEPT ![i].state = "acked"]
    BY <2>1, <2>2, MovingKeepsEntries, Zenon DEF EntryState
  <2>3. CASE stream' = [stream EXCEPT ![i].state = "pending"]
    BY <2>1, <2>3, MovingKeepsEntries, Zenon DEF EntryState
  <2>4. QED
    BY <1>2, <2>2, <2>3 DEF Reclaim, ReadNew, Deliver
<1>3. ASSUME NEW h \in Handlers, Requeue(h) \/ EnqueueEnrichment(h) PROVE KeepsEntries
  <2>1. TaskOf(h) \in Keys /\ <<TraceOf(h), "enrichment">> \in Keys
    BY <1>3, HeldEntries DEF Requeue, EnqueueEnrichment, Keys, Stages
  <2>2. QED
    BY <1>3, <2>1, PublishingKeepsEntries DEF Requeue, EnqueueEnrichment
<1>4. ASSUME NEW h \in Handlers, Ack(h) PROVE KeepsEntries
  BY <1>4, HeldEntries, MovingKeepsEntries, Zenon DEF Ack, EntryState
<1>5. ASSUME NEW i \in MsgIds, MessageIdles(i) PROVE KeepsEntries
  BY <1>5, MovingKeepsEntries, Zenon DEF MessageIdles, EntryState
<1>6. CASE UNCHANGED stream
  BY <1>6, ZenonT(30) DEF KeepsEntries, TypeOK
<1>7. QED
  BY <1>1, <1>2, <1>3, <1>4, <1>5, <1>6, StreamSteps

\* IType is inductive: one step of the proof for each action.
LEMMA ITypeStep == IType /\ [Next]_vars => IType'
<1> SUFFICES ASSUME TypeOK, Holding, [Next]_vars PROVE IType'
  BY DEF IType
<1>held. ASSUME NEW h \in Handlers, pc[h] # "idle"
      PROVE  TaskOf(h) \in Keys /\ TraceOf(h) \in Traces
  BY <1>held, HeldEntries
<1>ids. \A h \in Handlers : Worker[h] \in Workers
  BY HandlersAssumption
<1>kept. KeepsEntries
  BY StepsKeepEntries, Zenon
<1> USE DEF TypeOK, Holding, IType, ProgramCounter
<1>1. ASSUME NEW t \in Traces, NEW kind \in Kinds, PublishTraceCaptured(t, kind)
      PROVE  IType'
  BY <1>1, <1>kept DEF KeepsEntries, PublishTraceCaptured, store, locals
<1>2. ASSUME NEW h \in Handlers, NEW i \in MsgIds, Reclaim(h, i) \/ ReadNew(h, i)
      PROVE  IType'
  <2>1. stream[i].state # "free" /\ Deliver(h, i) /\ pc[h] = "idle"
    BY <1>2 DEF Reclaim, ReadNew, InStream
  <2>2. stream[i].key \in Keys /\ stream[i].kind \in {"job", "unknown_stage"}
    BY <2>1, EntriesTyped, Zenon DEF EntryState
  <2>3. QED
    BY <1>kept, <2>1, <2>2 DEF KeepsEntries, Deliver, store
<1>3. ASSUME NEW h \in Handlers, InsertTask(h) PROVE IType'
  BY <1>3, <1>held, <1>ids, TaskRowsTyped, Zenon DEF InsertTask, Goto
<1>4. ASSUME NEW h \in Handlers, ClaimTask(h) PROVE IType'
  <2>1. TaskOf(h) \in Keys /\ task[TaskOf(h)] \in TaskRow
    BY <1>4, <1>held DEF ClaimTask
  <2>2. claim_task(task[TaskOf(h)], Worker[h]) \in TaskRow
    BY <1>ids, <2>1, TaskRowsTyped, Zenon
  <2>3. task[TaskOf(h)].attempt_count + 1 \in Nat
    BY <2>1 DEF TaskRow
  <2>4. QED
    BY <1>4, <2>1, <2>2, <2>3 DEF ClaimTask, Goto
<1>5. ASSUME NEW h \in Handlers, Inspect(h) PROVE IType'
  BY <1>5 DEF Inspect, store, Goto, Return
<1>6. ASSUME NEW h \in Handlers, BeginStage(h) PROVE IType'
  BY <1>6, <1>held, TraceRowsTyped, Zenon DEF BeginStage, Goto
<1>7. ASSUME NEW h \in Handlers, LoadTrace(h) PROVE IType'
  BY <1>7, <1>held, <1>ids, TaskRowsTyped, Zenon DEF LoadTrace, store, Goto
<1>8. ASSUME NEW h \in Handlers, NEW needed \in BOOLEAN, CompleteStage(h, needed)
      PROVE  IType'
  <2>1. /\ mark_succeeded(task[TaskOf(h)]) \in TaskRow
        /\ CompletedTrace(trace[TraceOf(h)], TaskOf(h)[2], needed) \in TraceRow
        /\ TaskOf(h) \in Keys
    BY <1>8, <1>held, TaskRowsTyped, TraceRowsTyped, Zenon DEF CompleteStage
  <2>2. task' \in [Keys -> TaskRow]
    BY <1>8, <2>1 DEF CompleteStage
  <2>3. trace' \in [Traces -> TraceRow]
    BY <1>8, <2>1, Zenon DEF CompleteStage
  <2>4. committed' \in [Keys -> Nat]
    BY <1>8, <2>1 DEF CompleteStage
  <2>5. PICK label \in {"enqueue", "ack"} : Goto(h, label)
    BY <1>8 DEF CompleteStage
  <2>6. QED
    BY <1>8, <2>2, <2>3, <2>4, <2>5 DEF CompleteStage, Goto
<1>9. ASSUME NEW h \in Handlers, LoseLease(h) \/ Abort(h) PROVE IType'
  BY <1>9 DEF LoseLease, Abort, store, Return
<1>10. ASSUME NEW h \in Handlers, FailStage(h) \/ DeadLetter(h) \/ MarkEnqueuedFails(h)
       PROVE  IType'
  BY <1>10 DEF FailStage, DeadLetter, MarkEnqueuedFails, store, Goto
<1>11. ASSUME NEW h \in Handlers, FailTerminally(h) \/ FailRetryably(h) PROVE IType'
  <2>1. /\ mark_failed_terminal(task[TaskOf(h)]) \in TaskRow
        /\ mark_failed_retryable(task[TaskOf(h)]) \in TaskRow
        /\ \A b \in BOOLEAN : FailedTrace(trace[TraceOf(h)], TaskOf(h)[2], b) \in TraceRow
    BY <1>11, <1>held, <1>ids, TaskRowsTyped, TraceRowsTyped, Zenon DEF FailTerminally, FailRetryably
  <2>2. task' \in [Keys -> TaskRow]
    BY <1>11, <2>1, Zenon DEF FailTerminally, FailRetryably, RecordFailure
  <2>3. trace' \in [Traces -> TraceRow]
    BY <1>11, <2>1, Zenon DEF FailTerminally, FailRetryably, RecordFailure
  <2>4. \/ \E label \in {"ack", "requeue"} : Goto(h, label) /\ UNCHANGED <<msg, attempt, lapsed>>
        \/ Return(h)
    BY <1>11, Zenon DEF FailTerminally, FailRetryably, RecordFailure
  <2>5. UNCHANGED <<stream, committed, dlq, faults>> /\ pc[h] \in {"fail", "bury"}
    BY <1>11, Zenon DEF FailTerminally, FailRetryably
  <2>6. QED
    BY <2>2, <2>3, <2>4, <2>5 DEF Goto, Return
<1>12. ASSUME NEW h \in Handlers, Requeue(h) \/ EnqueueEnrichment(h) PROVE IType'
  BY <1>12, <1>kept DEF Requeue, EnqueueEnrichment, KeepsEntries, store, Goto
<1>13. ASSUME NEW h \in Handlers, MarkEnqueued(h) PROVE IType'
  BY <1>13, <1>held, TraceRowsTyped, Zenon DEF MarkEnqueued, Goto
<1>14. ASSUME NEW h \in Handlers, Ack(h) PROVE IType'
  BY <1>14, <1>kept DEF Ack, KeepsEntries, store, Return
<1>15. ASSUME NEW i \in MsgIds, MessageIdles(i) PROVE IType'
  BY <1>15, <1>kept DEF MessageIdles, KeepsEntries, store, locals
<1>16. ASSUME NEW k \in Keys, LeaseExpires(k) PROVE IType'
  <2>1. [task[k] EXCEPT !.lease_expired = TRUE] \in TaskRow
    BY TaskRowsTyped, Zenon DEF TaskRow
  <2>2. QED
    BY <1>16, <2>1 DEF LeaseExpires, locals
<1>17. CASE UNCHANGED vars
  BY <1>17 DEF vars, store, locals
<1>18. QED
  BY <1>1, <1>2, <1>3, <1>4, <1>5, <1>6, <1>7, <1>8, <1>9, <1>10, <1>11, <1>12, <1>13,
     <1>14, <1>15, <1>16, <1>17 DEF Next, HandlerStep, Poll

\* IType holds before the gateway has published anything.
LEMMA ITypeInit == Init => IType
<1> SUFFICES ASSUME Init PROVE IType
  OBVIOUS
<1>1. AbsentRow \in TaskRow
  BY DEF TaskRow, AbsentRow, TaskStatus, NoOwner
<1>2. trace \in [Traces -> TraceRow]
  BY DEF Init, TraceRow
<1>3. stream \in [MsgIds -> Entry]
  BY FreeEntryHasNoKey DEF Init
<1>4. QED
  BY <1>1, <1>2, <1>3 DEF Init, IType, TypeOK, Holding, ProgramCounter

\* Type correctness: the rows, the streams and the locals of the handlers keep
\* their types through every step of _process_stream_message.
THEOREM TypeCorrect == Spec => []TypeOK
<1>1. Spec => []IType
  BY ITypeInit, ITypeStep, PTL DEF Spec
<1>2. IType => TypeOK
  BY DEF IType
<1>3. QED
  BY <1>1, <1>2, PTL
-----------------------------------------------------------------------------
\* A busy handler's task and trace are rows of their tables.
LEMMA BusyHandlers ==
    ASSUME IType, NEW h \in Handlers, pc[h] # "idle"
    PROVE  /\ TaskOf(h) \in Keys
           /\ TraceOf(h) \in Traces
           /\ TaskOf(h)[2] \in Stages
           /\ task[TaskOf(h)] \in TaskRow
           /\ trace[TraceOf(h)] \in TraceRow
<1>1. TaskOf(h) \in Keys
  BY DEF IType, Holding, TaskOf
<1>2. TraceOf(h) \in Traces /\ TaskOf(h)[2] \in Stages
  BY <1>1 DEF TraceOf, Keys
<1>3. QED
  BY <1>1, <1>2 DEF IType, TypeOK

\* The status and the attempt_count each statement of task_store.py leaves behind.
LEMMA StatusAfter ==
    ASSUME NEW row \in TaskRow
    PROVE  /\ insert_task(row).status = IF row.status = "absent" THEN "queued" ELSE row.status
           /\ row.status # "absent" => insert_task(row) = row
           /\ \A w \in Workers : claim_task(row, w).status = "leased"
           /\ mark_succeeded(row).status = "succeeded"
           /\ mark_failed_retryable(row).status = "failed_retryable"
           /\ mark_failed_terminal(row).status = "failed_terminal"
           /\ [row EXCEPT !.lease_expired = TRUE].status = row.status
           /\ insert_task(row).attempt_count = row.attempt_count
           /\ mark_succeeded(row).attempt_count = row.attempt_count
           /\ mark_failed_retryable(row).attempt_count = row.attempt_count
           /\ mark_failed_terminal(row).attempt_count = row.attempt_count
           /\ [row EXCEPT !.lease_expired = TRUE].attempt_count = row.attempt_count
BY DEF TaskRow, insert_task, claim_task, mark_succeeded, mark_failed_retryable,
       mark_failed_terminal, Released

\* The transactions that touch analysis_tasks.
LEMMA TaskSteps ==
    ASSUME IType, [Next]_vars
    PROVE  \/ \E h \in Handlers, needed \in BOOLEAN : CompleteStage(h, needed)
           \/ \E h \in Handlers : InsertTask(h) \/ ClaimTask(h)
           \/ \E h \in Handlers : FailTerminally(h) \/ FailRetryably(h)
           \/ \E k \in Keys : LeaseExpires(k)
           \/ UNCHANGED <<task, committed>>
BY ZenonT(30) DEF Next, HandlerStep, Poll, vars, store, PublishTraceCaptured, Reclaim, ReadNew, Deliver,
       Inspect, BeginStage, LoadTrace, LoseLease, FailStage, DeadLetter, Requeue,
       EnqueueEnrichment, MarkEnqueued, MarkEnqueuedFails, Ack, Abort, MessageIdles

\* Nothing but the commit of a stage stores results or makes a task succeed, and
\* no step touches a settled task.
LEMMA SettlingSteps ==
    ASSUME IType, [Next]_vars
    PROVE  /\ \A k \in Keys : task[k].status \in Final => task'[k].status = task[k].status
           /\ \/ \E h \in Handlers, needed \in BOOLEAN : CompleteStage(h, needed)
              \/ /\ UNCHANGED committed
                 /\ \A k \in Keys : task'[k].status = "succeeded"
                                        => task[k].status = "succeeded"
<1> DEFINE Kept(k) ==
               /\ task[k].status \in Final => task'[k].status = task[k].status
               /\ task'[k].status = "succeeded" => task[k].status = "succeeded"
<1>1. ASSUME NEW h \in Handlers, NEW needed \in BOOLEAN, CompleteStage(h, needed)
      PROVE  \A k \in Keys : task[k].status \in Final => task'[k].status = task[k].status
  BY <1>1 DEF CompleteStage, HoldsLease, Final, IType, TypeOK
<1>2. ASSUME NEW h \in Handlers, NEW row \in TaskRow,
             task' = [task EXCEPT ![TaskOf(h)] = row],
             row.status # "succeeded",
             task[TaskOf(h)].status \notin Final
      PROVE  \A k \in Keys : Kept(k)
  BY <1>2 DEF IType, TypeOK, Final
<1>3. ASSUME NEW h \in Handlers, InsertTask(h) PROVE \A k \in Keys : Kept(k)
  <2>1. /\ task[TaskOf(h)] \in TaskRow
        /\ task' = [task EXCEPT ![TaskOf(h)] = insert_task(task[TaskOf(h)])]
    BY <1>3, BusyHandlers DEF InsertTask
  <2>2. CASE task[TaskOf(h)].status = "absent"
    BY <1>2, <2>1, <2>2, StatusAfter, TaskRowsTyped DEF Final
  <2>3. CASE task[TaskOf(h)].status # "absent"
    BY <2>1, <2>3, StatusAfter DEF IType, TypeOK
  <2>4. QED
    BY <2>2, <2>3
<1>4. ASSUME NEW h \in Handlers, ClaimTask(h) PROVE \A k \in Keys : Kept(k)
  <2>1. task[TaskOf(h)] \in TaskRow /\ Worker[h] \in Workers
    BY <1>4, BusyHandlers, HandlersAssumption DEF ClaimTask
  <2>2. CASE Claimable(task[TaskOf(h)])
    <3>1. /\ task' = [task EXCEPT ![TaskOf(h)] = claim_task(task[TaskOf(h)], Worker[h])]
          /\ task[TaskOf(h)].status \notin Final
      BY <1>4, <2>2 DEF ClaimTask, Claimable, Final
    <3>2. /\ claim_task(task[TaskOf(h)], Worker[h]) \in TaskRow
          /\ claim_task(task[TaskOf(h)], Worker[h]).status # "succeeded"
      BY <2>1, StatusAfter, TaskRowsTyped, Zenon
    <3>3. QED
      BY <1>2, <3>1, <3>2
  <2>3. CASE ~Claimable(task[TaskOf(h)])
    BY <1>4, <2>3 DEF ClaimTask
  <2>4. QED
    BY <2>2, <2>3, Zenon
<1>5. ASSUME NEW h \in Handlers, FailTerminally(h) \/ FailRetryably(h)
      PROVE  \A k \in Keys : Kept(k)
  <2>1. task[TaskOf(h)] \in TaskRow
    BY <1>5, BusyHandlers, Zenon DEF FailTerminally, FailRetryably
  <2>2. CASE UNCHANGED task
    BY <2>2
  <2>3. CASE task' # task
    <3>1. PICK row \in {mark_failed_terminal(task[TaskOf(h)]),
                        mark_failed_retryable(task[TaskOf(h)])} :
              /\ task' = [task EXCEPT ![TaskOf(h)] = row]
              /\ task[TaskOf(h)].status \notin Final
      BY <1>5, <2>3, Zenon DEF FailTerminally, FailRetryably, RecordFailure, HoldsLease, Final
    <3>2. row \in TaskRow
      BY <2>1, TaskRowsTyped, Zenon
    <3>3. row.status \in {"failed_terminal", "failed_retryable"}
      BY <2>1, StatusAfter
    <3>4. QED
      BY <1>2, <3>1, <3>2, <3>3
  <2>4. QED
    BY <2>2, <2>3
<1>6. ASSUME NEW k \in Keys, LeaseExpires(k) PROVE \A j \in Keys : Kept(j)
  BY <1>6, StatusAfter DEF LeaseExpires, IType, TypeOK
<1>7. QED
  BY <1>1, <1>3, <1>4, <1>5, <1>6, TaskSteps, Zenon
     DEF InsertTask, ClaimTask, FailTerminally, FailRetryably, LeaseExpires

\* The results of a stage are committed exactly when its task succeeds, and once:
\* process and mark_succeeded share one commit and mark_succeeded is guarded.
THEOREM ResultsAreCommittedOnce == Spec => []ResultsOnce
<1>1. Init => ResultsOnce
  BY DEF Init, ResultsOnce, AbsentRow
<1>2. IType /\ ResultsOnce /\ [Next]_vars => ResultsOnce'
  <2> SUFFICES ASSUME IType, ResultsOnce, [Next]_vars PROVE ResultsOnce'
    OBVIOUS
  <2>1. CASE \E h \in Handlers, needed \in BOOLEAN : CompleteStage(h, needed)
    <3>1. PICK h \in Handlers, needed \in BOOLEAN : CompleteStage(h, needed)
      BY <2>1
    <3>2. /\ task' = [task EXCEPT ![TaskOf(h)] = mark_succeeded(task[TaskOf(h)])]
          /\ committed' = [committed EXCEPT ![TaskOf(h)] = committed[TaskOf(h)] + 1]
          /\ task[TaskOf(h)].status # "succeeded"
          /\ TaskOf(h) \in Keys
          /\ mark_succeeded(task[TaskOf(h)]).status = "succeeded"
      BY <3>1, BusyHandlers, StatusAfter DEF CompleteStage, HoldsLease
    <3>3. QED
      BY <3>2 DEF ResultsOnce, IType, TypeOK
  <2>2. CASE ~\E h \in Handlers, needed \in BOOLEAN : CompleteStage(h, needed)
    BY <2>2, SettlingSteps DEF ResultsOnce, Final
  <2>3. QED
    BY <2>1, <2>2
<1>3. QED
  BY <1>1, <1>2, ITypeInit, ITypeStep, PTL DEF Spec

\* No statement of task_store.py reopens a succeeded or failed_terminal task.
THEOREM SettledTasksStay == Spec => FinalIsFinal
<1>1. IType /\ [Next]_vars =>
          [\A k \in Keys : task[k].status \in Final => task'[k].status = task[k].status]_vars
  BY SettlingSteps
<1>2. QED
  BY <1>1, ITypeInit, ITypeStep, PTL DEF Spec, FinalIsFinal
-----------------------------------------------------------------------------
(* Attempts *)

\* A handler works on one message from its delivery to its return.
LEMMA HandlersKeepTask ==
    ASSUME IType, [Next]_vars, NEW h \in Handlers, pc[h] # "idle", pc'[h] # "idle"
    PROVE  msg'[h] = msg[h] /\ TaskOf(h)' = TaskOf(h) /\ TraceOf(h)' = TraceOf(h)
<1>1. msg \in [Handlers -> MsgIds \cup {0}] /\ pc \in [Handlers -> ProgramCounter]
  BY DEF IType, TypeOK
<1>2. ASSUME NEW g \in Handlers, Return(g)
      PROVE  msg'[h] = msg[h]
  BY <1>1, <1>2 DEF Return
<1>3. ASSUME NEW g \in Handlers, NEW i \in MsgIds, pc[g] = "idle", Deliver(g, i)
      PROVE  msg'[h] = msg[h]
  BY <1>1, <1>3 DEF Deliver
<1>4. ASSUME NEW g \in Handlers, HandlerStep(g)
      PROVE  msg' = msg \/ Return(g)
  <2>1. ASSUME RecordFailure(g, mark_failed_terminal(task[TaskOf(g)]), TRUE, "ack")
               \/ RecordFailure(g, mark_failed_retryable(task[TaskOf(g)]), FALSE, "requeue")
        PROVE  msg' = msg \/ Return(g)
    BY <2>1, Zenon DEF RecordFailure
  <2>2. CASE FailTerminally(g) \/ FailRetryably(g)
    BY <2>1, <2>2, Zenon DEF FailTerminally, FailRetryably
  <2>3. CASE Inspect(g) \/ LoseLease(g) \/ Ack(g)
    BY <2>3 DEF Inspect, LoseLease, Ack
  <2>4. QED
    BY <1>4, <2>2, <2>3, ZenonT(30) DEF HandlerStep, InsertTask, ClaimTask, BeginStage, LoadTrace,
       CompleteStage, FailStage, DeadLetter, Requeue, EnqueueEnrichment, MarkEnqueued
<1>5. ASSUME NEW g \in Handlers, Poll(g)
      PROVE  msg'[h] = msg[h]
  BY <1>3, <1>5 DEF Poll, Reclaim, ReadNew
<1>6. ASSUME NEW g \in Handlers, MarkEnqueuedFails(g) \/ Abort(g)
      PROVE  msg' = msg \/ Return(g)
  BY <1>6 DEF MarkEnqueuedFails, Abort
<1>7. ASSUME \/ \E t \in Traces, kind \in Kinds : PublishTraceCaptured(t, kind)
             \/ \E i \in MsgIds : MessageIdles(i)
             \/ \E k \in Keys : LeaseExpires(k)
             \/ UNCHANGED vars
      PROVE  msg' = msg
  BY <1>7, Zenon DEF PublishTraceCaptured, MessageIdles, LeaseExpires, vars, locals
<1>8. msg'[h] = msg[h]
  BY <1>2, <1>4, <1>5, <1>6, <1>7 DEF Next
<1>9. QED
  BY <1>8, StepsKeepEntries DEF IType, Holding, KeepsEntries, TaskOf, TraceOf

\* A handler moves by its own steps.
LEMMA OwnSteps ==
    ASSUME IType, [Next]_vars, NEW h \in Handlers, pc'[h] # pc[h]
    PROVE  Poll(h) \/ HandlerStep(h) \/ MarkEnqueuedFails(h) \/ Abort(h)
<1> USE DEF IType, TypeOK, Goto, Return
<1>1. ASSUME NEW g \in Handlers, g # h,
             Poll(g) \/ HandlerStep(g) \/ MarkEnqueuedFails(g) \/ Abort(g)
      PROVE  FALSE
  BY <1>1, Zenon DEF HandlerStep, Poll, Reclaim, ReadNew, Deliver, InsertTask, ClaimTask, Inspect,
       BeginStage, LoadTrace, CompleteStage, LoseLease, FailStage, DeadLetter, FailTerminally,
       FailRetryably, RecordFailure, Requeue, EnqueueEnrichment, MarkEnqueued,
       MarkEnqueuedFails, Ack, Abort
<1>2. CASE \/ \E t \in Traces, kind \in Kinds : PublishTraceCaptured(t, kind)
           \/ \E i \in MsgIds : MessageIdles(i)
           \/ \E k \in Keys : LeaseExpires(k)
           \/ UNCHANGED vars
  BY <1>2, Zenon DEF PublishTraceCaptured, MessageIdles, LeaseExpires, vars, locals
<1>3. QED
  BY <1>1, <1>2 DEF Next

\* Only mark_failed_terminal makes a task failed_terminal.
LEMMA TerminalSteps ==
    ASSUME IType, [Next]_vars, NEW k \in Keys,
           task'[k].status = "failed_terminal", task[k].status # "failed_terminal"
    PROVE  \E h \in Handlers : FailTerminally(h) /\ TaskOf(h) = k
<1>1. ASSUME NEW h \in Handlers, NEW row, task' = [task EXCEPT ![TaskOf(h)] = row],
             row.status # "failed_terminal"
      PROVE  FALSE
  BY <1>1, Zenon DEF IType, TypeOK
<1>2. CASE \E h \in Handlers, needed \in BOOLEAN : CompleteStage(h, needed)
  <2>1. PICK h \in Handlers : \E needed \in BOOLEAN : CompleteStage(h, needed)
    BY <1>2
  <2>2. mark_succeeded(task[TaskOf(h)]).status = "succeeded"
    BY <2>1, BusyHandlers, StatusAfter DEF CompleteStage
  <2>3. QED
    BY <1>1, <2>1, <2>2 DEF CompleteStage
<1>3. CASE \E h \in Handlers : InsertTask(h) \/ ClaimTask(h)
  <2>1. PICK h \in Handlers : InsertTask(h) \/ ClaimTask(h)
    BY <1>3, Zenon
  <2>2. /\ task[TaskOf(h)] \in TaskRow /\ Worker[h] \in Workers
        /\ task' # task
        /\ TaskOf(h) \in Keys
    BY <2>1, BusyHandlers, HandlersAssumption DEF InsertTask, ClaimTask
  <2>3. claim_task(task[TaskOf(h)], Worker[h]).status = "leased"
    BY <2>2, StatusAfter
  <2>4. insert_task(task[TaskOf(h)]) # task[TaskOf(h)]
            => insert_task(task[TaskOf(h)]).status = "queued"
    BY <2>2, StatusAfter
  <2>5. QED
    BY <1>1, <2>1, <2>2, <2>3, <2>4, Zenon DEF InsertTask, ClaimTask, IType, TypeOK
<1>4. ASSUME NEW h \in Handlers, FailTerminally(h) PROVE TaskOf(h) = k
  BY <1>4, Zenon DEF FailTerminally, RecordFailure, IType, TypeOK
<1>5. ASSUME NEW h \in Handlers, FailRetryably(h) PROVE FALSE
  <2>1. mark_failed_retryable(task[TaskOf(h)]).status = "failed_retryable"
    BY <1>5, BusyHandlers, StatusAfter DEF FailRetryably
  <2>2. QED
    BY <1>1, <1>5, <2>1, Zenon DEF FailRetryably, RecordFailure
<1>6. CASE \E j \in Keys : LeaseExpires(j)
  BY <1>6, StatusAfter DEF LeaseExpires, IType, TypeOK
<1>7. QED
  BY <1>2, <1>3, <1>4, <1>5, <1>6, TaskSteps

\* Every claim of a task has a number of its own.
Attempts ==
    /\ \A k \in Keys : task[k].attempt_count <= MaxAttempts
    /\ \A h \in Handlers : pc[h] # "idle" => attempt[h] <= task[TaskOf(h)].attempt_count
    /\ \A g, h \in Handlers :
          /\ g # h
          /\ pc[g] # "idle"
          /\ pc[h] # "idle"
          /\ TaskOf(g) = TaskOf(h)
          /\ attempt[g] = attempt[h]
          => attempt[g] = 0

\* A dead letter is the work of the last attempt, which publishes nothing after it.
DeadLetters ==
    /\ \A k \in Keys : /\ dlq[k] <= 1
                       /\ dlq[k] = 1 => task[k].attempt_count = MaxAttempts
                       /\ task[k].status = "failed_terminal" => dlq[k] = 1
    /\ \A h \in Handlers :
          /\ pc[h] = "bury" => dlq[TaskOf(h)] = 1
          /\ pc[h] # "idle" /\ dlq[TaskOf(h)] = 1 /\ attempt[h] = MaxAttempts
             => pc[h] \in {"bury", "ack"}

\* Only the handler that made the newest claim finds itself the owner.
Fenced ==
    \A h \in Handlers :
        /\ pc[h] # "idle"
        /\ attempt[h] > 0
        /\ task[TaskOf(h)].status = "leased"
        /\ task[TaskOf(h)].lease_owner = Worker[h]
        => attempt[h] = task[TaskOf(h)].attempt_count

\* The stage runs under a claim.
Claimed == \A h \in Handlers : pc[h] \in {"begin", "load", "process"} => attempt[h] > 0

\* claim_task of handler h finds a row to lease.
Claims(h) == ClaimTask(h) /\ Claimable(task[TaskOf(h)])

\* What a successful claim_task changes.
LEMMA ClaimedRow ==
    ASSUME IType, NEW h \in Handlers, Claims(h)
    PROVE  /\ TaskOf(h) \in Keys
           /\ pc[h] = "claim"
           /\ pc'[h] = "begin"
           /\ task[TaskOf(h)].attempt_count \in Nat
           /\ task[TaskOf(h)].attempt_count < MaxAttempts
           /\ task'[TaskOf(h)].attempt_count = task[TaskOf(h)].attempt_count + 1
           /\ task'[TaskOf(h)].status = "leased"
           /\ task'[TaskOf(h)].lease_owner = Worker[h]
           /\ attempt'[h] = task[TaskOf(h)].attempt_count + 1
           /\ \A k \in Keys : k # TaskOf(h) => task'[k] = task[k]
           /\ \A g \in Handlers : g # h => attempt'[g] = attempt[g] /\ pc'[g] = pc[g]
           /\ UNCHANGED <<stream, msg, dlq>>
<1>1. TaskOf(h) \in Keys /\ task[TaskOf(h)] \in TaskRow /\ pc[h] = "claim"
  BY BusyHandlers DEF Claims, ClaimTask
<1>2. task'[TaskOf(h)] = claim_task(task[TaskOf(h)], Worker[h])
  BY <1>1 DEF Claims, ClaimTask, IType, TypeOK
<1>3. \A k \in Keys : k # TaskOf(h) => task'[k] = task[k]
  BY DEF Claims, ClaimTask, IType, TypeOK
<1>4. /\ pc'[h] = "begin"
      /\ attempt'[h] = task[TaskOf(h)].attempt_count + 1
      /\ \A g \in Handlers : g # h => attempt'[g] = attempt[g] /\ pc'[g] = pc[g]
      /\ UNCHANGED <<stream, msg, dlq>>
  BY Zenon DEF Claims, ClaimTask, Goto, IType, TypeOK
<1>5. task[TaskOf(h)].attempt_count \in Nat /\ task[TaskOf(h)].attempt_count < MaxAttempts
  BY <1>1, Zenon DEF Claims, Claimable, TaskRow
<1>6. /\ task'[TaskOf(h)].attempt_count = task[TaskOf(h)].attempt_count + 1
      /\ task'[TaskOf(h)].status = "leased"
      /\ task'[TaskOf(h)].lease_owner = Worker[h]
  <2>1. ASSUME NEW row \in TaskRow, NEW w
        PROVE  /\ claim_task(row, w).attempt_count = row.attempt_count + 1
               /\ claim_task(row, w).status = "leased"
               /\ claim_task(row, w).lease_owner = w
    BY Zenon DEF claim_task, TaskRow
  <2>2. QED
    BY <1>1, <1>2, <2>1
<1>7. QED
  BY <1>1, <1>3, <1>4, <1>5, <1>6, ZenonT(30)

\* Without a claim no attempt is counted and no lease changes hands.
LEMMA OtherRows ==
    ASSUME IType, [Next]_vars, ~\E h \in Handlers : Claims(h), NEW k \in Keys
    PROVE  /\ task'[k].attempt_count = task[k].attempt_count
           /\ task'[k].status = "leased" => /\ task[k].status = "leased"
                                            /\ task'[k].lease_owner = task[k].lease_owner
<1> DEFINE Kept == /\ task'[k].attempt_count = task[k].attempt_count
                   /\ task'[k].status = "leased" =>
                         /\ task[k].status = "leased"
                         /\ task'[k].lease_owner = task[k].lease_owner
<1>1. ASSUME NEW h \in Handlers, NEW row, task' = [task EXCEPT ![TaskOf(h)] = row],
             row.attempt_count = task[TaskOf(h)].attempt_count,
             row.status # "leased" \/ row = task[TaskOf(h)]
      PROVE  Kept
  BY <1>1, Zenon DEF IType, TypeOK
<1>2. ASSUME NEW h \in Handlers, NEW needed \in BOOLEAN, CompleteStage(h, needed) PROVE Kept
  <2>1. task[TaskOf(h)] \in TaskRow
    BY <1>2, BusyHandlers DEF CompleteStage
  <2>2. /\ mark_succeeded(task[TaskOf(h)]).attempt_count = task[TaskOf(h)].attempt_count
        /\ mark_succeeded(task[TaskOf(h)]).status # "leased"
    BY <2>1, StatusAfter
  <2>3. QED
    BY <1>1, <1>2, <2>2, Zenon DEF CompleteStage
<1>3. ASSUME NEW h \in Handlers, InsertTask(h) PROVE Kept
  <2>1. task[TaskOf(h)] \in TaskRow
    BY <1>3, BusyHandlers DEF InsertTask
  <2>2. /\ insert_task(task[TaskOf(h)]).attempt_count = task[TaskOf(h)].attempt_count
        /\ \/ insert_task(task[TaskOf(h)]).status # "leased"
           \/ insert_task(task[TaskOf(h)]) = task[TaskOf(h)]
    BY <2>1, StatusAfter, Zenon
  <2>3. QED
    BY <1>1, <1>3, <2>2 DEF InsertTask
<1>4. ASSUME NEW h \in Handlers, ClaimTask(h) PROVE Kept
  BY <1>4 DEF ClaimTask, Claims
<1>5. ASSUME NEW h \in Handlers, FailTerminally(h) \/ FailRetryably(h) PROVE Kept
  <2>1. task[TaskOf(h)] \in TaskRow
    BY <1>5, BusyHandlers, Zenon DEF FailTerminally, FailRetryably
  <2>2. ASSUME NEW row \in {mark_failed_terminal(task[TaskOf(h)]),
                            mark_failed_retryable(task[TaskOf(h)])}
        PROVE  row.attempt_count = task[TaskOf(h)].attempt_count /\ row.status # "leased"
    BY <2>1, StatusAfter
  <2>3. CASE task' # task
    BY <1>1, <1>5, <2>2, <2>3, Zenon DEF FailTerminally, FailRetryably, RecordFailure
  <2>4. QED
    BY <2>3
<1>6. ASSUME NEW j \in Keys, LeaseExpires(j) PROVE Kept
  <2>1. /\ [task[j] EXCEPT !.lease_expired = TRUE].attempt_count = task[j].attempt_count
        /\ [task[j] EXCEPT !.lease_expired = TRUE].status = task[j].status
        /\ [task[j] EXCEPT !.lease_expired = TRUE].lease_owner = task[j].lease_owner
    BY DEF IType, TypeOK, TaskRow
  <2>2. QED
    BY <1>6, <2>1 DEF LeaseExpires, IType, TypeOK
<1>7. QED
  BY <1>2, <1>3, <1>4, <1>5, <1>6, TaskSteps

\* Without a claim a busy handler keeps its attempt, and was busy or has none.
LEMMA OtherAttempts ==
    ASSUME IType, [Next]_vars, ~\E g \in Handlers : Claims(g), NEW h \in Handlers, pc'[h] # "idle"
    PROVE  attempt'[h] = attempt[h] /\ (pc[h] = "idle" => attempt[h] = 0)
<1> USE DEF IType, TypeOK, Goto, Return
<1>1. ASSUME NEW g \in Handlers, Poll(g) PROVE UNCHANGED attempt
  BY <1>1 DEF Poll, Reclaim, ReadNew, Deliver
<1>2. ASSUME NEW g \in Handlers, HandlerStep(g) \/ MarkEnqueuedFails(g) \/ Abort(g)
      PROVE  attempt'[h] = attempt[h]
  BY <1>2, Zenon DEF HandlerStep, InsertTask, ClaimTask, Claims, Inspect, BeginStage, LoadTrace,
     CompleteStage, LoseLease, FailStage, DeadLetter, FailTerminally, FailRetryably,
     RecordFailure, Requeue, EnqueueEnrichment, MarkEnqueued, MarkEnqueuedFails, Ack, Abort
<1>3. CASE \/ \E t \in Traces, kind \in Kinds : PublishTraceCaptured(t, kind)
           \/ \E i \in MsgIds : MessageIdles(i)
           \/ \E k \in Keys : LeaseExpires(k)
           \/ UNCHANGED vars
  BY <1>3, Zenon DEF PublishTraceCaptured, MessageIdles, LeaseExpires, vars, locals
<1>4. attempt'[h] = attempt[h]
  BY <1>1, <1>2, <1>3 DEF Next
<1>5. QED
  BY <1>4 DEF Holding

\* Attempts is inductive relative to IType: a claim takes the next number.
LEMMA AttemptsStep == IType /\ IType' /\ Attempts /\ [Next]_vars => Attempts'
<1> SUFFICES ASSUME IType, IType', Attempts, [Next]_vars PROVE Attempts'
  OBVIOUS
<1>0. /\ \A k \in Keys : task[k].attempt_count \in Nat /\ task'[k].attempt_count \in Nat
      /\ \A h \in Handlers : attempt[h] \in Nat
      /\ MaxAttempts \in Nat \ {0}
  BY MaxAttemptsAssumption DEF IType, TypeOK, TaskRow
<1>1. ASSUME NEW c \in Handlers, Claims(c) PROVE Attempts'
  <2> DEFINE n == task[TaskOf(c)].attempt_count
  <2>1. /\ TaskOf(c) \in Keys
        /\ n \in Nat /\ n < MaxAttempts
        /\ task'[TaskOf(c)].attempt_count = n + 1
        /\ attempt'[c] = n + 1
        /\ \A k \in Keys : k # TaskOf(c) => task'[k] = task[k]
        /\ \A g \in Handlers : g # c => attempt'[g] = attempt[g] /\ pc'[g] = pc[g]
        /\ pc[c] # "idle"
        /\ \A g \in Handlers : TaskOf(g)' = TaskOf(g)
    BY <1>1, ClaimedRow, Zenon DEF TaskOf
  <2>2. \A k \in Keys : task'[k].attempt_count <= MaxAttempts
    BY <1>0, <2>1 DEF Attempts
  <2>3. ASSUME NEW h \in Handlers, pc'[h] # "idle"
        PROVE  attempt'[h] <= task'[TaskOf(h)'].attempt_count
    <3>1. pc[h] # "idle" /\ TaskOf(h) \in Keys
      BY <2>1, <2>3, BusyHandlers
    <3>2. QED
      BY <1>0, <2>1, <3>1 DEF Attempts
  <2>4. ASSUME NEW g \in Handlers, NEW h \in Handlers, g # h, pc'[g] # "idle",
               pc'[h] # "idle", TaskOf(g)' = TaskOf(h)', attempt'[g] = attempt'[h]
        PROVE  attempt'[g] = 0
    <3>1. pc[g] # "idle" /\ pc[h] # "idle" /\ TaskOf(g) = TaskOf(h)
      BY <2>1, <2>4
    <3>2. g # c /\ h # c
      BY <1>0, <2>1, <2>4, <3>1 DEF Attempts
    <3>3. QED
      BY <2>1, <2>4, <3>1, <3>2 DEF Attempts
  <2>5. QED
    BY <2>2, <2>3, <2>4, Zenon DEF Attempts
<1>2. CASE ~\E c \in Handlers : Claims(c)
  <2>1. \A k \in Keys : task'[k].attempt_count = task[k].attempt_count
    BY <1>2, OtherRows, Zenon
  <2>2. ASSUME NEW h \in Handlers, pc'[h] # "idle"
        PROVE  /\ attempt'[h] = attempt[h]
               /\ pc[h] = "idle" => attempt[h] = 0
               /\ pc[h] # "idle" => TaskOf(h)' = TaskOf(h)
               /\ TaskOf(h)' \in Keys
    BY <1>2, <2>2, OtherAttempts, HandlersKeepTask DEF IType, Holding, TaskOf
  <2>3. \A k \in Keys : task'[k].attempt_count <= MaxAttempts
    BY <2>1 DEF Attempts
  <2>4. ASSUME NEW h \in Handlers, pc'[h] # "idle"
        PROVE  attempt'[h] <= task'[TaskOf(h)'].attempt_count
    BY <1>0, <2>1, <2>2, <2>4 DEF Attempts
  <2>5. ASSUME NEW g \in Handlers, NEW h \in Handlers, g # h, pc'[g] # "idle",
               pc'[h] # "idle", TaskOf(g)' = TaskOf(h)', attempt'[g] = attempt'[h]
        PROVE  attempt'[g] = 0
    BY <2>2, <2>5 DEF Attempts
  <2>6. QED
    BY <2>3, <2>4, <2>5 DEF Attempts
<1>3. QED
  BY <1>1, <1>2

\* The steps around a dead letter.
LEMMA DeadLetterSteps ==
    ASSUME IType, [Next]_vars
    PROVE  /\ UNCHANGED dlq \/ \E h \in Handlers : DeadLetter(h)
           /\ \A h \in Handlers :
                 /\ pc'[h] = "bury" => pc[h] = "bury" \/ DeadLetter(h)
                 /\ pc[h] \in {"bury", "ack"} => pc'[h] \in {"bury", "ack", "idle"}
<1>1. UNCHANGED dlq \/ \E h \in Handlers : DeadLetter(h)
  BY ZenonT(30) DEF Next, HandlerStep, Poll, vars, PublishTraceCaptured, Reclaim, ReadNew, Deliver,
     InsertTask, ClaimTask, Inspect, BeginStage, LoadTrace, CompleteStage, LoseLease, FailStage,
     FailTerminally, FailRetryably, Requeue, EnqueueEnrichment, MarkEnqueued,
     MarkEnqueuedFails, Ack, Abort, MessageIdles, LeaseExpires
<1>2. ASSUME NEW h \in Handlers, pc'[h] # pc[h]
      PROVE  /\ pc'[h] = "bury" => DeadLetter(h)
             /\ pc[h] \in {"bury", "ack"} => pc'[h] \in {"bury", "ack", "idle"}
  <2> USE DEF IType, TypeOK, Goto, Return
  <2>1. CASE Inspect(h) \/ \E needed \in BOOLEAN : CompleteStage(h, needed)
    BY <2>1 DEF Inspect, CompleteStage
  <2>2. CASE FailTerminally(h) \/ FailRetryably(h)
    BY <2>2, ZenonT(30) DEF FailTerminally, FailRetryably, RecordFailure
  <2>3. CASE Poll(h) \/ InsertTask(h) \/ ClaimTask(h) \/ BeginStage(h) \/ LoadTrace(h)
             \/ LoseLease(h) \/ FailStage(h) \/ DeadLetter(h) \/ Requeue(h)
             \/ EnqueueEnrichment(h) \/ MarkEnqueued(h) \/ MarkEnqueuedFails(h) \/ Ack(h)
             \/ Abort(h)
    BY <2>3, ZenonT(30) DEF Poll, Reclaim, ReadNew, Deliver, InsertTask, ClaimTask, BeginStage, LoadTrace,
       LoseLease, FailStage, DeadLetter, Requeue, EnqueueEnrichment, MarkEnqueued,
       MarkEnqueuedFails, Ack, Abort
  <2>4. QED
    BY <1>2, <2>1, <2>2, <2>3, OwnSteps DEF HandlerStep
<1>3. QED
  BY <1>1, <1>2

\* DeadLetters is inductive relative to IType and Attempts.
LEMMA DeadLettersStep ==
    IType /\ IType' /\ Attempts /\ DeadLetters /\ [Next]_vars => DeadLetters'
<1> SUFFICES ASSUME IType, IType', Attempts, DeadLetters, [Next]_vars PROVE DeadLetters'
  OBVIOUS
<1>1. /\ \A k \in Keys : task[k].attempt_count \in Nat /\ dlq[k] \in Nat
      /\ \A h \in Handlers : attempt[h] \in Nat
      /\ MaxAttempts \in Nat \ {0}
  BY MaxAttemptsAssumption, Zenon DEF IType, TypeOK, TaskRow
<1>2. ASSUME NEW h \in Handlers, pc[h] # "idle", pc'[h] # "idle"
      PROVE  TaskOf(h)' = TaskOf(h) /\ TaskOf(h) \in Keys
  BY <1>2, HandlersKeepTask, BusyHandlers
\* The author of a dead letter is the last attempt, and the first to write one.
<1>3. ASSUME NEW d \in Handlers, DeadLetter(d)
      PROVE  /\ TaskOf(d) \in Keys
             /\ attempt[d] = MaxAttempts
             /\ task[TaskOf(d)].attempt_count = MaxAttempts
             /\ dlq[TaskOf(d)] = 0
             /\ dlq' = [dlq EXCEPT ![TaskOf(d)] = 1]
             /\ UNCHANGED <<task, attempt>>
             /\ \A h \in Handlers : h # d => pc'[h] = pc[h]
  <2>1. /\ pc[d] = "fail" /\ attempt[d] >= MaxAttempts
        /\ dlq' = [dlq EXCEPT ![TaskOf(d)] = dlq[TaskOf(d)] + 1]
        /\ UNCHANGED <<task, attempt>>
        /\ \A h \in Handlers : h # d => pc'[h] = pc[h]
    BY <1>3, Zenon DEF DeadLetter, store, Goto, IType, TypeOK
  <2>2. TaskOf(d) \in Keys
    BY <2>1, BusyHandlers
  <2>3. attempt[d] = MaxAttempts /\ task[TaskOf(d)].attempt_count = MaxAttempts
    BY <1>1, <2>1, <2>2 DEF Attempts
  <2>4. dlq[TaskOf(d)] = 0
    BY <1>1, <2>1, <2>2, <2>3 DEF DeadLetters
  <2>5. QED
    BY <2>1, <2>2, <2>3, <2>4
<1>4. ASSUME NEW k \in Keys, dlq[k] = 1 PROVE dlq'[k] = 1
  BY <1>3, <1>4, DeadLetterSteps DEF IType, TypeOK
<1>5. ASSUME NEW k \in Keys
      PROVE  dlq'[k] <= 1 /\ (dlq'[k] = 1 => task'[k].attempt_count = MaxAttempts)
  <2>1. CASE \E d \in Handlers : DeadLetter(d)
    BY <1>3, <2>1 DEF DeadLetters, IType, TypeOK
  <2>2. CASE UNCHANGED dlq
    <3>1. CASE \E c \in Handlers : Claims(c)
      <4>1. PICK c \in Handlers : Claims(c)
        BY <3>1, Zenon
      <4>2. /\ task[TaskOf(c)].attempt_count < MaxAttempts
            /\ k # TaskOf(c) => task'[k] = task[k]
        BY <4>1, ClaimedRow
      <4>3. dlq[k] <= 1 /\ (dlq[k] = 1 => task[k].attempt_count = MaxAttempts)
        BY DEF DeadLetters
      <4>4. k = TaskOf(c) => dlq[k] # 1
        BY <1>1, <4>2, <4>3
      <4>5. QED
        BY <2>2, <4>2, <4>3, <4>4
    <3>2. CASE ~\E c \in Handlers : Claims(c)
      BY <2>2, <3>2, OtherRows DEF DeadLetters
    <3>3. QED
      BY <3>1, <3>2
  <2>3. QED
    BY <2>1, <2>2, DeadLetterSteps
<1>6. ASSUME NEW k \in Keys, task'[k].status = "failed_terminal" PROVE dlq'[k] = 1
  BY <1>4, <1>6, TerminalSteps, Zenon DEF DeadLetters, FailTerminally
<1>7. ASSUME NEW h \in Handlers, pc'[h] = "bury" PROVE dlq'[TaskOf(h)'] = 1
  <2>1. CASE pc[h] = "bury"
    BY <1>2, <1>4, <1>7, <2>1 DEF DeadLetters
  <2>2. CASE DeadLetter(h)
    BY <1>2, <1>3, <1>7, <2>2, ZenonT(30) DEF DeadLetter, IType, TypeOK
  <2>3. QED
    BY <1>7, <2>1, <2>2, DeadLetterSteps
<1>8. ASSUME NEW h \in Handlers, pc'[h] # "idle", dlq'[TaskOf(h)'] = 1,
             attempt'[h] = MaxAttempts
      PROVE  pc'[h] \in {"bury", "ack"}
  <2>1. ASSUME NEW c \in Handlers, Claims(c) PROVE pc'[h] \in {"bury", "ack"}
    <3>1. UNCHANGED dlq /\ TaskOf(h)' = TaskOf(h)
      BY <2>1, ClaimedRow, Zenon DEF TaskOf
    <3>2. h # c
      <4>1. TaskOf(c) \in Keys /\ task[TaskOf(c)].attempt_count < MaxAttempts
        BY <2>1, ClaimedRow, Zenon
      <4>2. dlq[TaskOf(c)] # 1
        BY <1>1, <4>1 DEF DeadLetters
      <4>3. QED
        BY <1>8, <3>1, <4>2, Zenon
    <3>3. attempt'[h] = attempt[h] /\ pc'[h] = pc[h]
      BY <2>1, <3>2, ClaimedRow
    <3>4. QED
      BY <1>8, <3>1, <3>3 DEF DeadLetters
  <2>2. CASE ~\E c \in Handlers : Claims(c)
    <3>1. attempt[h] = MaxAttempts /\ pc[h] # "idle"
      BY <1>1, <1>8, <2>2, OtherAttempts
    <3>2. TaskOf(h)' = TaskOf(h) /\ TaskOf(h) \in Keys
      BY <1>2, <1>8, <3>1
    <3>3. ASSUME NEW d \in Handlers, DeadLetter(d), d # h
          PROVE  dlq'[TaskOf(h)] = dlq[TaskOf(h)]
      <4>1. TaskOf(d) # TaskOf(h)
        BY <1>1, <1>3, <3>1, <3>3, ZenonT(30) DEF Attempts, DeadLetter
      <4>2. QED
        BY <1>3, <3>2, <3>3, <4>1 DEF IType, TypeOK
    <3>4. CASE DeadLetter(h)
      BY <3>4 DEF DeadLetter, Goto, IType, TypeOK
    <3>5. CASE ~DeadLetter(h)
      <4>1. dlq[TaskOf(h)] = 1
        BY <1>8, <3>2, <3>3, <3>5, DeadLetterSteps
      <4>2. pc[h] \in {"bury", "ack"}
        BY <3>1, <4>1, Zenon DEF DeadLetters
      <4>3. QED
        BY <1>8, <4>2, DeadLetterSteps
    <3>6. QED
      BY <3>4, <3>5
  <2>3. QED
    BY <2>1, <2>2
<1>9. QED
  BY <1>5, <1>6, <1>7, <1>8 DEF DeadLetters

\* Attempts and DeadLetters hold initially: nothing was claimed.
LEMMA AttemptsInit == Init => Attempts /\ DeadLetters
<1> SUFFICES ASSUME Init PROVE Attempts /\ DeadLetters
  OBVIOUS
<1>1. \A k \in Keys : task[k] = AbsentRow /\ dlq[k] = 0
  BY DEF Init
<1>2. \A h \in Handlers : pc[h] = "idle"
  BY DEF Init
<1>3. QED
  BY <1>1, <1>2, MaxAttemptsAssumption DEF Attempts, DeadLetters, AbsentRow

\* Attempts holds always.
LEMMA AttemptsInvariant == Spec => [](IType /\ Attempts)
BY ITypeInit, ITypeStep, AttemptsInit, AttemptsStep, PTL DEF Spec

\* However often an exhausted task is redelivered, one dead letter is published
\* for it, and never after it is marked failed_terminal.
THEOREM DeadLettersAreUnique == Spec => []OneDeadLetter
<1>1. DeadLetters => OneDeadLetter
  BY DEF DeadLetters, OneDeadLetter
<1>2. QED
  BY <1>1, AttemptsInit, AttemptsInvariant, DeadLettersStep, PTL DEF Spec
-----------------------------------------------------------------------------
(* Fencing *)

\* No two handlers share a worker_id.
OwnIds == \A g, h \in Handlers : Worker[g] = Worker[h] => g = h

\* Fenced is inductive when no two handlers share a worker_id.
LEMMA FencedStep ==
    ASSUME OwnIds
    PROVE  IType /\ IType' /\ Attempts /\ Fenced /\ [Next]_vars => Fenced'
<1> SUFFICES ASSUME IType, IType', Attempts, Fenced, [Next]_vars PROVE Fenced'
  OBVIOUS
<1> SUFFICES ASSUME NEW h \in Handlers, pc'[h] # "idle", attempt'[h] > 0,
                    task'[TaskOf(h)'].status = "leased",
                    task'[TaskOf(h)'].lease_owner = Worker[h]
             PROVE  attempt'[h] = task'[TaskOf(h)'].attempt_count
  BY DEF Fenced
<1>1. ASSUME NEW c \in Handlers, Claims(c)
      PROVE  attempt'[h] = task'[TaskOf(h)'].attempt_count
  <2>1. \A g \in Handlers : TaskOf(g)' = TaskOf(g)
    BY <1>1, ClaimedRow, Zenon DEF TaskOf
  <2>2. CASE h = c
    BY <1>1, <2>1, <2>2, ClaimedRow
  <2>3. CASE h # c
    <3>1. pc[h] # "idle" /\ TaskOf(h) \in Keys /\ attempt'[h] = attempt[h]
      BY <1>1, <2>3, ClaimedRow, BusyHandlers, Zenon
    <3>2. TaskOf(h) # TaskOf(c)
      BY <1>1, <2>1, <2>3, ClaimedRow DEF OwnIds
    <3>3. task'[TaskOf(h)] = task[TaskOf(h)]
      BY <1>1, <3>1, <3>2, ClaimedRow, Zenon
    <3>4. QED
      BY <2>1, <3>1, <3>3, Zenon DEF Fenced
  <2>4. QED
    BY <2>2, <2>3, Zenon
<1>2. CASE ~\E c \in Handlers : Claims(c)
  <2>1. attempt'[h] = attempt[h] /\ pc[h] # "idle"
    BY <1>2, OtherAttempts
  <2>2. TaskOf(h)' = TaskOf(h) /\ TaskOf(h) \in Keys
    BY <2>1, HandlersKeepTask, BusyHandlers
  <2>3. QED
    BY <1>2, <2>1, <2>2, OtherRows DEF Fenced
<1>3. QED
  BY <1>1, <1>2

\* The stage runs only in a handler that has claimed the task.
LEMMA ClaimedStep == IType /\ Claimed /\ [Next]_vars => Claimed'
<1> DEFINE Running == {"begin", "load", "process"}
<1> SUFFICES ASSUME IType, Claimed, [Next]_vars, NEW h \in Handlers, pc'[h] \in Running
             PROVE  attempt'[h] > 0
  BY DEF Claimed
<1>1. CASE Claims(h)
  BY <1>1, ClaimedRow
<1>2. CASE ~Claims(h)
  <2>1. pc[h] \in Running
    <3> USE DEF IType, TypeOK, Goto, Return
    <3>1. CASE Inspect(h) \/ \E needed \in BOOLEAN : CompleteStage(h, needed)
      BY <3>1, ZenonT(30) DEF Inspect, CompleteStage
    <3>2. CASE FailTerminally(h) \/ FailRetryably(h)
      BY <3>2, Zenon DEF FailTerminally, FailRetryably, RecordFailure
    <3>3. CASE pc'[h] # pc[h]
      BY <1>2, <3>1, <3>2, <3>3, OwnSteps, ZenonT(30)
         DEF HandlerStep, Poll, Reclaim, ReadNew, Deliver, InsertTask, ClaimTask, Claims,
             BeginStage, LoadTrace, LoseLease, FailStage, DeadLetter, Requeue,
             EnqueueEnrichment, MarkEnqueued, MarkEnqueuedFails, Ack, Abort
    <3>4. QED
      BY <3>3
  <2>2. attempt'[h] = attempt[h]
    BY <1>2, OtherAttempts, ClaimedRow
  <2>3. QED
    BY <2>1, <2>2 DEF Claimed
<1>3. QED
  BY <1>1, <1>2

\* With a worker_id per handler, the owner check of mark_succeeded fences off every
\* attempt but the newest, though it does not compare attempt_count.
THEOREM NewestClaimCommits ==
    ASSUME OwnIds
    PROVE  Spec => CommitsAreFenced
<1>1. Init => Fenced /\ Claimed
  BY Zenon DEF Init, Fenced, Claimed
<1>2. IType /\ Fenced /\ Claimed /\ [Next]_vars =>
          [\A h \in Handlers :
              pc[h] = "process" /\ committed' # committed /\ pc'[h] # "process" =>
                  attempt[h] = task[TaskOf(h)].attempt_count]_vars
  <2> SUFFICES ASSUME IType, Fenced, Claimed, [Next]_vars, NEW h \in Handlers,
                      pc[h] = "process", committed' # committed, pc'[h] # "process"
               PROVE  attempt[h] = task[TaskOf(h)].attempt_count
    BY Zenon
  <2>1. PICK g \in Handlers, needed \in BOOLEAN : CompleteStage(g, needed)
    BY SettlingSteps
  <2>2. g = h
    BY <2>1 DEF CompleteStage, Goto, IType, TypeOK
  <2>3. QED
    BY <2>1, <2>2 DEF CompleteStage, HoldsLease, Fenced, Claimed
<1>3. QED
  BY <1>1, <1>2, FencedStep, ClaimedStep, AttemptsInvariant, ITypeStep, PTL
     DEF Spec, CommitsAreFenced
=============================================================================

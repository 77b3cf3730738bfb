--------------------------- MODULE GatewayCapture ---------------------------
(***************************************************************************)
(* internal/gateway: what Handler.ServeHTTP does with a request besides    *)
(* proxying it.  It puts raw evidence into the evidence store, forwards    *)
(* the request, stores the trace and its evidence rows (insertTrace),      *)
(* counts coverage alerts, publishes the trace to analysis.core and notes  *)
(* that it did.  Requests run concurrently; every call to the store, the   *)
(* database, Redis or the upstream is one step.                            *)
(*                                                                         *)
(* An audit context expires after AuditTimeout.  A call that is made with  *)
(* an expired context fails at once; a call may also be slow, and leave    *)
(* its context expired for the calls that follow.  A call that reports an  *)
(* error may have taken effect all the same.  The spool directory is       *)
(* configured and writable.  A multipart body has one part; requests use   *)
(* trace ids of their own and share no row but that of a coverage alert.   *)
(***************************************************************************)
EXTENDS Naturals, Sequences

CONSTANTS Requests,
          MaxFaults   \* bound: failing or slow calls, and crashes

ASSUME FaultsAssumption == MaxFaults \in Nat

VARIABLES
    pc, rec,    \* ServeHTTP's progress and its traceRecord
    todo,       \* the evidence rows insertTrace has still to write
    expired,    \* whether the current audit context is past its deadline
    client,     \* what the client has received
    store,      \* objects in the evidence store
    spool,      \* envelopes in the degraded spool
    traces,     \* the table traces
    evidence,   \* the table raw_evidence_objects
    alerts,     \* coverage_alerts: sample_trace_ids
    core,       \* traces published to analysis.core
    queued,     \* traces with core_queued_at set
    failed,     \* for the properties: the objects of each request that Put failed on
    faults

tables == <<traces, evidence, alerts, core, queued>>
vars == <<pc, rec, todo, expired, client, store, spool, tables, failed, faults>>

RequestTypes == {"request_body", "request_headers"}
ResponseTypes == {"response_body", "response_headers", "websocket_log"}
ObjectTypes == RequestTypes \cup ResponseTypes \cup {"multipart_part"}

\* The order in which insertTrace writes evidence rows.
RowOrder == <<"request_body", "request_headers", "multipart_part",
              "response_body", "response_headers", "websocket_log">>
Place(type) == CHOOSE i \in DOMAIN RowOrder : RowOrder[i] = type

\* The columns of traces that refer to evidence.
RefTypes == RequestTypes \cup {"response_body", "response_headers"}

Path == {"", "unreachable", "unreadable", "plain", "stream", "websocket"}

Record == [path     : Path,
           upgrade  : BOOLEAN,  \* a WebSocket upgrade of a websocket route
           parts    : BOOLEAN,  \* a multipart body that could be split
           rawfirst : BOOLEAN,  \* UnsupportedAlertCode is known_route_raw_first
           objects  : SUBSET ObjectTypes,
           error    : {"", "capture_degraded", "upstream_request_error",
                       "upstream_response_read_error"},
           skip     : BOOLEAN,  \* skipPostPersistence
           errs     : BOOLEAN]  \* insertTrace has met an error

NewRecord == [path |-> "", upgrade |-> FALSE, parts |-> FALSE, rawfirst |-> FALSE,
              objects |-> {}, error |-> "", skip |-> FALSE, errs |-> FALSE]

TraceRow == [refs : SUBSET RefTypes, error : {"", "capture_degraded",
             "upstream_request_error", "upstream_response_read_error"}]
NoRow == [refs |-> {}, error |-> "absent"]

ProgramCounter == {"start", "upstream", "copy", "hijack", "insert", "rows", "alert",
                   "publish", "queued", "reply", "done", "crashed"}
                  \cup RequestTypes \cup ResponseTypes

TypeOK ==
    /\ pc \in [Requests -> ProgramCounter]
    /\ rec \in [Requests -> Record]
    /\ todo \in [Requests -> SUBSET ObjectTypes]
    /\ expired \in [Requests -> BOOLEAN]
    /\ client \in [Requests -> {"waiting", "error", "answer", "partial", "broken"}]
    /\ store \subseteq Requests \X ObjectTypes
    /\ spool \subseteq Requests \X RequestTypes
    /\ traces \in [Requests -> TraceRow \cup {NoRow}]
    /\ evidence \subseteq Requests \X ObjectTypes
    /\ alerts \subseteq Requests
    /\ core \subseteq Requests
    /\ queued \subseteq Requests
    /\ failed \in [Requests -> SUBSET ObjectTypes]
    /\ faults \in 0 .. MaxFaults
-----------------------------------------------------------------------------
(* Calls *)

Goto(r, label) == pc' = [pc EXCEPT ![r] = label]

\* A call ends "ok", with an "error", or with an error though it was "done".
Fates == {"ok", "error", "done"}

Call(r, fate, slow) ==
    /\ expired[r] => fate = "error" /\ ~slow
    /\ faults' = faults + IF expired[r] \/ (fate = "ok" /\ ~slow) THEN 0 ELSE 1
    /\ faults' <= MaxFaults

Took(fate) == fate # "error"

\* Mutant: the parts of a multipart body are not renamed into place.
Put_in_place(r, type, fate) ==
    /\ store' = IF fate = "ok" /\ type # "multipart_part" THEN store \cup {<<r, type>>} ELSE store
    /\ failed' = IF fate = "ok" THEN failed ELSE [failed EXCEPT ![r] = @ \cup {type}]

\* putEvidence: Put checks the context, writes a temporary file and renames it,
\* or puts the object to OSS.
Put(r, type, fate) ==
    /\ store' = IF Took(fate) THEN store \cup {<<r, type>>} ELSE store
    /\ failed' = IF fate = "ok" THEN failed ELSE [failed EXCEPT ![r] = @ \cup {type}]

\* Mutant: the last error is kept.
MergeTraceErrorType_last(primary, secondary) == IF secondary # "" THEN secondary ELSE primary

\* mergeTraceErrorType: the first error is kept.
MergeTraceErrorType(primary, secondary) == IF primary # "" THEN primary ELSE secondary
-----------------------------------------------------------------------------
(* ServeHTTP, up to the upstream *)

\* No such route, a body that is too large or cannot be read, or no audit secret.
Reject(r) ==
    /\ pc[r] = "start"
    /\ client' = [client EXCEPT ![r] = "error"]
    /\ Goto(r, "done")
    /\ UNCHANGED <<rec, todo, expired, store, spool, tables, failed, faults>>

Accept(r, upgrade, parts, rawfirst) ==
    /\ pc[r] = "start"
    /\ rec' = [rec EXCEPT ![r].upgrade = upgrade, ![r].parts = parts, ![r].rawfirst = rawfirst]
    /\ Goto(r, "request_body")
    /\ UNCHANGED <<todo, expired, client, store, spool, tables, failed, faults>>

\* Request evidence: a failure is spooled with the same context, marks the trace
\* capture_degraded and, for the body, keeps it from being analysed.  Each of the
\* two has an audit context of its own.
PutRequestEvidence(r, type, fate, slow) ==
    /\ pc[r] = type
    /\ Call(r, fate, slow)
    /\ Put(r, type, fate)
    /\ IF fate = "ok"
       THEN /\ rec' = [rec EXCEPT ![r].objects = @ \cup {type}]
            /\ UNCHANGED spool
       ELSE /\ rec' = [rec EXCEPT ![r].error = "capture_degraded",
                                  ![r].skip = @ \/ type = "request_body"]
            /\ spool' = IF slow THEN spool ELSE spool \cup {<<r, type>>}
    /\ Goto(r, IF type = "request_body" THEN "request_headers" ELSE "upstream")
    /\ UNCHANGED <<todo, expired, client, tables>>
-----------------------------------------------------------------------------
(* The upstream's answer *)

\* newUpstreamRequest fails: the client hears of it and nothing is recorded.
RequestNotBuilt(r) ==
    /\ pc[r] = "upstream"
    /\ ~rec[r].upgrade
    /\ client' = [client EXCEPT ![r] = "error"]
    /\ Goto(r, "done")
    /\ UNCHANGED <<rec, todo, expired, store, spool, tables, failed, faults>>

\* client().Do fails: the trace is recorded before the client hears of it.
UpstreamUnreachable(r) ==
    /\ pc[r] = "upstream"
    /\ ~rec[r].upgrade
    /\ rec' = [rec EXCEPT ![r].path = "unreachable",
                          ![r].error = MergeTraceErrorType(@, "upstream_request_error")]
    /\ Goto(r, "insert")
    /\ UNCHANGED <<todo, expired, client, store, spool, tables, failed, faults>>

\* A text/event-stream is copied; any other body is read first.
UpstreamAnswers(r, path) ==
    /\ pc[r] = "upstream"
    /\ ~rec[r].upgrade
    /\ rec' = [rec EXCEPT ![r].path = path]
    /\ Goto(r, IF path = "plain" THEN "response_body" ELSE "response_headers")
    /\ UNCHANGED <<todo, expired, client, store, spool, tables, failed, faults>>

UpstreamUnreadable(r) ==
    /\ pc[r] = "upstream"
    /\ ~rec[r].upgrade
    /\ rec' = [rec EXCEPT ![r].path = "unreadable",
                          ![r].error = MergeTraceErrorType(@, "upstream_response_read_error"),
                          ![r].skip = TRUE]
    /\ Goto(r, "response_headers")
    /\ UNCHANGED <<todo, expired, client, store, spool, tables, failed, faults>>

\* serveWebSocketTunnel: no request, no connection or no handshake.
TunnelRefused(r) ==
    /\ pc[r] = "upstream"
    /\ rec[r].upgrade
    /\ rec' = [rec EXCEPT ![r].path = "websocket"]
    /\ client' = [client EXCEPT ![r] = "error"]
    /\ Goto(r, "insert")
    /\ UNCHANGED <<todo, expired, store, spool, tables, failed, faults>>

Handshake(r) ==
    /\ pc[r] = "upstream"
    /\ rec[r].upgrade
    /\ rec' = [rec EXCEPT ![r].path = "websocket"]
    /\ Goto(r, "response_headers")
    /\ UNCHANGED <<todo, expired, client, store, spool, tables, failed, faults>>

\* What follows the evidence of one type on each path.
After(path, type) ==
    CASE path = "plain" /\ type = "response_body"         -> "response_headers"
      [] path = "stream" /\ type = "response_headers"     -> "copy"
      [] path = "websocket" /\ type = "response_headers"  -> "hijack"
      [] OTHER                                            -> "insert"

\* Response evidence: a failure is reported and keeps the trace from being
\* analysed.  On the plain and the unreadable path insertTrace goes on with the
\* same audit context, otherwise it gets a new one.
PutResponseEvidence(r, type, fate, slow) ==
    /\ pc[r] = type
    /\ Call(r, fate, slow)
    /\ Put(r, type, fate)
    /\ rec' = IF fate = "ok" THEN [rec EXCEPT ![r].objects = @ \cup {type}]
                             ELSE [rec EXCEPT ![r].skip = TRUE]
    /\ expired' = [expired EXCEPT ![r] = rec[r].path \in {"plain", "unreadable"}
                                         /\ (@ \/ slow)]
    /\ Goto(r, After(rec[r].path, type))
    /\ UNCHANGED <<todo, client, spool, tables>>

\* copyStreamToClientAndCapture: to the end, or until either side breaks off.
CopyStream(r, got) ==
    /\ pc[r] = "copy"
    /\ client' = [client EXCEPT ![r] = got]
    /\ Goto(r, "response_body")
    /\ UNCHANGED <<rec, todo, expired, store, spool, tables, failed, faults>>

\* The connection cannot be taken over (a 500, or nothing is written), or the
\* handshake cannot be passed on.
HijackFails(r, got) ==
    /\ pc[r] = "hijack"
    /\ client' = [client EXCEPT ![r] = got]
    /\ Goto(r, "insert")
    /\ UNCHANGED <<rec, todo, expired, store, spool, tables, failed, faults>>

\* The upstream's answer is passed on and, after a 101, copyBidirectional runs
\* until both sides have closed; an empty log is not stored.
Tunnel(r, logged) ==
    /\ pc[r] = "hijack"
    /\ client' = [client EXCEPT ![r] = "answer"]
    /\ Goto(r, IF logged THEN "websocket_log" ELSE "insert")
    /\ UNCHANGED <<rec, todo, expired, store, spool, tables, failed, faults>>
-----------------------------------------------------------------------------
(* insertTrace *)

\* Mutant: everything that was stored is referred to.
TraceOf_all(r) == [refs |-> rec[r].objects, error |-> rec[r].error]

\* The traces.Trace built from the record.
TraceOf(r) == [refs |-> rec[r].objects \cap RefTypes, error |-> rec[r].error]

\* The evidence rows of a trace: one for each object, and for the part of the body.
Rows(r) == rec[r].objects \cup (IF rec[r].parts THEN {"multipart_part"} ELSE {})

\* Mutant: a failed INSERT ends the request as well.
InsertTrace_aborts(r, fate, slow) ==
    /\ pc[r] = "insert"
    /\ Call(r, fate, slow)
    /\ traces' = IF Took(fate) THEN [traces EXCEPT ![r] = TraceOf(r)] ELSE traces
    /\ todo' = [todo EXCEPT ![r] = Rows(r)]
    /\ Goto(r, IF fate = "ok" THEN "rows" ELSE "done")
    /\ expired' = [expired EXCEPT ![r] = @ \/ slow]
    /\ UNCHANGED <<rec, client, store, spool, evidence, alerts, core, queued, failed>>

\* The row of traces; on an error insertTrace gives up.
InsertTrace(r, fate, slow) ==
    /\ pc[r] = "insert"
    /\ Call(r, fate, slow)
    /\ traces' = IF Took(fate) THEN [traces EXCEPT ![r] = TraceOf(r)] ELSE traces
    /\ todo' = [todo EXCEPT ![r] = Rows(r)]
    /\ Goto(r, IF fate = "ok" THEN "rows" ELSE "reply")
    /\ expired' = [expired EXCEPT ![r] = @ \/ slow]
    /\ UNCHANGED <<rec, client, store, spool, evidence, alerts, core, queued, failed>>

\* The row whose turn it is.
Turn(r, type) ==
    /\ pc[r] = "rows"
    /\ type \in todo[r]
    /\ \A other \in todo[r] : Place(type) <= Place(other)

\* The parts of a multipart body are put into the store only now.
PutPart(r, type, fate, slow) ==
    /\ Turn(r, type)
    /\ type \notin rec[r].objects
    /\ Call(r, fate, slow)
    /\ Put(r, type, fate)
    /\ IF fate = "ok"
       THEN /\ rec' = [rec EXCEPT ![r].objects = @ \cup {type}]
            /\ UNCHANGED todo
       ELSE /\ rec' = [rec EXCEPT ![r].errs = TRUE]
            /\ todo' = [todo EXCEPT ![r] = @ \ {type}]
    /\ expired' = [expired EXCEPT ![r] = @ \/ slow]
    /\ UNCHANGED <<pc, client, spool, tables>>

\* insertEvidenceObject: an error is kept, and the next row is tried.
InsertEvidence(r, type, fate, slow) ==
    /\ Turn(r, type)
    /\ type \in rec[r].objects
    /\ Call(r, fate, slow)
    /\ evidence' = IF Took(fate) THEN evidence \cup {<<r, type>>} ELSE evidence
    /\ rec' = [rec EXCEPT ![r].errs = @ \/ fate # "ok"]
    /\ todo' = [todo EXCEPT ![r] = @ \ {type}]
    /\ expired' = [expired EXCEPT ![r] = @ \/ slow]
    /\ UNCHANGED <<pc, client, store, spool, traces, alerts, core, queued, failed>>

\* Mutant: errors of the evidence rows are forgotten.
Persisted_anyway(r) ==
    /\ pc[r] = "rows"
    /\ todo[r] = {}
    /\ Goto(r, IF rec[r].skip THEN "reply"
               ELSE IF rec[r].rawfirst THEN "alert" ELSE "publish")
    /\ UNCHANGED <<rec, todo, expired, client, store, spool, tables, failed, faults>>

\* Only a complete record goes on to alerts and analysis.
Persisted(r) ==
    /\ pc[r] = "rows"
    /\ todo[r] = {}
    /\ Goto(r, IF rec[r].errs \/ rec[r].skip THEN "reply"
               ELSE IF rec[r].rawfirst THEN "alert" ELSE "publish")
    /\ UNCHANGED <<rec, todo, expired, client, store, spool, tables, failed, faults>>

\* The upsert of EmitCoverageAlert; an error does not stop the publishing.
EmitCoverageAlert(r, fate, slow) ==
    /\ pc[r] = "alert"
    /\ Call(r, fate, slow)
    /\ alerts' = IF Took(fate) THEN alerts \cup {r} ELSE alerts
    /\ Goto(r, "publish")
    /\ expired' = [expired EXCEPT ![r] = @ \/ slow]
    /\ UNCHANGED <<rec, todo, client, store, spool, traces, evidence, core, queued, failed>>

\* Mutant: core_queued_at is set whether or not the XADD went through.
PublishTraceCaptured_marks(r, fate, slow) ==
    /\ pc[r] = "publish"
    /\ Call(r, fate, slow)
    /\ core' = IF Took(fate) THEN core \cup {r} ELSE core
    /\ Goto(r, "queued")
    /\ expired' = [expired EXCEPT ![r] = @ \/ slow]
    /\ UNCHANGED <<rec, todo, client, store, spool, traces, evidence, alerts, queued, failed>>

\* XADD to analysis.core.
PublishTraceCaptured(r, fate, slow) ==
    /\ pc[r] = "publish"
    /\ Call(r, fate, slow)
    /\ core' = IF Took(fate) THEN core \cup {r} ELSE core
    /\ Goto(r, IF fate = "ok" THEN "queued" ELSE "reply")
    /\ expired' = [expired EXCEPT ![r] = @ \/ slow]
    /\ UNCHANGED <<rec, todo, client, store, spool, traces, evidence, alerts, queued, failed>>

MarkTraceCoreQueued(r, fate, slow) ==
    /\ pc[r] = "queued"
    /\ Call(r, fate, slow)
    /\ queued' = IF Took(fate) THEN queued \cup {r} ELSE queued
    /\ Goto(r, "reply")
    /\ expired' = [expired EXCEPT ![r] = @ \/ slow]
    /\ UNCHANGED <<rec, todo, client, store, spool, traces, evidence, alerts, core, failed>>
-----------------------------------------------------------------------------
\* The end of ServeHTTP: a response that was read is passed on only now.
Reply(r) ==
    /\ pc[r] = "reply"
    /\ client' = [client EXCEPT ![r] =
          CASE rec[r].path = "plain"                       -> "answer"
            [] rec[r].path \in {"unreachable", "unreadable"} -> "error"
            [] OTHER                                       -> @]
    /\ Goto(r, "done")
    /\ UNCHANGED <<rec, todo, expired, store, spool, tables, failed, faults>>

\* The gateway process dies, and with it every request it was serving.
Crash ==
    /\ faults < MaxFaults
    /\ \E r \in Requests : pc[r] \notin {"start", "done", "crashed"}
    /\ faults' = faults + 1
    /\ pc' = [r \in Requests |-> IF pc[r] \in {"start", "done"} THEN pc[r] ELSE "crashed"]
    /\ client' = [r \in Requests |-> IF pc'[r] = "crashed" /\ client[r] = "waiting"
                                     THEN "broken" ELSE client[r]]
    /\ UNCHANGED <<rec, todo, expired, store, spool, tables, failed>>
-----------------------------------------------------------------------------
Init ==
    /\ pc = [r \in Requests |-> "start"]
    /\ rec = [r \in Requests |-> NewRecord]
    /\ todo = [r \in Requests |-> {}]
    /\ expired = [r \in Requests |-> FALSE]
    /\ client = [r \in Requests |-> "waiting"]
    /\ store = {}
    /\ spool = {}
    /\ traces = [r \in Requests |-> NoRow]
    /\ evidence = {}
    /\ alerts = {}
    /\ core = {}
    /\ queued = {}
    /\ failed = [r \in Requests |-> {}]
    /\ faults = 0

Arrive(r) ==
    \/ Reject(r)
    \/ \E upgrade, parts, rawfirst \in BOOLEAN : Accept(r, upgrade, parts, rawfirst)

\* What waits for the upstream or for the client.
Forward(r) ==
    \/ RequestNotBuilt(r) \/ UpstreamUnreachable(r) \/ UpstreamUnreadable(r)
    \/ \E path \in {"plain", "stream"} : UpstreamAnswers(r, path)
    \/ TunnelRefused(r) \/ Handshake(r)
    \/ \E got \in {"answer", "partial"} : CopyStream(r, got)
    \/ \E got \in {"error", "broken"} : HijackFails(r, got)
    \/ \E logged \in BOOLEAN : Tunnel(r, logged)

\* What waits for the evidence store, the database or Redis, and the reply.
Audit(r) ==
    \/ Persisted(r) \/ Reply(r)
    \/ \E fate \in Fates, slow \in BOOLEAN :
          \/ \E type \in RequestTypes : PutRequestEvidence(r, type, fate, slow)
          \/ \E type \in ResponseTypes : PutResponseEvidence(r, type, fate, slow)
          \/ InsertTrace(r, fate, slow)
          \/ \E type \in ObjectTypes : PutPart(r, type, fate, slow) \/ InsertEvidence(r, type, fate, slow)
          \/ EmitCoverageAlert(r, fate, slow)
          \/ PublishTraceCaptured(r, fate, slow)
          \/ MarkTraceCoreQueued(r, fate, slow)

Next == Crash \/ \E r \in Requests : Arrive(r) \/ Forward(r) \/ Audit(r)

Spec == Init /\ [][Next]_vars
-----------------------------------------------------------------------------
\* Once a response has been read, no step waits for the upstream or the client:
\* the database and Redis answer or fail within the audit timeout, the evidence
\* store within the timeouts of the disk or of the OSS client.
CaptureFairness == \A r \in Requests : WF_vars(rec[r].path = "plain" /\ Audit(r))

FairSpec == Spec /\ CaptureFairness

\* Whoever reads a message of analysis.core, or follows a sample of a coverage
\* alert, at once or later, finds the trace, the request body, the response body
\* if the upstream gave one, and an evidence row for everything the trace refers
\* to, the parts of a multipart body included (insertTrace goes on only when
\* nothing has failed).
PublishedIsComplete ==
    \A r \in core \cup alerts :
        /\ traces[r] # NoRow
        /\ "request_body" \in traces[r].refs
        /\ rec[r].path \in {"plain", "stream"} => "response_body" \in traces[r].refs
        /\ rec[r].parts => <<r, "multipart_part">> \in evidence
        /\ \A type \in traces[r].refs : <<r, type>> \in evidence

\* No row refers to an object the store does not have, whatever fails or crashes
\* in between.
RefsResolve ==
    /\ evidence \subseteq store
    /\ \A r \in Requests : \A type \in traces[r].refs : <<r, type>> \in store

\* A stored trace is marked capture_degraded exactly when request evidence is
\* missing, also if the upstream failed afterwards.
DegradedIsMarked ==
    \A r \in Requests : traces[r] # NoRow =>
        (traces[r].error = "capture_degraded" <=> ~(RequestTypes \subseteq traces[r].refs))

\* core_queued_at is only set on a trace whose message is on analysis.core.
QueuedIsPublished == queued \subseteq core

\* Forward first: once the upstream has answered, the client gets that answer,
\* whatever becomes of evidence, trace, alert and message, unless the gateway dies.
AnswerIsForwarded ==
    \A r \in Requests : (rec[r].path = "plain") ~> (client[r] = "answer" \/ pc[r] = "crashed")

\* The spool takes over when evidence cannot be stored: each failure to store
\* request evidence leaves its own envelope
\* (TestProxySpoolPreservesRequestBodyAndHeaderCaptureFailures).
RequestFailuresAreSpooled ==
    \A r \in Requests :
        pc[r] = "done" => \A type \in failed[r] \cap RequestTypes : <<r, type>> \in spool
=============================================================================

----------------------- MODULE GatewayService_proofs ------------------------
(***************************************************************************)
(* What the capture of requests keeps, for any number of requests and of   *)
(* failing or slow calls, and wherever the gateway dies.                   *)
(*                                                                         *)
(* What the gateway process keeps, for any number of requests and tunnels, *)
(* every environment and every shutdown timeout, and what an answer of its *)
(* /readyz says of the dependencies, the workers and the queue, however    *)
(* they fail and come back while the checks are made.                      *)
(***************************************************************************)
EXTENDS GatewayCapture, GatewayProcess, Readiness, WellFoundedInduction, TLAPS
-----------------------------------------------------------------------------
(* The capture *)

Errors == {"", "capture_degraded", "upstream_request_error", "upstream_response_read_error"}
Arriving == {"start", "request_body", "request_headers"}
Forwarding == {"upstream", "response_body", "response_headers", "copy", "hijack", "websocket_log"}
Ending == {"reply", "done", "crashed"}

\* The request evidence that is missing is what marks the record, and the row.
Degraded(error, objects) == error = "capture_degraded" <=> ~(RequestTypes \subseteq objects)

\* What the record holds, at each place of ServeHTTP before the trace is written.
Arrived(r) ==
    /\ pc[r] \in {"start", "request_body"} => rec[r].objects = {} /\ rec[r].error = "" /\ ~rec[r].skip
    /\ pc[r] = "request_headers" =>
           /\ rec[r].objects \subseteq {"request_body"}
           /\ rec[r].error = IF rec[r].objects = {} THEN "capture_degraded" ELSE ""
    /\ pc[r] = "upstream" => rec[r].error \in {"", "capture_degraded"}
    /\ pc[r] \in Forwarding \cup {"insert"} => Degraded(rec[r].error, rec[r].objects)
    /\ pc[r] \in Arriving \cup Forwarding \cup {"insert"} => traces[r] = NoRow

\* The paths that lead to each place.
OnPath(r) ==
    /\ pc[r] \in Arriving \cup {"upstream"} => rec[r].path = ""
    /\ pc[r] = "response_body" => rec[r].path \in {"plain", "stream"}
    /\ pc[r] = "copy" => rec[r].path = "stream"
    /\ pc[r] \in {"hijack", "websocket_log"} => rec[r].path = "websocket"

\* What a record that is not to be skipped has stored.
Unskipped(r) ==
    /\ pc[r] \in {"request_headers"} \cup Forwarding \cup {"insert", "rows"} /\ ~rec[r].skip =>
           "request_body" \in rec[r].objects
    /\ \/ pc[r] = "response_headers" /\ rec[r].path = "plain"
       \/ pc[r] \in {"insert", "rows"} /\ rec[r].path \in {"plain", "stream"}
       => rec[r].skip \/ "response_body" \in rec[r].objects

\* While insertTrace writes the evidence rows: the trace is there, and of the rows none
\* is forgotten.
Writing(r) ==
    pc[r] = "rows" =>
        /\ traces[r] = TraceOf(r)
        /\ todo[r] \subseteq Rows(r)
        /\ \A type \in Rows(r) : rec[r].errs \/ type \in todo[r] \/ <<r, type>> \in evidence

\* A trace that is complete, as the consumers of analysis.core and of alerts need it.
Complete(r) ==
    /\ traces[r] # NoRow
    /\ "request_body" \in traces[r].refs
    /\ rec[r].path \in {"plain", "stream"} => "response_body" \in traces[r].refs
    /\ rec[r].parts => <<r, "multipart_part">> \in evidence
    /\ \A type \in traces[r].refs : <<r, type>> \in evidence

\* Only complete traces are announced, and they are complete from then on.
Announced(r) ==
    /\ pc[r] \in {"alert", "publish", "queued"} \/ r \in core \cup alerts => Complete(r)
    /\ r \in core \cup alerts => pc[r] \in {"publish", "queued"} \cup Ending
    /\ pc[r] = "queued" => r \in core
    /\ r \in queued => r \in core

\* What the record and the row refer to is in the store.
Stored(r) ==
    /\ \A type \in rec[r].objects : <<r, type>> \in store
    /\ \A type \in traces[r].refs : <<r, type>> \in store
    /\ traces[r] # NoRow => Degraded(traces[r].error, traces[r].refs)

Tracked(r) == Arrived(r) /\ OnPath(r) /\ Unskipped(r) /\ Writing(r) /\ Announced(r) /\ Stored(r)

CaptureIInv ==
    /\ TypeOK
    /\ evidence \subseteq store
    /\ \A r \in Requests : Tracked(r)
-----------------------------------------------------------------------------
(* Type correctness *)

LEMMA TypeInit ==
    Init => TypeOK
<1>1. NewRecord \in Record
  BY DEF NewRecord, Record, Path
<1> QED
  BY <1>1, FaultsAssumption DEF Init, TypeOK, ProgramCounter

\* A call leaves the number of faults within its bound.
LEMMA CallType ==
    ASSUME faults \in 0 .. MaxFaults, NEW r, NEW fate, NEW slow, Call(r, fate, slow)
    PROVE  faults' \in 0 .. MaxFaults
BY FaultsAssumption DEF Call

\* The updates of a record that ServeHTTP makes.
LEMMA RecordUpdates ==
    ASSUME NEW x \in Record, NEW a \in BOOLEAN, NEW b \in BOOLEAN, NEW c \in BOOLEAN,
           NEW error \in Errors, NEW path \in Path, NEW type \in ObjectTypes
    PROVE  /\ [x EXCEPT !.upgrade = a, !.parts = b, !.rawfirst = c] \in Record
           /\ [x EXCEPT !.path = path, !.error = error] \in Record
           /\ [x EXCEPT !.path = path, !.error = error, !.skip = a] \in Record
           /\ [x EXCEPT !.error = error, !.skip = a] \in Record
           /\ [x EXCEPT !.objects = @ \cup {type}] \in Record
           /\ [x EXCEPT !.skip = a] \in Record
           /\ [x EXCEPT !.errs = a] \in Record
BY Zenon DEF Record, Errors

LEMMA PathsAndErrors ==
    /\ {"", "unreachable", "unreadable", "plain", "stream", "websocket"} = Path
    /\ "request_body" \in ObjectTypes /\ "" \in Errors /\ "capture_degraded" \in Errors
    /\ \A x \in Record, e \in Errors : MergeTraceErrorType(x.error, e) \in Errors
    /\ {"upstream_request_error", "upstream_response_read_error"} \subseteq Errors
BY Zenon DEF Path, Errors, Record, MergeTraceErrorType, ObjectTypes, RequestTypes

LEMMA RecType ==
    ASSUME rec \in [Requests -> Record], NEW r \in Requests, NEW x \in Record,
           rec' = [rec EXCEPT ![r] = x]
    PROVE  rec' \in [Requests -> Record]
OBVIOUS

LEMMA TypeForward ==
    ASSUME TypeOK, NEW r \in Requests, Arrive(r) \/ Forward(r)
    PROVE  TypeOK'
<1> USE DEF Goto
<1>0. rec \in [Requests -> Record]
  BY DEF TypeOK
<1>1. CASE Reject(r)
  BY <1>1 DEF Reject, TypeOK, tables, ProgramCounter
<1>2. ASSUME NEW upgrade \in BOOLEAN, NEW parts \in BOOLEAN, NEW rawfirst \in BOOLEAN,
             Accept(r, upgrade, parts, rawfirst)
      PROVE  TypeOK'
  <2>1. rec' \in [Requests -> Record]
    <3> DEFINE x == [rec[r] EXCEPT !.upgrade = upgrade, !.parts = parts, !.rawfirst = rawfirst]
    <3>1. x \in Record
      BY <1>0, RecordUpdates, PathsAndErrors, ZenonT(30)
    <3>2. rec' = [rec EXCEPT ![r] = x]
      BY <1>2, Zenon DEF Accept
    <3> HIDE DEF x
    <3> QED
      BY <1>0, <3>1, <3>2, RecType
  <2> QED
    BY <1>2, <2>1 DEF Accept, TypeOK, tables, ProgramCounter, RequestTypes
<1>3. CASE RequestNotBuilt(r)
  BY <1>3 DEF RequestNotBuilt, TypeOK, tables, ProgramCounter
<1>4. CASE UpstreamUnreachable(r)
  <2>1. rec' \in [Requests -> Record]
    <3> DEFINE x == [rec[r] EXCEPT !.path = "unreachable",
                                    !.error = MergeTraceErrorType(@, "upstream_request_error")]
    <3>1. x \in Record
      BY <1>0, RecordUpdates, PathsAndErrors, Zenon
    <3>2. rec' = [rec EXCEPT ![r] = x]
      BY <1>4, Zenon DEF UpstreamUnreachable
    <3> HIDE DEF x
    <3> QED
      BY <1>0, <3>1, <3>2, RecType
  <2> QED
    BY <1>4, <2>1 DEF UpstreamUnreachable, TypeOK, tables, ProgramCounter
<1>5. CASE UpstreamUnreadable(r)
  <2>1. rec' \in [Requests -> Record]
    <3> DEFINE x == [rec[r] EXCEPT !.path = "unreadable",
                                    !.error = MergeTraceErrorType(@, "upstream_response_read_error"),
                                    !.skip = TRUE]
    <3>1. x \in Record
      BY <1>0, RecordUpdates, PathsAndErrors, Zenon
    <3>2. rec' = [rec EXCEPT ![r] = x]
      BY <1>5, Zenon DEF UpstreamUnreadable
    <3> HIDE DEF x
    <3> QED
      BY <1>0, <3>1, <3>2, RecType
  <2> QED
    BY <1>5, <2>1 DEF UpstreamUnreadable, TypeOK, tables, ProgramCounter, ResponseTypes
<1>6. ASSUME NEW path \in {"plain", "stream"}, UpstreamAnswers(r, path)
      PROVE  TypeOK'
  <2>1. rec' \in [Requests -> Record]
    BY <1>0, <1>6, ZenonT(30) DEF UpstreamAnswers, Record, Path
  <2> QED
    BY <1>6, <2>1 DEF UpstreamAnswers, TypeOK, tables, ProgramCounter, ResponseTypes
<1>7. CASE TunnelRefused(r)
  <2>1. rec' \in [Requests -> Record]
    BY <1>0, <1>7, ZenonT(30) DEF TunnelRefused, Record, Path
  <2> QED
    BY <1>7, <2>1 DEF TunnelRefused, TypeOK, tables, ProgramCounter
<1>8. CASE Handshake(r)
  <2>1. rec' \in [Requests -> Record]
    BY <1>0, <1>8, ZenonT(30) DEF Handshake, Record, Path
  <2> QED
    BY <1>8, <2>1 DEF Handshake, TypeOK, tables, ProgramCounter, ResponseTypes
<1>9. ASSUME NEW got \in {"answer", "partial"}, CopyStream(r, got)
      PROVE  TypeOK'
  BY <1>9 DEF CopyStream, TypeOK, tables, ProgramCounter, ResponseTypes
<1>10. ASSUME NEW got \in {"error", "broken"}, HijackFails(r, got)
       PROVE  TypeOK'
  BY <1>10 DEF HijackFails, TypeOK, tables, ProgramCounter
<1>11. ASSUME NEW logged \in BOOLEAN, Tunnel(r, logged)
       PROVE  TypeOK'
  BY <1>11 DEF Tunnel, TypeOK, tables, ProgramCounter, ResponseTypes
<1> QED
  BY <1>1, <1>2, <1>3, <1>4, <1>5, <1>6, <1>7, <1>8, <1>9, <1>10, <1>11 DEF Arrive, Forward

LEMMA TypeAudit ==
    ASSUME TypeOK, NEW r \in Requests, Audit(r)
    PROVE  TypeOK'
<1> USE DEF Goto
<1>0. rec \in [Requests -> Record]
  BY DEF TypeOK
<1>1. CASE Persisted(r)
  BY <1>1 DEF TypeOK, Persisted, tables, ProgramCounter
<1>2. CASE Reply(r)
  BY <1>2 DEF TypeOK, Reply, tables, ProgramCounter
<1>3. ASSUME NEW fate \in Fates, NEW slow \in BOOLEAN, NEW type \in RequestTypes,
             PutRequestEvidence(r, type, fate, slow)
      PROVE  TypeOK'
  <2>1. faults' \in 0 .. MaxFaults
    BY <1>3, CallType DEF TypeOK, PutRequestEvidence
  <2>2. store' \subseteq Requests \X ObjectTypes /\ failed' \in [Requests -> SUBSET ObjectTypes]
    BY <1>3 DEF TypeOK, PutRequestEvidence, Put, ObjectTypes
  <2>3. rec' \in [Requests -> Record]
    <3> DEFINE ok == [rec[r] EXCEPT !.objects = @ \cup {type}]
               bad == [rec[r] EXCEPT !.error = "capture_degraded",
                                      !.skip = @ \/ type = "request_body"]
    <3>0. (rec[r].skip \/ type = "request_body") \in BOOLEAN /\ rec[r] \in Record /\ type \in ObjectTypes
      BY <1>0, <1>3 DEF ObjectTypes
    <3>1. ok \in Record /\ bad \in Record
      BY <3>0, RecordUpdates, PathsAndErrors, Zenon
    <3>2. rec' = [rec EXCEPT ![r] = IF fate = "ok" THEN ok ELSE bad]
      BY <1>3, Zenon DEF PutRequestEvidence
    <3> HIDE DEF ok, bad
    <3> QED
      BY <1>0, <3>1, <3>2, RecType
  <2>4. spool' \subseteq Requests \X RequestTypes
    BY <1>3 DEF TypeOK, PutRequestEvidence
  <2> QED
    BY <1>3, <2>1, <2>2, <2>3, <2>4 DEF TypeOK, PutRequestEvidence, tables, ProgramCounter, RequestTypes
<1>4. ASSUME NEW fate \in Fates, NEW slow \in BOOLEAN, NEW type \in ResponseTypes,
             PutResponseEvidence(r, type, fate, slow)
      PROVE  TypeOK'
  <2>1. faults' \in 0 .. MaxFaults
    BY <1>4, CallType DEF TypeOK, PutResponseEvidence
  <2>2. store' \subseteq Requests \X ObjectTypes /\ failed' \in [Requests -> SUBSET ObjectTypes]
    BY <1>4 DEF TypeOK, PutResponseEvidence, Put, ObjectTypes
  <2>3. rec' \in [Requests -> Record]
    <3> DEFINE ok == [rec[r] EXCEPT !.objects = @ \cup {type}]
               bad == [rec[r] EXCEPT !.skip = TRUE]
    <3>1. ok \in Record /\ bad \in Record
      BY <1>0, <1>4, RecordUpdates, PathsAndErrors, Zenon DEF ObjectTypes
    <3>2. rec' = [rec EXCEPT ![r] = IF fate = "ok" THEN ok ELSE bad]
      BY <1>4, Zenon DEF PutResponseEvidence
    <3> HIDE DEF ok, bad
    <3> QED
      BY <1>0, <3>1, <3>2, RecType
  <2>4. After(rec[r].path, type) \in ProgramCounter
    BY DEF After, ProgramCounter, ResponseTypes
  <2> QED
    BY <1>4, <2>1, <2>2, <2>3, <2>4, Zenon DEF TypeOK, PutResponseEvidence, tables
<1>5. ASSUME NEW fate \in Fates, NEW slow \in BOOLEAN, InsertTrace(r, fate, slow)
      PROVE  TypeOK'
  <2>1. faults' \in 0 .. MaxFaults
    BY <1>5, CallType DEF TypeOK, InsertTrace
  <2>2. TraceOf(r) \in TraceRow /\ Rows(r) \subseteq ObjectTypes
    BY <1>0, Zenon DEF TraceOf, TraceRow, Record, Rows, ObjectTypes
  <2> QED
    BY <1>5, <2>1, <2>2 DEF TypeOK, InsertTrace, ProgramCounter
<1>6. ASSUME NEW fate \in Fates, NEW slow \in BOOLEAN, NEW type \in ObjectTypes,
             PutPart(r, type, fate, slow)
      PROVE  TypeOK'
  <2>1. faults' \in 0 .. MaxFaults
    BY <1>6, CallType DEF TypeOK, PutPart
  <2>2. store' \subseteq Requests \X ObjectTypes /\ failed' \in [Requests -> SUBSET ObjectTypes]
    BY <1>6 DEF TypeOK, PutPart, Put
  <2>3. rec' \in [Requests -> Record]
    <3> DEFINE ok == [rec[r] EXCEPT !.objects = @ \cup {type}]
               bad == [rec[r] EXCEPT !.errs = TRUE]
    <3>1. ok \in Record /\ bad \in Record
      BY <1>0, <1>6, RecordUpdates, PathsAndErrors, Zenon DEF ObjectTypes
    <3>2. rec' = [rec EXCEPT ![r] = IF fate = "ok" THEN ok ELSE bad]
      BY <1>6 DEF PutPart
    <3> HIDE DEF ok, bad
    <3> QED
      BY <1>0, <3>1, <3>2, RecType
  <2>4. todo' \in [Requests -> SUBSET ObjectTypes]
    BY <1>6 DEF TypeOK, PutPart
  <2> QED
    BY <1>6, <2>1, <2>2, <2>3, <2>4 DEF TypeOK, PutPart, tables
<1>7. ASSUME NEW fate \in Fates, NEW slow \in BOOLEAN, NEW type \in ObjectTypes,
             InsertEvidence(r, type, fate, slow)
      PROVE  TypeOK'
  <2>1. faults' \in 0 .. MaxFaults
    BY <1>7, CallType DEF TypeOK, InsertEvidence
  <2>2. rec' \in [Requests -> Record]
    <3> DEFINE x == [rec[r] EXCEPT !.errs = @ \/ fate # "ok"]
    <3>0. (rec[r].errs \/ fate # "ok") \in BOOLEAN /\ rec[r] \in Record
      BY <1>0
    <3>1. x \in Record
      BY <3>0, RecordUpdates, PathsAndErrors, ZenonT(30)
    <3>2. rec' = [rec EXCEPT ![r] = x]
      BY <1>7 DEF InsertEvidence
    <3> HIDE DEF x
    <3> QED
      BY <1>0, <3>1, <3>2, RecType
  <2>3. todo' \in [Requests -> SUBSET ObjectTypes]
    BY <1>7 DEF TypeOK, InsertEvidence
  <2> QED
    BY <1>7, <2>1, <2>2, <2>3 DEF TypeOK, InsertEvidence
<1>8. ASSUME NEW fate \in Fates, NEW slow \in BOOLEAN,
             \/ EmitCoverageAlert(r, fate, slow)
             \/ PublishTraceCaptured(r, fate, slow)
             \/ MarkTraceCoreQueued(r, fate, slow)
      PROVE  TypeOK'
  <2>1. faults' \in 0 .. MaxFaults
    BY <1>8, CallType DEF TypeOK, EmitCoverageAlert, PublishTraceCaptured, MarkTraceCoreQueued
  <2> QED
    BY <1>8, <2>1 DEF TypeOK, EmitCoverageAlert, PublishTraceCaptured, MarkTraceCoreQueued, ProgramCounter
<1> QED
  BY <1>1, <1>2, <1>3, <1>4, <1>5, <1>6, <1>7, <1>8 DEF Audit

LEMMA TypeNext ==
    TypeOK /\ [Next]_vars => TypeOK'
<1> SUFFICES ASSUME TypeOK, [Next]_vars PROVE TypeOK'
  OBVIOUS
<1>1. CASE Crash
  BY <1>1, FaultsAssumption DEF Crash, TypeOK, tables, ProgramCounter
<1>2. CASE UNCHANGED vars
  BY <1>2 DEF vars, tables, TypeOK
<1> QED
  BY <1>1, <1>2, TypeForward, TypeAudit DEF Next
-----------------------------------------------------------------------------
(* The inductive invariant *)

LEMMA CaptureInitIInv ==
    Init => CaptureIInv
<1> SUFFICES ASSUME Init PROVE CaptureIInv
  OBVIOUS
<1>1. TypeOK /\ evidence \subseteq store
  BY TypeInit DEF Init
<1>2. ASSUME NEW r \in Requests PROVE Tracked(r)
  <2>1. /\ pc[r] = "start" /\ traces[r] = NoRow /\ traces[r].refs = {}
        /\ r \notin core /\ r \notin alerts /\ r \notin queued
    BY DEF Init, NoRow
  <2>2. /\ rec[r].objects = {} /\ rec[r].error = "" /\ ~rec[r].skip /\ rec[r].path = ""
    BY Zenon DEF Init, NewRecord
  <2>3. Arrived(r) /\ OnPath(r) /\ Unskipped(r) /\ Writing(r)
    BY <2>1, <2>2, Zenon DEF Arrived, OnPath, Unskipped, Writing, Arriving, Forwarding
  <2>4. Announced(r) /\ Stored(r)
    BY <2>1, <2>2, Zenon DEF Announced, Stored
  <2> QED
    BY <2>3, <2>4 DEF Tracked
<1> QED
  BY <1>1, <1>2 DEF CaptureIInv

\* A step of one request leaves what the others have, and adds to the store and to the
\* evidence rows.
Frame(q) ==
    /\ pc'[q] = pc[q] /\ rec'[q] = rec[q] /\ todo'[q] = todo[q] /\ traces'[q] = traces[q]
    /\ q \in core' <=> q \in core
    /\ q \in alerts' <=> q \in alerts
    /\ q \in queued' <=> q \in queued

LEMMA FrameKeeps ==
    ASSUME NEW q \in Requests, Tracked(q), Frame(q), store \subseteq store', evidence \subseteq evidence'
    PROVE  Tracked(q)'
<1> USE DEF Tracked, Frame
<1>1. Arrived(q)' /\ OnPath(q)' /\ Unskipped(q)'
  BY Zenon DEF Arrived, OnPath, Unskipped
<1>2. Writing(q)'
  BY DEF Writing, TraceOf, Rows
<1>3. Announced(q)'
  BY DEF Announced, Complete
<1>4. Stored(q)'
  BY DEF Stored
<1> QED
  BY <1>1, <1>2, <1>3, <1>4

\* The steps that change the place and the record of a request only.
LEMMA TrackedForward ==
    ASSUME TypeOK, NEW r \in Requests, Tracked(r), Arrive(r) \/ Forward(r)
    PROVE  Tracked(r)'
<1> USE DEF Goto, Tracked
<1>0. /\ pc \in [Requests -> ProgramCounter] /\ rec \in [Requests -> Record]
      /\ rec[r] \in Record
  BY DEF TypeOK
<1>1. CASE Reject(r) \/ RequestNotBuilt(r)
  <2>1. /\ pc'[r] = "done" /\ pc[r] \in {"start", "upstream"}
        /\ rec' = rec /\ UNCHANGED tables /\ UNCHANGED store
    BY <1>0, <1>1 DEF Reject, RequestNotBuilt
  <2>2. Arrived(r)' /\ OnPath(r)' /\ Unskipped(r)' /\ Writing(r)'
    BY <2>1, Zenon DEF Arrived, OnPath, Unskipped, Writing, Arriving, Forwarding
  <2>3. Announced(r)' /\ Stored(r)'
    BY <2>1 DEF Announced, Complete, Stored, Ending, tables
  <2> QED
    BY <2>2, <2>3
<1>2. ASSUME NEW upgrade \in BOOLEAN, NEW parts \in BOOLEAN, NEW rawfirst \in BOOLEAN,
             Accept(r, upgrade, parts, rawfirst)
      PROVE  Tracked(r)'
  <2>1. /\ pc'[r] = "request_body" /\ pc[r] = "start" /\ UNCHANGED tables /\ UNCHANGED store
        /\ rec'[r].objects = rec[r].objects /\ rec'[r].error = rec[r].error
        /\ rec'[r].skip = rec[r].skip /\ rec'[r].path = rec[r].path
    BY <1>0, <1>2, ZenonT(30) DEF Accept, Record
  <2>2. Arrived(r)' /\ OnPath(r)' /\ Unskipped(r)' /\ Writing(r)'
    BY <2>1, ZenonT(30) DEF Arrived, OnPath, Unskipped, Writing, Arriving, Forwarding, tables
  <2>3. Announced(r)' /\ Stored(r)'
    BY <2>1 DEF Announced, Stored, Ending, tables
  <2> QED
    BY <2>2, <2>3
<1>3. CASE UpstreamUnreachable(r) \/ UpstreamUnreadable(r)
  <2>1. /\ pc[r] = "upstream" /\ UNCHANGED tables /\ UNCHANGED store
        /\ rec'[r].objects = rec[r].objects
        /\ rec'[r].path \in {"unreachable", "unreadable"}
        /\ rec'[r].skip \in {rec[r].skip, TRUE}
    <3>1. CASE UpstreamUnreachable(r)
      BY <1>0, <3>1, Zenon DEF UpstreamUnreachable, Record
    <3>2. CASE UpstreamUnreadable(r)
      BY <1>0, <3>2, Zenon DEF UpstreamUnreadable, Record
    <3> QED
      BY <1>3, <3>1, <3>2, Zenon
  <2>2. pc'[r] \in {"insert", "response_headers"}
    BY <1>0, <1>3 DEF UpstreamUnreachable, UpstreamUnreadable
  <2>3. rec'[r].error = "capture_degraded" <=> rec[r].error = "capture_degraded"
    <3>1. \E e \in {"upstream_request_error", "upstream_response_read_error"} :
              rec'[r].error = MergeTraceErrorType(rec[r].error, e)
      <4>1. CASE UpstreamUnreachable(r)
        BY <1>0, <4>1, Zenon DEF UpstreamUnreachable, Record
      <4>2. CASE UpstreamUnreadable(r)
        BY <1>0, <4>2, ZenonT(30) DEF UpstreamUnreadable, Record
      <4> QED
        BY <1>3, <4>1, <4>2
    <3> QED
      BY <2>1, <3>1, Zenon DEF MergeTraceErrorType, Arrived
  <2>4. Arrived(r)' /\ OnPath(r)' /\ Unskipped(r)' /\ Writing(r)'
    BY <2>1, <2>2, <2>3, ZenonT(30) DEF Arrived, OnPath, Unskipped, Writing, Arriving, Forwarding, Degraded, tables
  <2>5. Announced(r)' /\ Stored(r)'
    BY <2>1, <2>2 DEF Announced, Stored, Ending, tables
  <2> QED
    BY <2>4, <2>5
<1>4. ASSUME NEW path \in {"plain", "stream"}, UpstreamAnswers(r, path)
      PROVE  Tracked(r)'
  <2>1. /\ pc[r] = "upstream" /\ UNCHANGED tables /\ UNCHANGED store
        /\ pc'[r] = IF path = "plain" THEN "response_body" ELSE "response_headers"
        /\ rec'[r].objects = rec[r].objects /\ rec'[r].error = rec[r].error
        /\ rec'[r].skip = rec[r].skip /\ rec'[r].path = path
    BY <1>0, <1>4, ZenonT(30) DEF UpstreamAnswers, Record
  <2>2. Arrived(r)' /\ OnPath(r)' /\ Unskipped(r)' /\ Writing(r)'
    BY <2>1, ZenonT(30) DEF Arrived, OnPath, Unskipped, Writing, Arriving, Forwarding, Degraded, tables
  <2>3. Announced(r)' /\ Stored(r)'
    BY <2>1, Zenon DEF Announced, Stored, Ending, tables
  <2> QED
    BY <2>2, <2>3
<1>5. CASE TunnelRefused(r) \/ Handshake(r)
  <2>1. /\ pc[r] = "upstream" /\ UNCHANGED tables /\ UNCHANGED store
        /\ pc'[r] \in {"insert", "response_headers"}
        /\ rec'[r].objects = rec[r].objects /\ rec'[r].error = rec[r].error
        /\ rec'[r].skip = rec[r].skip /\ rec'[r].path = "websocket"
    <3>1. CASE TunnelRefused(r)
      BY <1>0, <3>1, Zenon DEF TunnelRefused, Record
    <3>2. CASE Handshake(r)
      BY <1>0, <3>2, ZenonT(30) DEF Handshake, Record
    <3> QED
      BY <1>5, <3>1, <3>2
  <2>2. Arrived(r)' /\ OnPath(r)' /\ Unskipped(r)' /\ Writing(r)'
    BY <2>1, ZenonT(30) DEF Arrived, OnPath, Unskipped, Writing, Arriving, Forwarding, Degraded, tables
  <2>3. Announced(r)' /\ Stored(r)'
    BY <2>1, Zenon DEF Announced, Stored, Ending, tables
  <2> QED
    BY <2>2, <2>3
<1>6. CASE \/ \E got \in {"answer", "partial"} : CopyStream(r, got)
           \/ \E got \in {"error", "broken"} : HijackFails(r, got)
           \/ \E logged \in BOOLEAN : Tunnel(r, logged)
  <2>1. /\ rec' = rec /\ UNCHANGED tables /\ UNCHANGED store
        /\ \/ pc[r] = "copy" /\ pc'[r] = "response_body"
           \/ pc[r] = "hijack" /\ pc'[r] \in {"websocket_log", "insert"}
    BY <1>0, <1>6 DEF CopyStream, HijackFails, Tunnel
  <2>2. Arrived(r)' /\ OnPath(r)' /\ Unskipped(r)' /\ Writing(r)'
    BY <2>1, ZenonT(30) DEF Arrived, OnPath, Unskipped, Writing, Arriving, Forwarding, Degraded, tables
  <2>3. Announced(r)' /\ Stored(r)'
    BY <2>1 DEF Announced, Stored, Ending, tables
  <2> QED
    BY <2>2, <2>3
<1> QED
  BY <1>1, <1>2, <1>3, <1>4, <1>5, <1>6 DEF Arrive, Forward

\* What putEvidence puts is of this request, and in the store if it says so.
LEMMA PutStores ==
    ASSUME NEW r, NEW type, NEW fate \in Fates, Put(r, type, fate)
    PROVE  /\ store \subseteq store'
           /\ fate = "ok" => <<r, type>> \in store'
BY DEF Put, Took

LEMMA TrackedRequestEvidence ==
    ASSUME TypeOK, NEW r \in Requests, Tracked(r), NEW fate \in Fates, NEW slow \in BOOLEAN,
           NEW type \in RequestTypes, PutRequestEvidence(r, type, fate, slow)
    PROVE  Tracked(r)'
<1> USE DEF Goto, Tracked
<1>0. pc \in [Requests -> ProgramCounter] /\ rec \in [Requests -> Record] /\ rec[r] \in Record
  BY DEF TypeOK
<1>1. /\ pc[r] = type /\ UNCHANGED tables
      /\ pc'[r] = IF type = "request_body" THEN "request_headers" ELSE "upstream"
  BY <1>0, Zenon DEF PutRequestEvidence
<1>2. /\ rec'[r].objects = IF fate = "ok" THEN rec[r].objects \cup {type} ELSE rec[r].objects
      /\ rec'[r].error = IF fate = "ok" THEN rec[r].error ELSE "capture_degraded"
      /\ rec'[r].path = rec[r].path
      /\ fate = "ok" => rec'[r].skip = rec[r].skip
      /\ fate # "ok" => rec'[r].skip = (rec[r].skip \/ type = "request_body")
  <2>1. CASE fate = "ok"
    BY <1>0, <2>1, ZenonT(30) DEF PutRequestEvidence, Record
  <2>2. CASE fate # "ok"
    <3>1. rec' = [rec EXCEPT ![r] = [rec[r] EXCEPT !.error = "capture_degraded",
                                                   !.skip = @ \/ type = "request_body"]]
      BY <2>2, Zenon DEF PutRequestEvidence
    <3>2. rec'[r] = [rec[r] EXCEPT !.error = "capture_degraded", !.skip = @ \/ type = "request_body"]
      BY <1>0, <3>1
    <3> QED
      BY <1>0, <2>2, <3>2, Zenon DEF Record
  <2> QED
    BY <2>1, <2>2
<1>3. store \subseteq store' /\ (fate = "ok" => <<r, type>> \in store')
  BY PutStores DEF PutRequestEvidence
<1>4. Arrived(r)'
  <2>1. CASE type = "request_body"
    BY <1>1, <1>2, <2>1, Zenon DEF Arrived, Arriving, Forwarding, tables
  <2>2. CASE type = "request_headers"
    <3>1. rec[r].error = (IF rec[r].objects = {} THEN "capture_degraded" ELSE "")
          /\ rec[r].objects \subseteq {"request_body"} /\ traces[r] = NoRow
      BY <1>1, <2>2, ZenonT(30) DEF Arrived, Arriving
    <3>2. Degraded(rec'[r].error, rec'[r].objects) /\ rec'[r].error \in {"", "capture_degraded"}
      <4>1. RequestTypes \subseteq rec'[r].objects <=> fate = "ok" /\ rec[r].objects # {}
        <5>1. CASE fate = "ok"
          <6>1. rec'[r].objects = rec[r].objects \cup {"request_headers"}
            BY <1>2, <2>2, <5>1
          <6> QED
            BY <3>1, <5>1, <6>1, Zenon DEF RequestTypes
        <5>2. CASE fate # "ok"
          <6>1. rec'[r].objects = rec[r].objects
            BY <1>2, <5>2
          <6> QED
            BY <3>1, <5>2, <6>1, Zenon DEF RequestTypes
        <5> QED
          BY <5>1, <5>2
      <4> QED
        BY <1>2, <3>1, <4>1, Zenon DEF Degraded
    <3> QED
      BY <1>1, <2>2, <3>1, <3>2, ZenonT(30) DEF Arrived, Arriving, Forwarding, tables
  <2> QED
    BY <2>1, <2>2 DEF RequestTypes
<1>5. OnPath(r)' /\ Unskipped(r)' /\ Writing(r)'
  BY <1>1, <1>2, ZenonT(30) DEF Arrived, OnPath, Unskipped, Writing, Arriving, Forwarding, RequestTypes, tables
<1>6. Announced(r)' /\ Stored(r)'
  BY <1>1, <1>2, <1>3, Zenon DEF Arrived, Announced, Stored, Arriving, Forwarding, Ending, RequestTypes, tables
<1> QED
  BY <1>4, <1>5, <1>6

LEMMA TrackedResponseEvidence ==
    ASSUME TypeOK, NEW r \in Requests, Tracked(r), NEW fate \in Fates, NEW slow \in BOOLEAN,
           NEW type \in ResponseTypes, PutResponseEvidence(r, type, fate, slow)
    PROVE  Tracked(r)'
<1> USE DEF Goto, Tracked
<1>0. pc \in [Requests -> ProgramCounter] /\ rec \in [Requests -> Record] /\ rec[r] \in Record
  BY DEF TypeOK
<1>1. pc[r] = type /\ UNCHANGED tables /\ pc'[r] = After(rec[r].path, type)
  BY <1>0 DEF PutResponseEvidence
<1>2. /\ rec'[r].objects = IF fate = "ok" THEN rec[r].objects \cup {type} ELSE rec[r].objects
      /\ rec'[r].error = rec[r].error
      /\ rec'[r].path = rec[r].path
      /\ rec'[r].skip = IF fate = "ok" THEN rec[r].skip ELSE TRUE
  BY <1>0, Zenon DEF PutResponseEvidence, Record
<1>3. store \subseteq store' /\ (fate = "ok" => <<r, type>> \in store')
  BY PutStores DEF PutResponseEvidence
<1>4. /\ pc'[r] \in {"response_headers", "copy", "hijack", "insert"}
      /\ pc'[r] = "response_headers" => rec[r].path = "plain" /\ type = "response_body"
      /\ pc'[r] = "copy" => rec[r].path = "stream"
      /\ pc'[r] = "hijack" => rec[r].path = "websocket"
      /\ pc'[r] = "insert" /\ rec[r].path = "plain" => type # "response_body"
      /\ pc'[r] = "insert" /\ rec[r].path = "stream" => type # "response_headers"
  BY <1>1 DEF After, ResponseTypes
<1>5. Arrived(r)'
  BY <1>1, <1>2, <1>4, ZenonT(30) DEF Arrived, Arriving, Forwarding, Degraded, RequestTypes, ResponseTypes, tables
<1>6. OnPath(r)' /\ Writing(r)'
  BY <1>1, <1>2, <1>4, ZenonT(30) DEF OnPath, Writing, Arriving
<1>7. Unskipped(r)'
  BY <1>1, <1>2, <1>4, ZenonT(30) DEF OnPath, Unskipped, Forwarding, ResponseTypes
<1>8. Announced(r)' /\ Stored(r)'
  BY <1>1, <1>2, <1>3, <1>4, Zenon DEF Arrived, Announced, Stored, Forwarding, Ending, ResponseTypes, tables
<1> QED
  BY <1>5, <1>6, <1>7, <1>8

LEMMA TrackedInsertTrace ==
    ASSUME TypeOK, NEW r \in Requests, Tracked(r), NEW fate \in Fates, NEW slow \in BOOLEAN,
           InsertTrace(r, fate, slow)
    PROVE  Tracked(r)'
<1> USE DEF Goto, Tracked
<1>0. /\ pc \in [Requests -> ProgramCounter] /\ rec \in [Requests -> Record] /\ rec[r] \in Record
      /\ todo \in [Requests -> SUBSET ObjectTypes] /\ traces \in [Requests -> TraceRow \cup {NoRow}]
  BY DEF TypeOK
<1>1. /\ pc[r] = "insert" /\ UNCHANGED <<rec, store, evidence, alerts, core, queued>>
      /\ pc'[r] = IF fate = "ok" THEN "rows" ELSE "reply"
      /\ todo'[r] = Rows(r)
      /\ traces'[r] \in {NoRow, TraceOf(r)} /\ (fate = "ok" => traces'[r] = TraceOf(r))
  BY <1>0, ZenonT(30) DEF InsertTrace, Took, Arrived
<1>2. TraceOf(r).refs \subseteq rec[r].objects /\ NoRow.refs = {}
  BY ZenonT(30) DEF TraceOf, NoRow
<1>3. Degraded(TraceOf(r).error, TraceOf(r).refs)
  <2>1. Degraded(rec[r].error, rec[r].objects)
    BY <1>1, Zenon DEF Arrived
  <2>2. RequestTypes \subseteq TraceOf(r).refs <=> RequestTypes \subseteq rec[r].objects
    BY DEF TraceOf, RefTypes
  <2>3. TraceOf(r).error = rec[r].error
    BY Zenon DEF TraceOf
  <2> QED
    BY <2>1, <2>2, <2>3, ZenonT(30) DEF Degraded
<1>4. Arrived(r)' /\ OnPath(r)'
  BY <1>1, Zenon DEF Arrived, OnPath, Arriving, Forwarding
<1>5. Unskipped(r)'
  BY <1>1, Zenon DEF Unskipped, Forwarding
<1>6. Writing(r)'
  BY <1>1, ZenonT(30) DEF Writing, TraceOf, Rows
<1>7. Announced(r)' /\ Stored(r)'
  BY <1>1, <1>2, <1>3 DEF Announced, Stored, Ending
<1> QED
  BY <1>4, <1>5, <1>6, <1>7

LEMMA TrackedPutPart ==
    ASSUME TypeOK, NEW r \in Requests, Tracked(r), NEW fate \in Fates, NEW slow \in BOOLEAN,
           NEW type \in ObjectTypes, PutPart(r, type, fate, slow)
    PROVE  Tracked(r)'
<1> USE DEF Tracked
<1>0. /\ pc \in [Requests -> ProgramCounter] /\ rec \in [Requests -> Record] /\ rec[r] \in Record
      /\ todo \in [Requests -> SUBSET ObjectTypes]
  BY DEF TypeOK
<1>1. pc[r] = "rows" /\ UNCHANGED pc /\ UNCHANGED tables /\ type \in todo[r] /\ type \notin rec[r].objects
  BY DEF PutPart, Turn
<1>2. type = "multipart_part" /\ rec[r].parts
  BY <1>1 DEF Writing, Rows
<1>3. /\ rec'[r].objects = IF fate = "ok" THEN rec[r].objects \cup {type} ELSE rec[r].objects
      /\ rec'[r].error = rec[r].error /\ rec'[r].path = rec[r].path /\ rec'[r].skip = rec[r].skip
      /\ rec'[r].parts = rec[r].parts
      /\ rec'[r].errs = IF fate = "ok" THEN rec[r].errs ELSE TRUE
      /\ todo'[r] = IF fate = "ok" THEN todo[r] ELSE todo[r] \ {type}
  <2>1. CASE fate = "ok"
    <3>1. rec'[r] = [rec[r] EXCEPT !.objects = @ \cup {type}] /\ todo' = todo
      BY <1>0, <2>1 DEF PutPart
    <3> QED
      BY <1>0, <2>1, <3>1, Zenon DEF Record
  <2>2. CASE fate # "ok"
    <3>1. /\ rec'[r] = [rec[r] EXCEPT !.errs = TRUE]
          /\ todo'[r] = todo[r] \ {type}
      BY <1>0, <2>2 DEF PutPart
    <3> QED
      BY <1>0, <2>2, <3>1, Zenon DEF Record
  <2> QED
    BY <2>1, <2>2, Zenon
<1>4. store \subseteq store' /\ (fate = "ok" => <<r, type>> \in store')
  BY PutStores, ZenonT(30) DEF PutPart
<1>5. Rows(r)' = Rows(r) /\ TraceOf(r)' = TraceOf(r)
  BY <1>2, <1>3 DEF Rows, TraceOf, RefTypes, RequestTypes
<1>6. Arrived(r)' /\ OnPath(r)' /\ Unskipped(r)'
  BY <1>1, <1>3, ZenonT(30) DEF Arrived, OnPath, Unskipped, Arriving, Forwarding
<1>7. Writing(r)'
  BY <1>1, <1>3, <1>5, ZenonT(30) DEF Writing, tables
<1>8. Announced(r)' /\ Stored(r)'
  BY <1>1, <1>3, <1>4 DEF Announced, Stored, Ending, tables
<1> QED
  BY <1>6, <1>7, <1>8

LEMMA TrackedInsertEvidence ==
    ASSUME TypeOK, NEW r \in Requests, Tracked(r), NEW fate \in Fates, NEW slow \in BOOLEAN,
           NEW type \in ObjectTypes, InsertEvidence(r, type, fate, slow)
    PROVE  Tracked(r)'
<1> USE DEF Tracked
<1>0. /\ pc \in [Requests -> ProgramCounter] /\ rec \in [Requests -> Record] /\ rec[r] \in Record
      /\ todo \in [Requests -> SUBSET ObjectTypes]
  BY DEF TypeOK
<1>1. /\ pc[r] = "rows" /\ UNCHANGED <<pc, store, traces, alerts, core, queued>>
      /\ todo'[r] = todo[r] \ {type}
      /\ evidence \subseteq evidence' /\ (fate = "ok" => <<r, type>> \in evidence')
  BY <1>0 DEF InsertEvidence, Turn, Took
<1>2. /\ rec'[r].objects = rec[r].objects /\ rec'[r].error = rec[r].error
      /\ rec'[r].path = rec[r].path /\ rec'[r].skip = rec[r].skip /\ rec'[r].parts = rec[r].parts
      /\ rec'[r].errs = (rec[r].errs \/ fate # "ok")
  <2>1. rec'[r] = [rec[r] EXCEPT !.errs = @ \/ fate # "ok"]
    BY <1>0, Zenon DEF InsertEvidence
  <2> QED
    BY <1>0, <2>1, Zenon DEF Record
<1>3. Rows(r)' = Rows(r) /\ TraceOf(r)' = TraceOf(r)
  BY <1>2 DEF Rows, TraceOf
<1>4. Arrived(r)' /\ OnPath(r)' /\ Unskipped(r)'
  BY <1>1, <1>2, ZenonT(30) DEF Arrived, OnPath, Unskipped, Arriving, Forwarding
<1>5. Writing(r)'
  BY <1>1, <1>2, <1>3, ZenonT(30) DEF Writing
<1>6. Announced(r)' /\ Stored(r)'
  BY <1>1, <1>2 DEF Announced, Stored, Ending
<1> QED
  BY <1>4, <1>5, <1>6

\* Only a complete record goes on.
LEMMA TrackedPersisted ==
    ASSUME TypeOK, NEW r \in Requests, Tracked(r), Persisted(r)
    PROVE  Tracked(r)'
<1> USE DEF Goto, Tracked
<1>0. pc \in [Requests -> ProgramCounter] /\ rec[r] \in Record
  BY DEF TypeOK
<1>1. /\ pc[r] = "rows" /\ todo[r] = {} /\ UNCHANGED <<rec, todo, store>> /\ UNCHANGED tables
      /\ pc'[r] \in {"reply", "alert", "publish"}
      /\ pc'[r] # "reply" => ~rec[r].errs /\ ~rec[r].skip
  BY <1>0 DEF Persisted
<1>2. ASSUME ~rec[r].errs, ~rec[r].skip
      PROVE  Complete(r)
  <2>1. traces[r] = TraceOf(r) /\ \A type \in Rows(r) : <<r, type>> \in evidence
    BY <1>1, <1>2, Zenon DEF Writing
  <2>2. traces[r].refs = rec[r].objects \cap RefTypes /\ traces[r].error = rec[r].error
    BY <2>1 DEF TraceOf
  <2>3. traces[r] # NoRow
    <3>1. rec[r].error # "absent"
      BY <1>0, Zenon DEF Record
    <3>2. NoRow.error = "absent"
      BY DEF NoRow
    <3> QED
      BY <2>2, <3>1, <3>2
  <2>4. "request_body" \in traces[r].refs
    BY <1>1, <1>2, <2>2, ZenonT(30) DEF Unskipped, RefTypes, RequestTypes
  <2>5. rec[r].path \in {"plain", "stream"} => "response_body" \in traces[r].refs
    BY <1>1, <1>2, <2>2 DEF Unskipped, RefTypes
  <2>6. rec[r].parts => <<r, "multipart_part">> \in evidence
    BY <2>1 DEF Rows
  <2>7. \A type \in traces[r].refs : <<r, type>> \in evidence
    BY <2>1, <2>2 DEF Rows
  <2> QED
    BY <2>3, <2>4, <2>5, <2>6, <2>7, Zenon DEF Complete
<1>3. Arrived(r)' /\ OnPath(r)' /\ Unskipped(r)' /\ Writing(r)'
  BY <1>1, ZenonT(30) DEF Arrived, OnPath, Unskipped, Writing, Arriving, Forwarding
<1>4. Announced(r)' /\ Stored(r)'
  BY <1>1, <1>2 DEF Announced, Complete, Stored, Ending, tables
<1> QED
  BY <1>3, <1>4

LEMMA TrackedAnnouncement ==
    ASSUME TypeOK, NEW r \in Requests, Tracked(r), NEW fate \in Fates, NEW slow \in BOOLEAN,
           \/ EmitCoverageAlert(r, fate, slow)
           \/ PublishTraceCaptured(r, fate, slow)
           \/ MarkTraceCoreQueued(r, fate, slow)
    PROVE  Tracked(r)'
<1> USE DEF Goto, Tracked
<1>0. pc \in [Requests -> ProgramCounter]
  BY DEF TypeOK
<1>1. /\ pc[r] \in {"alert", "publish", "queued"}
      /\ pc'[r] \in {"publish", "queued", "reply"}
      /\ UNCHANGED <<rec, todo, store, traces, evidence>>
      /\ core \subseteq core'
      /\ pc'[r] = "queued" => r \in core'
      /\ r \in queued' => pc[r] = "queued" \/ r \in queued
  BY <1>0 DEF EmitCoverageAlert, PublishTraceCaptured, MarkTraceCoreQueued, Took
<1>2. Arrived(r)' /\ OnPath(r)' /\ Unskipped(r)' /\ Writing(r)'
  BY <1>1, ZenonT(30) DEF Arrived, OnPath, Unskipped, Writing, Arriving, Forwarding
<1>3. Complete(r)'
  BY <1>1, ZenonT(30) DEF Announced, Complete
<1>4. Announced(r)' /\ Stored(r)'
  BY <1>1, <1>3, Zenon DEF Announced, Stored, Ending
<1> QED
  BY <1>2, <1>4

LEMMA TrackedReply ==
    ASSUME TypeOK, NEW r \in Requests, Tracked(r), Reply(r)
    PROVE  Tracked(r)'
<1> USE DEF Goto, Tracked
<1>1. /\ pc'[r] = "done" /\ UNCHANGED <<rec, todo, store>> /\ UNCHANGED tables
  BY DEF Reply, TypeOK
<1>2. Arrived(r)' /\ OnPath(r)' /\ Unskipped(r)' /\ Writing(r)'
  BY <1>1, ZenonT(30) DEF Arrived, OnPath, Unskipped, Writing, Arriving, Forwarding
<1>3. Announced(r)' /\ Stored(r)'
  BY <1>1, ZenonT(30) DEF Announced, Complete, Stored, Ending, tables
<1> QED
  BY <1>2, <1>3

\* A crash takes nothing away that is in the store, in a table or on the stream.
LEMMA TrackedCrash ==
    ASSUME TypeOK, NEW r \in Requests, Tracked(r), Crash
    PROVE  Tracked(r)'
<1> USE DEF Tracked
<1>1. /\ pc'[r] \in {pc[r], "crashed"} /\ UNCHANGED <<rec, todo, store>> /\ UNCHANGED tables
  BY DEF Crash, TypeOK
<1>2. CASE pc'[r] = "crashed"
  <2>1. Arrived(r)' /\ OnPath(r)' /\ Unskipped(r)' /\ Writing(r)'
    BY <1>2, ZenonT(30) DEF Arrived, OnPath, Unskipped, Writing, Arriving, Forwarding
  <2>2. Announced(r)' /\ Stored(r)'
    BY <1>1, <1>2, ZenonT(30) DEF Announced, Complete, Stored, Ending, tables
  <2> QED
    BY <2>1, <2>2
<1>3. CASE pc'[r] = pc[r]
  BY <1>1, <1>3, FrameKeeps, Zenon DEF Frame, tables
<1> QED
  BY <1>1, <1>2, <1>3

LEMMA TrackedAudit ==
    ASSUME TypeOK, NEW r \in Requests, Tracked(r), Audit(r)
    PROVE  Tracked(r)'
BY TrackedPersisted, TrackedReply, TrackedRequestEvidence, TrackedResponseEvidence,
   TrackedInsertTrace, TrackedPutPart, TrackedInsertEvidence, TrackedAnnouncement, ZenonT(30) DEF Audit

\* A step of one request is no step of another, takes nothing away from the store and
\* the evidence rows, and adds no evidence row without its object.
LEMMA ForwardFrame ==
    ASSUME TypeOK, NEW r \in Requests, Arrive(r) \/ Forward(r)
    PROVE  /\ \A q \in Requests \ {r} : Frame(q)
           /\ store' = store /\ evidence' = evidence
<1> USE DEF Goto
<1>1. /\ pc \in [Requests -> ProgramCounter] /\ rec \in [Requests -> Record]
  BY DEF TypeOK
<1>2. UNCHANGED <<todo, store>> /\ UNCHANGED tables
  BY ZenonT(30) DEF Arrive, Forward, Reject, Accept, RequestNotBuilt, UpstreamUnreachable,
         UpstreamUnreadable, UpstreamAnswers, TunnelRefused, Handshake, CopyStream, HijackFails, Tunnel
<1>3. \A q \in Requests \ {r} : pc'[q] = pc[q]
  BY <1>1, ZenonT(30) DEF Arrive, Forward, Reject, Accept, RequestNotBuilt, UpstreamUnreachable,
         UpstreamUnreadable, UpstreamAnswers, TunnelRefused, Handshake, CopyStream, HijackFails, Tunnel
<1>4. \A q \in Requests \ {r} : rec'[q] = rec[q]
  BY <1>1, ZenonT(30) DEF Arrive, Forward, Reject, Accept, RequestNotBuilt, UpstreamUnreachable,
         UpstreamUnreadable, UpstreamAnswers, TunnelRefused, Handshake, CopyStream, HijackFails, Tunnel
<1> QED
  BY <1>2, <1>3, <1>4 DEF Frame, tables

LEMMA AuditFrame ==
    ASSUME TypeOK, NEW r \in Requests, Tracked(r), evidence \subseteq store, Audit(r)
    PROVE  /\ \A q \in Requests \ {r} : Frame(q)
           /\ store \subseteq store' /\ evidence \subseteq evidence' /\ evidence' \subseteq store'
<1> USE DEF Goto, Frame
<1>1. /\ pc \in [Requests -> ProgramCounter] /\ rec \in [Requests -> Record]
      /\ todo \in [Requests -> SUBSET ObjectTypes] /\ traces \in [Requests -> TraceRow \cup {NoRow}]
  BY DEF TypeOK
<1>2. CASE Persisted(r) \/ Reply(r)
  BY <1>1, <1>2 DEF Persisted, Reply, tables
<1>3. ASSUME NEW fate \in Fates, NEW slow \in BOOLEAN, NEW type \in ObjectTypes,
             \/ PutRequestEvidence(r, type, fate, slow)
             \/ PutResponseEvidence(r, type, fate, slow)
             \/ PutPart(r, type, fate, slow)
      PROVE  /\ \A q \in Requests \ {r} : Frame(q)
             /\ store \subseteq store' /\ evidence \subseteq evidence' /\ evidence' \subseteq store'
  <2>1. store \subseteq store'
    BY <1>3, PutStores, Zenon DEF PutRequestEvidence, PutResponseEvidence, PutPart
  <2>2. UNCHANGED tables
    BY <1>3, ZenonT(30) DEF PutRequestEvidence, PutResponseEvidence, PutPart
  <2>3. ASSUME NEW q \in Requests \ {r} PROVE pc'[q] = pc[q] /\ rec'[q] = rec[q] /\ todo'[q] = todo[q]
    <3>1. CASE PutRequestEvidence(r, type, fate, slow)
      BY <1>1, <3>1 DEF PutRequestEvidence
    <3>2. CASE PutResponseEvidence(r, type, fate, slow)
      BY <1>1, <3>2 DEF PutResponseEvidence
    <3>3. CASE PutPart(r, type, fate, slow)
      BY <1>1, <3>3 DEF PutPart
    <3> QED
      BY <1>3, <3>1, <3>2, <3>3
  <2> QED
    BY <2>1, <2>2, <2>3 DEF tables
<1>4. ASSUME NEW fate \in Fates, NEW slow \in BOOLEAN, InsertTrace(r, fate, slow)
      PROVE  /\ \A q \in Requests \ {r} : Frame(q)
             /\ store \subseteq store' /\ evidence \subseteq evidence' /\ evidence' \subseteq store'
  BY <1>1, <1>4 DEF InsertTrace
<1>5. ASSUME NEW fate \in Fates, NEW slow \in BOOLEAN, NEW type \in ObjectTypes,
             InsertEvidence(r, type, fate, slow)
      PROVE  /\ \A q \in Requests \ {r} : Frame(q)
             /\ store \subseteq store' /\ evidence \subseteq evidence' /\ evidence' \subseteq store'
  <2>1. evidence \subseteq evidence' /\ evidence' \subseteq evidence \cup {<<r, type>>} /\ store' = store
    BY <1>5 DEF InsertEvidence
  <2>2. <<r, type>> \in store
    BY <1>5 DEF InsertEvidence, Tracked, Stored
  <2>3. \A q \in Requests \ {r} : rec'[q] = rec[q] /\ todo'[q] = todo[q]
    BY <1>1, <1>5, Zenon DEF InsertEvidence
  <2> QED
    BY <1>5, <2>1, <2>2, <2>3 DEF InsertEvidence
<1>6. ASSUME NEW fate \in Fates, NEW slow \in BOOLEAN,
             \/ EmitCoverageAlert(r, fate, slow)
             \/ PublishTraceCaptured(r, fate, slow)
             \/ MarkTraceCoreQueued(r, fate, slow)
      PROVE  /\ \A q \in Requests \ {r} : Frame(q)
             /\ store \subseteq store' /\ evidence \subseteq evidence' /\ evidence' \subseteq store'
  BY <1>1, <1>6 DEF EmitCoverageAlert, PublishTraceCaptured, MarkTraceCoreQueued
<1>7. RequestTypes \subseteq ObjectTypes /\ ResponseTypes \subseteq ObjectTypes
  BY DEF ObjectTypes
<1> QED
  BY <1>2, <1>3, <1>4, <1>5, <1>6, <1>7, Zenon DEF Audit

LEMMA CaptureNextIInv ==
    CaptureIInv /\ [Next]_vars => CaptureIInv'
<1> SUFFICES ASSUME CaptureIInv, [Next]_vars PROVE CaptureIInv'
  OBVIOUS
<1>0. TypeOK /\ TypeOK'
  BY TypeNext DEF CaptureIInv
<1>1. CASE UNCHANGED vars
  <2>1. evidence' \subseteq store' /\ \A q \in Requests : Frame(q)
    BY <1>1 DEF CaptureIInv, Frame, vars, tables
  <2>2. \A q \in Requests : Tracked(q)'
    BY <1>1, <2>1, FrameKeeps DEF CaptureIInv, vars, tables
  <2> QED
    BY <1>0, <2>1, <2>2 DEF CaptureIInv
<1>2. CASE Crash
  <2>1. evidence' \subseteq store'
    BY <1>2 DEF CaptureIInv, Crash, tables
  <2> QED
    BY <1>0, <1>2, <2>1, TrackedCrash, Zenon DEF CaptureIInv
<1>3. ASSUME NEW r \in Requests, Arrive(r) \/ Forward(r) \/ Audit(r)
      PROVE  CaptureIInv'
  <2>1. Tracked(r)'
    BY <1>0, <1>3, TrackedForward, TrackedAudit DEF CaptureIInv
  <2>2. /\ \A q \in Requests \ {r} : Frame(q)
        /\ store \subseteq store' /\ evidence \subseteq evidence' /\ evidence' \subseteq store'
    BY <1>0, <1>3, ForwardFrame, AuditFrame DEF CaptureIInv
  <2>3. \A q \in Requests \ {r} : Tracked(q)'
    BY <2>2, FrameKeeps DEF CaptureIInv
  <2> QED
    BY <1>0, <2>1, <2>2, <2>3 DEF CaptureIInv
<1> QED
  BY <1>1, <1>2, <1>3 DEF Next

LEMMA CaptureIsInductive ==
    Spec => []CaptureIInv
BY CaptureInitIInv, CaptureNextIInv, PTL DEF Spec
-----------------------------------------------------------------------------
(* What consumers of the tables and of the streams can rely on *)

\* ServeHTTP keeps records, rows and sets of the form TypeOK gives them.
THEOREM CaptureTypes ==
    Spec => []TypeOK
BY TypeInit, TypeNext, PTL DEF Spec

\* Every trace that is published to analysis.core or sampled by a coverage alert is
\* complete, at once and for ever: insertTrace has written it, its bodies and a row for all
\* its evidence.
THEOREM PublishedTracesAreComplete ==
    Spec => []PublishedIsComplete
<1>1. CaptureIInv => PublishedIsComplete
  <2> SUFFICES ASSUME CaptureIInv, NEW r \in core \cup alerts PROVE Complete(r)
    BY Zenon DEF PublishedIsComplete, Complete
  <2>1. r \in Requests
    BY Zenon DEF CaptureIInv, TypeOK
  <2> QED
    BY <2>1 DEF CaptureIInv, Tracked, Announced
<1> QED
  BY <1>1, CaptureIsInductive, PTL

\* No evidence row and no column of a trace refers to an object the store does not have:
\* putEvidence comes before every reference to what it puts.
THEOREM ReferencesResolve ==
    Spec => []RefsResolve
<1>1. CaptureIInv => RefsResolve
  BY DEF CaptureIInv, RefsResolve, Tracked, Stored
<1> QED
  BY <1>1, CaptureIsInductive, PTL

\* capture_degraded marks exactly the traces that lack request evidence;
\* mergeTraceErrorType keeps the mark when the upstream fails as well.
THEOREM DegradedTracesAreMarked ==
    Spec => []DegradedIsMarked
<1>1. CaptureIInv => DegradedIsMarked
  BY DEF CaptureIInv, DegradedIsMarked, Tracked, Stored, Degraded
<1> QED
  BY <1>1, CaptureIsInductive, PTL

\* core_queued_at is set only after the XADD to analysis.core went through.
THEOREM QueuedTracesArePublished ==
    Spec => []QueuedIsPublished
<1>1. CaptureIInv => QueuedIsPublished
  BY DEF CaptureIInv, TypeOK, QueuedIsPublished, Tracked, Announced
<1> QED
  BY <1>1, CaptureIsInductive, PTL
-----------------------------------------------------------------------------
(* The process *)

Starting == {"start", "load", "open postgres", "open new-api", "build", "listen"}
Stopping == {"receive", "close redis", "close new-api", "wait new-api",
          "close postgres", "wait postgres", "gone"}

\* run has no error to return before it returns.
Unfailed == main \notin Stopping \ {"receive"} => result = "none"

\* The configuration was accepted, and stays as it was.
Configured ==
    main \notin {"start", "load", "gone"} => LoadFromEnv(env)

\* Nothing is accepted before listen; the pool stays open until run closes it.
Serving ==
    /\ main \in Starting => server = "new" /\ errc = "none"
    /\ main = "select" => server \in {"listening", "accepting"}
    /\ main \in {"shutdown", "receive"} => server = "shut"
    /\ errc = "closed" => server = "shut"
    /\ main \in {"build", "listen"} => "postgres" \in open
    /\ server # "new" /\ main \notin {"wait postgres", "gone"} => "postgres" \in open

\* What a request's state tells of the rest.
Traced(c) ==
    /\ conn[c] # "none" => server # "new"
    /\ conn[c] = "ended" => c \in rows
    /\ conn[c] = "lost" => main \in {"wait postgres", "gone"}
    /\ conn[c] = "tunnel" => c \in Upgrades

\* After a shutdown in time no request is left but tunnels, and none can come.
Drained ==
    main \in Stopping /\ result = "none" =>
        /\ server = "shut"
        /\ \A c \in Conns \ Upgrades : conn[c] \in {"none", "ended"}

ProcessIInv ==
    /\ ProcessTypeOK
    /\ Unfailed
    /\ Configured
    /\ Serving
    /\ \A c \in Conns : Traced(c)
    /\ Drained
    /\ PanicIsTheClients
-----------------------------------------------------------------------------
LEMMA ProcessInitIInv ==
    ProcessInit => ProcessIInv
<1> SUFFICES ASSUME ProcessInit PROVE ProcessIInv
  OBVIOUS
<1>1. left \in 0 .. ShutdownTimeout
  BY ProcessAssumption DEF ProcessInit
<1>2. ProcessTypeOK
  BY <1>1, ZenonT(30) DEF ProcessInit, ProcessTypeOK, Main
<1>3. Unfailed /\ Configured /\ Serving /\ Drained /\ PanicIsTheClients
  BY DEF ProcessInit, Configured, Serving, Drained, PanicIsTheClients, Stopping, Unfailed
<1>4. \A c \in Conns : Traced(c)
  BY DEF ProcessInit, Traced
<1> QED
  BY <1>2, <1>3, <1>4 DEF ProcessIInv

\* Where run goes when it returns.
LEMMA Returns ==
    ASSUME NEW error, Return(error)
    PROVE  /\ result' = error
           /\ main' \in {"close redis", "close new-api", "close postgres", "gone"}
           /\ main' = "gone" => "postgres" \notin open
BY Zenon DEF Return

\* The steps of main up to listen, where there are no requests.
LEMMA StartStep ==
    ASSUME ProcessIInv, NEW e \in Envs, Start(e)
    PROVE  ProcessIInv'
BY DEF ProcessIInv, Start, Step, ProcessTypeOK, Configured, Serving, Traced, Drained,
   PanicIsTheClients, Main, Starting, Stopping, Unfailed

LEMMA LoadStep ==
    ASSUME ProcessIInv, Load
    PROVE  ProcessIInv'
BY ZenonT(30) DEF ProcessIInv, Load, Step, ProcessTypeOK, Configured, Serving, Traced, Drained,
   PanicIsTheClients, Main, Starting, Stopping, Unfailed

LEMMA OpenPoolStep ==
    ASSUME ProcessIInv, NEW ok \in BOOLEAN, OpenPool(ok)
    PROVE  ProcessIInv'
<1> USE DEF ProcessIInv, ProcessTypeOK, Configured, Serving, Traced, Drained,
            PanicIsTheClients, Main, Starting, Stopping, Unfailed
<1>1. CASE main = "open postgres" /\ ok
  BY <1>1, ZenonT(30) DEF OpenPool, Step, Resources, Pools
<1>2. CASE main = "open new-api" /\ ok
  BY <1>2, ZenonT(30) DEF OpenPool, Step, Resources, Pools
<1>3. CASE ~ok
  <2>1. /\ main \in {"open postgres", "open new-api"} /\ Return("error")
        /\ UNCHANGED <<env, signalled, left, server, errc, open, conn, rows>>
    BY <1>3, ZenonT(30) DEF OpenPool
  <2>2. /\ result' = "error"
        /\ main' \in {"close redis", "close new-api", "close postgres", "gone"}
    BY <2>1, Returns, Zenon
  <2> QED
    BY <2>1, <2>2, ZenonT(30)
<1> QED
  BY <1>1, <1>2, <1>3, ZenonT(30) DEF OpenPool

\* The store's settings were asked for, so only the OSS client can refuse.
LEMMA BuildStep ==
    ASSUME ProcessIInv, NEW ok \in BOOLEAN, Build(ok)
    PROVE  ProcessIInv'
<1>1. LoadFromEnv(env) /\ main = "build" /\ UNCHANGED <<env, signalled, left, server, errc, open, conn, rows>>
  BY Zenon DEF ProcessIInv, Configured, Build
<1>2. CASE StoreBuilds(env, ok)
  BY <1>1, <1>2 DEF Build, Step, ProcessIInv, ProcessTypeOK, Configured, Serving, Traced,
     Drained, PanicIsTheClients, Main, Starting, Stopping, Unfailed
<1>3. CASE ~StoreBuilds(env, ok)
  <2>1. Return("panic")
    BY <1>3 DEF Build
  <2>2. \A k \in OfBackend(env.backend) : env.value[k] = "valid"
    BY <1>1 DEF LoadFromEnv, RequiredEnv
  <2>3. env.backend = "oss"
    BY <1>1, <1>3 DEF LoadFromEnv, StoreBuilds
  <2>4. PanicIsTheClients'
    BY <1>1, <2>2, <2>3 DEF PanicIsTheClients
  <2>5. /\ result' = "panic"
        /\ main' \in {"close redis", "close new-api", "close postgres", "gone"}
    BY <2>1, Returns, ZenonT(30)
  <2> QED
    BY <1>1, <2>4, <2>5, Zenon DEF ProcessIInv, ProcessTypeOK, Configured, Serving, Traced,
       Drained, Main, Starting, Stopping, Unfailed
<1> QED
  BY <1>2, <1>3


LEMMA ListenStep ==
    ASSUME ProcessIInv, NEW ok \in BOOLEAN, Listen(ok)
    PROVE  ProcessIInv'
<1> USE DEF ProcessIInv, ProcessTypeOK, Configured, Serving, Traced, Drained,
            PanicIsTheClients, Main, Starting, Stopping, Unfailed
<1>1. main = "listen" /\ UNCHANGED <<env, signalled, left, errc, open, conn, rows>>
  BY Zenon DEF Listen
<1>2. CASE ok
  BY <1>1, <1>2 DEF Listen, Step
<1>3. CASE ~ok
  <2>1. Return("error") /\ server' = server
    BY <1>3 DEF Listen
  <2>2. /\ result' = "error"
        /\ main' \in {"close redis", "close new-api", "close postgres", "gone"}
    BY <2>1, Returns, ZenonT(30)
  <2> QED
    BY <1>1, <2>1, <2>2, ZenonT(30)
<1> QED
  BY <1>2, <1>3, ZenonT(30)
-----------------------------------------------------------------------------
(* The steps of main from select on *)

\* run returns what it has received from Serve: without an error only once the server is
\* shut.
LEMMA ServedStep ==
    ASSUME ProcessIInv, ServerStopped \/ Receive
    PROVE  ProcessIInv'
<1> DEFINE error == IF errc = "error" THEN "error" ELSE "none"
<1>1. /\ main \in {"select", "receive"} /\ errc # "none" /\ Return(error)
      /\ UNCHANGED <<env, signalled, left, server, errc, open, conn, rows>>
  BY DEF ServerStopped, Receive
<1>2. error \in {"none", "error"} /\ (error = "none" => errc = "closed")
  BY <1>1 DEF ProcessIInv, ProcessTypeOK
<1> HIDE DEF error
<1>3. /\ result' = error
      /\ main' \in {"close redis", "close new-api", "close postgres", "gone"}
      /\ main' = "gone" => "postgres" \notin open
  BY <1>1, Returns, Zenon
<1>4. error = "none" => main = "receive" /\ server = "shut"
  BY <1>1, <1>2, ZenonT(30) DEF ProcessIInv, Serving
<1> QED
  BY <1>1, <1>2, <1>3, <1>4, Zenon DEF ProcessIInv, ProcessTypeOK, Configured, Serving, Traced,
     Drained, PanicIsTheClients, Main, Starting, Stopping, Unfailed

LEMMA BeginShutdownStep ==
    ASSUME ProcessIInv, BeginShutdown
    PROVE  ProcessIInv'
<1>1. ShutdownTimeout \in 0 .. ShutdownTimeout
  BY ProcessAssumption
<1> QED
  BY <1>1 DEF ProcessIInv, BeginShutdown, Step, ProcessTypeOK, Configured, Serving, Traced,
     Drained, PanicIsTheClients, Main, Starting, Stopping, Unfailed

\* Shutdown ends in time only when nobody is busy.
LEMMA ShutdownStep ==
    ASSUME ProcessIInv, Shutdown
    PROVE  ProcessIInv'
<1>1. main = "shutdown" /\ UNCHANGED <<env, signalled, left, server, errc, open, conn, rows>>
  BY Zenon DEF Shutdown
<1>2. CASE \A c \in Conns : ~Busy(c)
  <2>1. main' = "receive" /\ result' = result
    BY <1>2 DEF Shutdown, Step
  <2>2. \A c \in Conns \ Upgrades : conn[c] \in {"none", "ended"}
    BY <1>1, <1>2 DEF ProcessIInv, ProcessTypeOK, Traced, Busy
  <2> QED
    BY <1>1, <2>1, <2>2 DEF ProcessIInv, ProcessTypeOK, Configured, Serving, Traced,
       Drained, PanicIsTheClients, Main, Starting, Stopping, Unfailed
<1>3. CASE ~(\A c \in Conns : ~Busy(c))
  <2>1. Return("error")
    BY <1>3 DEF Shutdown
  <2>2. /\ result' = "error"
        /\ main' \in {"close redis", "close new-api", "close postgres", "gone"}
        /\ main' = "gone" => "postgres" \notin open
    BY <2>1, Returns, Zenon
  <2> QED
    BY <1>1, <2>2, Zenon DEF ProcessIInv, ProcessTypeOK, Configured, Serving, Traced,
       Drained, PanicIsTheClients, Main, Starting, Stopping, Unfailed
<1> QED
  BY <1>2, <1>3

LEMMA CloseStep ==
    ASSUME ProcessIInv, NEW p \in Pools, CloseRedis \/ ClosePool(p)
    PROVE  ProcessIInv'
<1>1. CASE CloseRedis
  BY <1>1, ZenonT(30) DEF ProcessIInv, CloseRedis, Step, ProcessTypeOK, Configured, Serving, Traced, Drained,
     PanicIsTheClients, Main, Starting, Stopping, Unfailed
<1>2. CASE ClosePool(p)
  BY <1>2, ZenonT(30) DEF ProcessIInv, ClosePool, Close, Closing, Pools, Step, ProcessTypeOK, Configured,
     Serving, Traced, Drained, PanicIsTheClients, Main, Starting, Stopping, Unfailed
<1> QED
  BY <1>1, <1>2

LEMMA ClosedStep ==
    ASSUME ProcessIInv, NEW p \in Pools, Closed(p)
    PROVE  ProcessIInv'
<1> USE DEF ProcessIInv, ProcessTypeOK, Configured, Serving, Traced, Drained,
            PanicIsTheClients, Main, Starting, Stopping, Unfailed
<1>1. UNCHANGED <<env, result, signalled, left, server, errc, open, rows>>
  BY ZenonT(30) DEF Closed
<1>2. CASE p = "new-api"
  <2>1. main = "wait new-api" /\ main' = "close postgres" /\ conn' = conn
    BY <1>2, ZenonT(30) DEF Closed, Step, Closing
  <2> QED
    BY <1>1, <2>1, ZenonT(30)
<1>3. CASE p = "postgres"
  <2>1. /\ main = "wait postgres" /\ main' = "gone"
        /\ conn' = [c \in Conns |-> IF conn[c] \in {"active", "tunnel"} THEN "lost" ELSE conn[c]]
    BY <1>3, ZenonT(30) DEF Closed, Step, Closing
  <2> QED
    BY <1>1, <2>1, ZenonT(30)
<1> QED
  BY <1>2, <1>3, ZenonT(30) DEF Pools
-----------------------------------------------------------------------------
(* The other threads *)

LEMMA ServerThreadStep ==
    ASSUME ProcessIInv, Serve \/ ServeFails \/ Signal \/ Tick
    PROVE  ProcessIInv'
<1> USE DEF ProcessIInv, ProcessTypeOK, Configured, Serving, Traced, Drained,
            PanicIsTheClients, Main, Starting, Stopping, Unfailed
<1>1. CASE Serve
  BY <1>1, ZenonT(30) DEF Serve
<1>2. CASE ServeFails
  BY <1>2, ZenonT(30) DEF ServeFails
<1>3. CASE Signal
  BY <1>3, ZenonT(30) DEF Signal
<1>4. CASE Tick
  <2>1. left' \in 0 .. ShutdownTimeout
    BY <1>4, ProcessAssumption DEF Tick
  <2> QED
    BY <1>4, <2>1, ZenonT(30) DEF Tick
<1> QED
  BY <1>1, <1>2, <1>3, <1>4, ZenonT(30)

\* A step of one request.
LEMMA ConnStep ==
    ASSUME ProcessIInv, NEW c \in Conns,
           NEW to \in {"active", "tunnel", "writing", "ended", "lost"},
           conn' = [conn EXCEPT ![c] = to], rows \subseteq rows', rows' \subseteq Conns,
           UNCHANGED <<env, main, result, signalled, left, server, errc, open>>,
           Traced(c)', main \in Stopping /\ result = "none" /\ c \notin Upgrades => to = "ended"
    PROVE  ProcessIInv'
<1>1. /\ conn' \in [Conns -> {"none", "active", "tunnel", "writing", "ended", "lost"}]
      /\ conn'[c] = to /\ \A d \in Conns \ {c} : conn'[d] = conn[d]
  BY Zenon DEF ProcessIInv, ProcessTypeOK
<1>2. ProcessTypeOK'
  BY <1>1 DEF ProcessIInv, ProcessTypeOK
<1>3. Unfailed' /\ Configured' /\ Serving' /\ PanicIsTheClients'
  BY Zenon DEF ProcessIInv, Unfailed, Configured, Serving, PanicIsTheClients
<1>4. \A d \in Conns : Traced(d)'
  <2>1. ASSUME NEW d \in Conns \ {c} PROVE Traced(d)'
    <3>1. Traced(d)
      BY DEF ProcessIInv
    <3> QED
      BY <1>1, <3>1, Zenon DEF Traced
  <2> QED
    BY <2>1
<1>5. Drained'
  BY <1>1 DEF ProcessIInv, Drained
<1> QED
  BY <1>2, <1>3, <1>4, <1>5, Zenon DEF ProcessIInv

\* A request of a server that has drained is a tunnel.
LEMMA RequestStep ==
    ASSUME ProcessIInv, NEW c \in Conns, Connect(c) \/ Hijack(c) \/ Acquire(c) \/ Written(c)
    PROVE  ProcessIInv'
<1>1. /\ Traced(c) /\ Serving /\ rows \subseteq Conns /\ conn \in [Conns ->
            {"none", "active", "tunnel", "writing", "ended", "lost"}]
      /\ main \in Stopping /\ result = "none" => server = "shut"
      /\ main \in Stopping /\ result = "none" /\ c \notin Upgrades => conn[c] \in {"none", "ended"}
  BY DEF ProcessIInv, ProcessTypeOK, Drained
<1>2. CASE Connect(c)
  <2>1. /\ conn' = [conn EXCEPT ![c] = "active"] /\ server = "accepting" /\ rows' = rows
        /\ UNCHANGED <<env, main, result, signalled, left, server, errc, open>>
    BY <1>2 DEF Connect
  <2>2. Traced(c)'
    BY <1>1, <2>1, Zenon DEF Traced
  <2> QED
    BY <1>1, <2>1, <2>2, ConnStep, Zenon
<1>3. CASE Hijack(c)
  <2>1. /\ conn' = [conn EXCEPT ![c] = "tunnel"] /\ c \in Upgrades /\ conn[c] = "active"
        /\ UNCHANGED <<env, main, result, signalled, left, server, errc, open, rows>>
    BY <1>3, Zenon DEF Hijack
  <2>2. Traced(c)'
    BY <1>1, <2>1 DEF Traced
  <2> QED
    BY <1>1, <2>1, <2>2, ConnStep, Zenon
<1>4. CASE Acquire(c)
  <2> DEFINE to == IF "postgres" \in open THEN "writing" ELSE "lost"
  <2>1. /\ conn' = [conn EXCEPT ![c] = to] /\ main # "gone"
        /\ conn[c] = IF c \in Upgrades THEN "tunnel" ELSE "active"
        /\ UNCHANGED <<env, main, result, signalled, left, server, errc, open, rows>>
    BY <1>4 DEF Acquire
  <2>2. to \in {"writing", "lost"} /\ (to = "lost" => "postgres" \notin open)
    OBVIOUS
  <2> HIDE DEF to
  <2>3. server # "new"
    BY <1>1, <2>1 DEF Traced
  <2>4. to = "lost" => main = "wait postgres"
    BY <1>1, <2>1, <2>2, <2>3, Zenon DEF Serving
  <2>5. Traced(c)'
    BY <1>1, <2>1, <2>2, <2>3, <2>4, ZenonT(30) DEF Traced
  <2> QED
    BY <1>1, <2>1, <2>2, <2>5, ConnStep, Zenon
<1>5. CASE Written(c)
  <2>1. /\ conn' = [conn EXCEPT ![c] = "ended"] /\ conn[c] = "writing" /\ rows' = rows \cup {c}
        /\ UNCHANGED <<env, main, result, signalled, left, server, errc, open>>
    BY <1>5 DEF Written
  <2>2. Traced(c)'
    BY <1>1, <2>1 DEF Traced
  <2> QED
    BY <1>1, <2>1, <2>2, ConnStep, Zenon
<1> QED
  BY <1>2, <1>3, <1>4, <1>5, Zenon
-----------------------------------------------------------------------------
LEMMA ProcessNextIInv ==
    ProcessIInv /\ [ProcessNext]_procVars => ProcessIInv'
<1> SUFFICES ASSUME ProcessIInv, [ProcessNext]_procVars PROVE ProcessIInv'
  OBVIOUS
<1>1. ASSUME NEW e \in Envs, Start(e) PROVE ProcessIInv'
  BY <1>1, StartStep
<1>2. CASE MainStep
  <2>1. CASE Load \/ ServerStopped \/ BeginShutdown \/ Shutdown \/ Receive
    BY <2>1, LoadStep, ServedStep, BeginShutdownStep, ShutdownStep
  <2>2. CASE CloseRedis
    BY <2>2, CloseStep DEF Pools
  <2>3. ASSUME NEW p \in Pools, ClosePool(p) \/ Closed(p) PROVE ProcessIInv'
    BY <2>3, CloseStep, ClosedStep
  <2>4. ASSUME NEW ok \in BOOLEAN, OpenPool(ok) \/ Build(ok) \/ Listen(ok) PROVE ProcessIInv'
    BY <2>4, OpenPoolStep, BuildStep, ListenStep
  <2> QED
    BY <1>2, <2>1, <2>2, <2>3, <2>4 DEF MainStep
<1>3. CASE Serve \/ ServeFails \/ Signal \/ Tick
  BY <1>3, ServerThreadStep
<1>4. ASSUME NEW c \in Conns, Connect(c) \/ Hijack(c) \/ Acquire(c) \/ Written(c)
      PROVE  ProcessIInv'
  BY <1>4, RequestStep
<1>5. CASE UNCHANGED procVars
  <2>1. ProcessTypeOK' /\ Unfailed' /\ Configured' /\ PanicIsTheClients'
    BY <1>5 DEF procVars, ProcessIInv, ProcessTypeOK, Unfailed, Configured, PanicIsTheClients
  <2>2. Serving' /\ Drained'
    BY <1>5, Zenon DEF procVars, ProcessIInv, Serving, Drained
  <2>3. \A c \in Conns : Traced(c)'
    BY <1>5, Zenon DEF procVars, ProcessIInv, Traced
  <2> QED
    BY <2>1, <2>2, <2>3, Zenon DEF ProcessIInv
<1> QED
  BY <1>1, <1>2, <1>3, <1>4, <1>5 DEF ProcessNext

\* The strengthening holds throughout.
THEOREM ProcessInvariant ==
    ProcessSpec => []ProcessIInv
BY ProcessInitIInv, ProcessNextIInv, PTL DEF ProcessSpec

\* A process that ends without an error has written the trace of every request that is not
\* a tunnel (serveUntilContext's Shutdown before run's deferred Close), for any number of
\* requests and any timeout.
THEOREM CleanExit ==
    ProcessSpec => []CleanExitLosesNothing
<1>1. ProcessIInv => CleanExitLosesNothing
  BY DEF ProcessIInv, Drained, Traced, Stopping, CleanExitLosesNothing
<1> QED
  BY <1>1, ProcessInvariant, PTL

\* In every environment, evidenceStoreFromConfig panics only if the OSS client refuses
\* settings that LoadFromEnv has accepted.
THEOREM OnlyTheClientPanics ==
    ProcessSpec => []PanicIsTheClients
<1>1. ProcessIInv => PanicIsTheClients
  BY DEF ProcessIInv
<1> QED
  BY <1>1, ProcessInvariant, PTL
-----------------------------------------------------------------------------
(* Readiness: the dependencies *)

\* Of the checks made so far, one of a dependency that is not down has seen it up.
Witnessed ==
    /\ checks \in Seq(Statuses)
    /\ Len(checks) <= Len(Order)
    /\ up \subseteq wasUp /\ wasUp \subseteq Deps
    /\ \A i \in 1 .. Len(checks) : i <= 3 /\ checks[i] # "down" => Order[i] \in wasUp

LEMMA OrderIs ==
    /\ Len(Order) = 6
    /\ Order[1] = "postgres" /\ Order[2] = "redis" /\ Order[3] = "evidence"
    /\ \A i \in 1 .. 6 : Order[i] \in Deps \cup {"worker_heartbeat", "queue_lag", "runtime_metrics"}
BY DEF Order, Deps

LEMMA CheckIsStatus ==
    ASSUME NEW name \in Deps \cup {"worker_heartbeat", "queue_lag", "runtime_metrics"}
    PROVE  /\ Check(name) \in Statuses
           /\ name \in Deps /\ Check(name) # "down" => name \in up
BY DEF Check, Deps, Statuses, SimpleCheck, WorkerHeartbeatCheck, QueueLagCheck, RuntimeMetricsCheck

LEMMA WitnessedInit ==
    ReadinessInit => Witnessed
BY OrderIs DEF ReadinessInit, Witnessed

\* The one step that adds a check adds what it has just seen.
LEMMA WitnessedProbe ==
    ASSUME Witnessed, Probe
    PROVE  Witnessed'
<1> DEFINE n == Len(checks) + 1
           new == Check(Order[n])
<1>0. checks' = Append(checks, new) /\ UNCHANGED <<up, wasUp>>
  BY DEF Probe
<1>1. checks \in Seq(Statuses) /\ Len(checks) \in Nat /\ Len(checks) < 6
  <2>1. checks \in Seq(Statuses) /\ Len(checks) \in Nat /\ Len(checks) <= 6
    BY OrderIs DEF Witnessed
  <2>2. Len(checks) # 6
    BY OrderIs DEF Probe, Answered
  <2>3. \A m \in Nat : m <= 6 /\ m # 6 => m < 6
    OBVIOUS
  <2> QED
    BY <2>1, <2>2, <2>3, Zenon
<1>2. n \in 1 .. 6
  BY <1>1
<1>3. new \in Statuses /\ (Order[n] \in Deps /\ new # "down" => Order[n] \in up)
  BY <1>2, OrderIs, CheckIsStatus
<1> HIDE DEF new
<1>4. /\ checks' \in Seq(Statuses) /\ Len(checks') = n
      /\ checks'[n] = new /\ \A i \in 1 .. Len(checks) : checks'[i] = checks[i]
  BY <1>0, <1>1, <1>3
<1>5. n <= 3 => Order[n] \in Deps
  BY <1>2, OrderIs DEF Deps
<1>6. ASSUME NEW i \in 1 .. Len(checks'), i <= 3, checks'[i] # "down"
      PROVE  Order[i] \in wasUp
  <2>1. CASE i = n
    BY <1>0, <1>3, <1>4, <1>5, <1>6, <2>1, Zenon DEF Witnessed
  <2>2. CASE i # n
    <3>1. i \in 1 .. Len(checks)
      BY <1>1, <1>4, <2>2
    <3> QED
      BY <1>4, <1>6, <3>1, Zenon DEF Witnessed
  <2> QED
    BY <2>1, <2>2, Zenon
<1> QED
  BY <1>0, <1>1, <1>2, <1>4, <1>6, OrderIs DEF Witnessed

LEMMA WitnessedNext ==
    Witnessed /\ [ReadinessNext]_readyVars => Witnessed'
<1> SUFFICES ASSUME Witnessed, [ReadinessNext]_readyVars PROVE Witnessed'
  OBVIOUS
<1>1. CASE Probe
  BY <1>1, WitnessedProbe, Zenon
<1>2. CASE Respond
  BY <1>2, OrderIs DEF Respond, Witnessed
<1>3. CASE Fluctuate
  <2>1. /\ up' \subseteq up \cup Deps /\ wasUp' = wasUp \cup up' /\ checks' = checks
    BY <1>3, Zenon DEF Fluctuate
  <2> QED
    BY <2>1 DEF Witnessed
<1>4. CASE Pass \/ (\E w \in Beaters : Beat(w)) \/ UNCHANGED readyVars
  BY <1>4 DEF Pass, Beat, readyVars, Witnessed
<1> QED
  BY <1>1, <1>2, <1>3, <1>4 DEF ReadinessNext

\* Readiness answers 503 for every outage that lasts as long as a probe, for any number of
\* workers and whatever the thresholds.
THEOREM OutagesAreDown ==
    ReadinessSpec => []OutageIsDown
<1>1. Witnessed => OutageIsDown
  <2> SUFFICES ASSUME Witnessed, Answered, OverallStatus(checks) # "down" PROVE wasUp = Deps
    BY DEF OutageIsDown
  <2>1. Len(checks) = 6 /\ DOMAIN checks = 1 .. 6
    BY OrderIs DEF Answered, Witnessed
  <2>2. \A i \in 1 .. 3 : checks[i] # "down"
    BY <2>1 DEF OverallStatus
  <2>3. \A i \in 1 .. 3 : Order[i] \in wasUp
    <3>1. \A i \in 1 .. 6 : i <= 3 /\ checks[i] # "down" => Order[i] \in wasUp
      BY <2>1 DEF Witnessed
    <3> QED
      BY <2>2, <3>1
  <2>4. "postgres" \in wasUp /\ "redis" \in wasUp /\ "evidence" \in wasUp
    <3>1. Order[1] \in wasUp /\ Order[2] \in wasUp /\ Order[3] \in wasUp
      BY <2>3
    <3> QED
      BY <3>1, OrderIs
  <2> QED
    BY <2>4, Zenon DEF Witnessed, Deps
<1> QED
  BY <1>1, WitnessedInit, WitnessedNext, PTL DEF ReadinessSpec
-----------------------------------------------------------------------------
(* Readiness: the workers and the queue *)

LEMMA LeastNatural ==
    ASSUME NEW T, T \subseteq Nat, T # {}
    PROVE  \E x \in T : \A y \in T : x <= y
<1>1. PICK x \in T : \A y \in T : <<y, x>> \notin OpToRel(<, Nat)
  BY NatLessThanWellFounded, WFMin, Zenon
<1>2. ASSUME NEW y \in T PROVE x <= y
  <2>1. <<y, x>> \in Nat \X Nat
    OBVIOUS
  <2>2. ~(y < x)
    BY <1>1, <2>1 DEF OpToRel
  <2> QED
    BY <2>2
<1> QED
  BY <1>2

\* MAX(last_seen_at) is one of the rows, and none is later.
LEMMA GreatestIs ==
    ASSUME NEW T, T \subseteq Int, T # {}, NEW bound \in Int, \A x \in T : x <= bound
    PROVE  Greatest(T) \in T /\ \A y \in T : Greatest(T) >= y
<1> DEFINE D == {bound - x : x \in T}
<1>1. D \subseteq Nat /\ D # {}
  <2>1. \A x \in T : x \in Int /\ x <= bound
    OBVIOUS
  <2>2. \A x \in T : bound - x \in Nat
    BY <2>1
  <2> QED
    BY <2>2, Zenon
<1>2. PICK d \in D : \A e \in D : d <= e
  BY <1>1, LeastNatural, Zenon
<1>3. PICK x \in T : d = bound - x
  OBVIOUS
<1>4. ASSUME NEW y \in T PROVE x >= y
  <2>1. bound - y \in D
    OBVIOUS
  <2>2. bound - x <= bound - y
    BY <1>2, <1>3, <2>1, ZenonT(30)
  <2>3. x \in Int /\ y \in Int
    OBVIOUS
  <2> QED
    BY <2>2, <2>3
<1> QED
  BY <1>4, Zenon DEF Greatest

\* Some worker wrote its heartbeat no longer than MaxAge before the probe began.
Beaten == \E w \in Beaters : seen[w] # NeverSeen /\ seen[w] >= begun - MaxAge

\* Of the checks made so far, one of the workers or of the queue that is ok was right.
Told ==
    /\ ReadinessTypeOK
    /\ begun <= tick
    /\ \A w \in Beaters : seen[w] <= tick
    /\ Calm => calm
    /\ Len(checks) >= 4 /\ checks[4] = "ok" => Beaten
    /\ Len(checks) >= 5 /\ checks[5] = "ok" => calm

LEMMA HeartbeatIsTrue ==
    ASSUME Told, WorkerHeartbeatCheck = "ok"
    PROVE  Beaten
<1> DEFINE beats == {seen[w] : w \in Beaters}
           last == Greatest(beats)
<1>1. /\ tick \in Nat /\ begun \in Nat /\ MaxAge \in Nat /\ MaxTick \in Nat
      /\ begun <= tick
      /\ \A w \in Beaters : seen[w] \in Int /\ seen[w] <= tick /\ seen[w] >= NeverSeen
  BY ReadinessAssumption, SMTT(30) DEF Told, ReadinessTypeOK, NeverSeen
<1>2. PICK v \in Beaters : seen[v] # NeverSeen
  BY DEF WorkerHeartbeatCheck
<1>3. last \in beats /\ \A x \in beats : last >= x
  <2>1. beats \subseteq Int /\ beats # {} /\ \A x \in beats : x <= tick
    BY <1>1, <1>2
  <2>2. tick \in Int
    BY <1>1
  <2> HIDE DEF beats
  <2>3. Greatest(beats) \in beats /\ \A x \in beats : Greatest(beats) >= x
    BY <2>1, <2>2, GreatestIs, Zenon
  <2> QED
    BY <2>3, Zenon
<1>4. PICK w \in Beaters : seen[w] = last
  BY <1>3, Zenon
<1>5. last >= seen[v]
  BY <1>2, <1>3, Zenon
<1>6. ~(tick - last > MaxAge)
  BY <1>2 DEF WorkerHeartbeatCheck
<1> HIDE DEF last
<1> QED
  BY <1>1, <1>2, <1>4, <1>5, <1>6, SMTT(30) DEF Beaten, NeverSeen

LEMMA QueueLagIsTrue ==
    ASSUME Told, QueueLagCheck = "ok"
    PROVE  calm
<1>1. depth \in Nat /\ backlog \in Nat /\ WarnThreshold \in Nat /\ group \in Groups
  BY ReadinessAssumption DEF Told, ReadinessTypeOK
<1>2. Calm
  BY <1>1 DEF Calm, QueueLagCheck, StreamAnswers, StreamDepth, Groups
<1> QED
  BY <1>2, Zenon DEF Told

LEMMA ToldProbe ==
    ASSUME Told, Probe
    PROVE  Told'
<1> DEFINE n == Len(checks) + 1
           new == Check(Order[n])
<1>0. /\ checks' = Append(checks, new)
      /\ UNCHANGED <<tick, up, seen, group, depth, backlog, begun, wasUp, calm>>
  BY DEF Probe
<1>1. checks \in Seq(Statuses) /\ Len(checks) \in Nat /\ n \in 1 .. 6
  <2>1. checks \in Seq(Statuses) /\ Len(checks) \in Nat /\ Len(checks) <= 6 /\ Len(checks) # 6
    BY OrderIs DEF Told, ReadinessTypeOK, Probe, Answered
  <2>2. \A m \in Nat : m <= 6 /\ m # 6 => m + 1 \in 1 .. 6
    OBVIOUS
  <2> QED
    BY <2>1, <2>2, Zenon
<1>2. new \in Statuses
  BY <1>1, OrderIs, CheckIsStatus
<1>3. /\ n = 4 => new = WorkerHeartbeatCheck
      /\ n = 5 => new = QueueLagCheck
  BY DEF Check, Order, Deps
<1> HIDE DEF new
<1>4. /\ checks' \in Seq(Statuses) /\ Len(checks') = n
      /\ checks'[n] = new /\ \A i \in 1 .. Len(checks) : checks'[i] = checks[i]
  BY <1>0, <1>1, <1>2, SMTT(30)
<1>5. ReadinessTypeOK'
  BY <1>0, <1>1, <1>4, OrderIs, SMTT(30) DEF Told, ReadinessTypeOK
<1>6. Len(checks') >= 4 /\ checks'[4] = "ok" => Beaten'
  <2> SUFFICES ASSUME n >= 4, checks'[4] = "ok" PROVE Beaten
    BY <1>0, <1>4 DEF Beaten
  <2>1. CASE n = 4
    BY <1>3, <1>4, <2>1, HeartbeatIsTrue, Zenon
  <2>2. CASE n # 4
    BY <1>1, <1>4, <2>2 DEF Told
  <2> QED
    BY <2>1, <2>2
<1>7. Len(checks') >= 5 /\ checks'[5] = "ok" => calm'
  <2> SUFFICES ASSUME n >= 5, checks'[5] = "ok" PROVE calm
    BY <1>0, <1>4, Zenon
  <2>1. CASE n = 5
    BY <1>3, <1>4, <2>1, QueueLagIsTrue, Zenon
  <2>2. CASE n # 5
    <3>1. Len(checks) >= 5 /\ checks[5] = checks'[5]
      BY <1>1, <1>4, <2>2
    <3> QED
      BY <3>1, Zenon DEF Told
  <2> QED
    BY <2>1, <2>2, Zenon
<1>8. Calm' => calm'
  BY <1>0, Zenon DEF Told, Calm
<1> QED
  BY <1>0, <1>5, <1>6, <1>7, <1>8, Zenon DEF Told

LEMMA ToldNext ==
    Told /\ [ReadinessNext]_readyVars => Told'
<1> SUFFICES ASSUME Told, [ReadinessNext]_readyVars PROVE Told'
  OBVIOUS
<1>1. /\ tick \in Nat /\ begun \in Nat /\ MaxAge \in Nat /\ MaxTick \in Nat /\ MaxDepth \in Nat
      /\ {depth, backlog} \subseteq Nat /\ WarnThreshold \in Nat
      /\ \A w \in Beaters : seen[w] \in Int
  BY ReadinessAssumption DEF Told, ReadinessTypeOK, NeverSeen
<1>2. CASE Probe
  BY <1>2, ToldProbe
<1>3. CASE Respond
  <2>1. /\ checks' = <<>> /\ begun' = tick /\ wasUp' = up /\ calm' = Calm
        /\ UNCHANGED <<tick, up, seen, group, depth, backlog>>
    BY <1>3, Zenon DEF Respond
  <2>2. Calm' = Calm /\ Calm \in BOOLEAN
    BY <2>1, Zenon DEF Calm
  <2>3. Len(checks') = 0 /\ checks' \in Seq(Statuses)
    BY <2>1
  <2>4. ReadinessTypeOK'
    <3>1. 0 <= Len(Order)
      BY OrderIs
    <3> QED
      BY <2>1, <2>2, <2>3, <3>1, Zenon DEF Told, ReadinessTypeOK
  <2>5. ~(Len(checks') >= 4) /\ ~(Len(checks') >= 5) /\ begun' <= tick'
    BY <1>1, <2>1, <2>3
  <2> QED
    BY <2>1, <2>2, <2>4, <2>5, Zenon DEF Told
<1>4. CASE Fluctuate
  <2>1. /\ up' \subseteq Deps /\ {depth', backlog'} \subseteq 0 .. MaxDepth /\ group' \in Groups
        /\ wasUp' = wasUp \cup up' /\ calm' = (calm \/ Calm')
        /\ UNCHANGED <<tick, seen, checks, begun>>
    BY <1>4, Zenon DEF Fluctuate, Told, ReadinessTypeOK
  <2>2. calm' \in BOOLEAN
    BY <2>1, Zenon
  <2>3. wasUp' \subseteq Deps
    BY <2>1, Zenon DEF Told, ReadinessTypeOK
  <2>4. ReadinessTypeOK'
    BY <2>1, <2>2, <2>3, Zenon DEF Told, ReadinessTypeOK
  <2> QED
    BY <2>1, <2>4, Zenon DEF Told, Beaten
<1>5. ASSUME NEW w \in Beaters, Beat(w) PROVE Told'
  <2>1. /\ seen' = [seen EXCEPT ![w] = tick]
        /\ UNCHANGED <<tick, up, group, depth, backlog, checks, begun, wasUp, calm>>
    BY <1>5, Zenon DEF Beat
  <2>2. ReadinessTypeOK'
    BY <2>1, Zenon DEF Told, ReadinessTypeOK
  <2>3. \A v \in Beaters : seen'[v] <= tick
    BY <1>1, <2>1 DEF Told, ReadinessTypeOK
  <2>4. ASSUME Beaten PROVE Beaten'
    <3>1. PICK v \in Beaters : seen[v] # NeverSeen /\ seen[v] >= begun - MaxAge
      BY <2>4, Zenon DEF Beaten
    <3>2. seen'[v] = tick \/ seen'[v] = seen[v]
      BY <2>1 DEF Told, ReadinessTypeOK
    <3>3. tick # NeverSeen /\ tick >= begun - MaxAge
      BY <1>1 DEF Told, NeverSeen
    <3> QED
      BY <2>1, <3>1, <3>2, <3>3 DEF Beaten
  <2> QED
    BY <2>1, <2>2, <2>3, <2>4, Zenon DEF Told, Calm
<1>6. CASE Pass
  <2>1. /\ tick' = tick + 1 /\ tick' \in 0 .. MaxTick
        /\ UNCHANGED <<up, seen, group, depth, backlog, checks, begun, wasUp, calm>>
    BY <1>1, <1>6 DEF Pass, Told, ReadinessTypeOK
  <2>2. begun <= tick' /\ \A w \in Beaters : seen[w] <= tick'
    BY <1>1, <2>1 DEF Told
  <2> QED
    BY <2>1, <2>2, Zenon DEF Told, ReadinessTypeOK, Beaten, Calm
<1>7. CASE UNCHANGED readyVars
  BY <1>7, Zenon DEF readyVars, Told, ReadinessTypeOK, Beaten, Calm
<1> QED
  BY <1>2, <1>3, <1>4, <1>5, <1>6, <1>7, ZenonT(30) DEF ReadinessNext

LEMMA ToldInit ==
    ReadinessInit => Told
<1> SUFFICES ASSUME ReadinessInit PROVE Told
  OBVIOUS
<1>1. /\ 0 <= Len(Order) /\ Len(<<>>) = 0 /\ <<>> \in Seq(Statuses)
      /\ 0 \in 0 .. MaxDepth /\ 0 \in 0 .. MaxTick /\ 0 <= 0 /\ NeverSeen <= 0
      /\ ~(0 >= 4) /\ ~(0 >= 5)
  BY OrderIs, ReadinessAssumption DEF NeverSeen
<1>2. "none" \in Groups
  BY DEF Groups
<1> QED
  BY <1>1, <1>2, Zenon DEF ReadinessInit, Told, ReadinessTypeOK

\* When Readiness says ok, a worker's heartbeat was recent enough when the probe began and
\* the queue was short at some time of it, for any number of workers, ages and thresholds.
THEOREM AnOkWasTrue ==
    ReadinessSpec => []OkWasTrue
<1>1. Told => OkWasTrue
  <2> SUFFICES ASSUME Told, Answered, OverallStatus(checks) = "ok"
               PROVE  Beaten /\ calm
    BY ZenonT(30) DEF OkWasTrue, Beaten
  <2>1. Len(checks) = 6 /\ DOMAIN checks = 1 .. 6 /\ checks \in Seq(Statuses)
    BY OrderIs DEF Answered, Told, ReadinessTypeOK
  <2>2. \A i \in 1 .. 6 : checks[i] \in Statuses
    <3>1. \A i \in 1 .. Len(checks) : checks[i] \in Statuses
      BY DEF Told, ReadinessTypeOK
    <3> QED
      BY <2>1, <3>1, Zenon
  <2>3. \A i \in 1 .. 6 : checks[i] = "ok"
    BY <2>1, <2>2 DEF OverallStatus, Statuses
  <2>4. 4 \in 1 .. 6 /\ 5 \in 1 .. 6 /\ 6 >= 4 /\ 6 >= 5
    OBVIOUS
  <2> QED
    BY <2>1, <2>3, <2>4, Zenon DEF Told
<1> QED
  BY <1>1, ToldInit, ToldNext, PTL DEF ReadinessSpec
=============================================================================

--------------------------- MODULE AdminApi_proofs ---------------------------
(***************************************************************************)
(* What the admin API keeps, for every set of requests, users, sessions,   *)
(* passwords and plans, whatever statements fail and however requests and  *)
(* restarts overlap.                                                       *)
(***************************************************************************)
EXTENDS AdminApi, FiniteSetTheorems, TLAPS

\* Where a request for an operation can be between its arrival and its answer.
Labels(op) ==
    CASE op = "login"             -> {"user", "create", "log"}
      [] op = "logout"            -> {"session", "revoke", "log"}
      [] op = "password"          -> {"session", "check", "change"}
      [] op \in {"lookup", "raw"} -> {"session", "limit", "find", "log"}
      [] OTHER                    -> {"session", "write", "log"}

\* A request keeps to the handler of its operation; it has its row in the log only when
\* it is answered, its review or entry only when it is past writing; it acts for the
\* user of the session it came with; the session that has its name is the one its login
\* has made.
Shaped(q) ==
    /\ req[q].pc \in Labels(req[q].op) \cup {"start", "done"}
    /\ req[q].pc # "start" => req[q].user \in Users
    /\ req[q].status # "pending" => req[q].pc = "done"
    /\ q \in log \/ req[q].status = "ok" => req[q].pc = "done"
    /\ q \in reviews \/ catalog = q => req[q].pc \in {"log", "done"}
    /\ req[q].op # "login" /\ req[q].pc # "start" =>
          Row(req[q].cookie) /\ sessions[req[q].cookie].user = req[q].user
    /\ Row(q) => req[q].op = "login" /\ req[q].pc \notin {"start", "user", "create"}

\* The strengthening of EndedStaysOut: a session that has ended stays so, and a request
\* that came with it has not been found to belong to anyone.
Late(q) ==
    req[q].late =>
        /\ req[q].op # "login" /\ Ended(req[q].cookie)
        /\ req[q].pc \in {"session", "revoke", "done"}
        /\ ~req[q].known
        /\ q \notin log \cup reviews /\ catalog # q
        /\ req[q].op # "logout" => req[q].status # "ok"

IInv ==
    /\ TypeOK
    /\ \A q \in Requests : Shaped(q)
    /\ \A q \in Requests : Late(q)
    /\ ChangeEndsSessions
    /\ ChangesAreLogged
    /\ AnsweredIsLogged
-----------------------------------------------------------------------------
\* What the columns of a request keep while it moves on.
SameRequest(q) ==
    /\ req'[q].op = req[q].op /\ req'[q].cookie = req[q].cookie
    /\ req'[q].user = req[q].user /\ req'[q].late = req[q].late

\* A request that goes on or is answered keeps what it came with; nobody else moves.
LEMMA Moves ==
    ASSUME TypeOK, NEW q \in Requests, NEW ok \in BOOLEAN, NEW label, NEW status \in Status,
           label \in {"create", "log", "check", "limit", "write", "change", "find"},
           Proceed(q, ok, label, status)
    PROVE  /\ req' \in [Requests -> Request]
           /\ \A r \in Requests \ {q} : req'[r] = req[r]
           /\ SameRequest(q) /\ req'[q].known = req[q].known
           /\ ok => req'[q].pc = label /\ req'[q].status = req[q].status
           /\ ~ok => req'[q].pc = "done" /\ req'[q].status = status
<1>1. req \in [Requests -> Request] /\ req[q] \in Request
  BY DEF TypeOK
<1>2. CASE ok
  <2>1. req' = [req EXCEPT ![q].pc = label]
    BY <1>2 DEF Proceed, Goto
  <2> QED
    BY <1>1, <1>2, <2>1 DEF Request, SameRequest
<1>3. CASE ~ok
  <2>1. req' = [req EXCEPT ![q].pc = "done", ![q].status = status]
    BY <1>3 DEF Proceed, Answer
  <2> QED
    BY <1>1, <1>3, <2>1, Zenon DEF Request, SameRequest
<1> QED
  BY <1>2, <1>3

\* An answer is a move to done.
LEMMA Answers ==
    ASSUME TypeOK, NEW q \in Requests, NEW status \in Status, Answer(q, status)
    PROVE  /\ req' \in [Requests -> Request]
           /\ \A r \in Requests \ {q} : req'[r] = req[r]
           /\ SameRequest(q) /\ req'[q].known = req[q].known
           /\ req'[q].pc = "done" /\ req'[q].status = status
<1>1. req \in [Requests -> Request] /\ req[q] \in Request
  BY DEF TypeOK
<1>2. req' = [req EXCEPT ![q].pc = "done", ![q].status = status]
  BY DEF Answer
<1> QED
  BY <1>1, <1>2, Zenon DEF Request, SameRequest

\* A statement counts at most one fault.
LEMMA Faults ==
    ASSUME TypeOK, NEW fate, Statement(fate)
    PROVE  faults' \in 0 .. MaxFaults
BY AdminAssumption DEF TypeOK, Statement
-----------------------------------------------------------------------------
\* The rows of the log that tell of a change of u's password.
Changes(u) == {q \in log : req[q].op = "password" /\ req[q].user = u}

\* A step of q that changes no table but the passwords.
LEMMA QuietStep ==
    ASSUME IInv, NEW q \in Requests, TypeOK',
           UNCHANGED <<now, sessions, version, log, reviews, catalog>>,
           \A r \in Requests \ {q} : req'[r] = req[r],
           SameRequest(q),
           req[q].pc \notin {"start", "log", "done"},
           req'[q].pc \in Labels(req[q].op) \cup {"done"},
           req'[q].status # "ok",
           req'[q].status # "pending" => req'[q].pc = "done",
           Row(q) => req'[q].pc \notin {"start", "user", "create"},
           req[q].late => ~req'[q].known /\ req'[q].pc \in {"session", "revoke", "done"}
    PROVE  IInv'
<1>1. ASSUME NEW r \in Requests PROVE Shaped(r)'
  <2>1. Shaped(r)
    BY DEF IInv
  <2>2. CASE r = q
    BY <2>1, <2>2 DEF Shaped, SameRequest, Row
  <2>3. CASE r # q
    BY <2>1, <2>3 DEF Shaped, Row
  <2> QED
    BY <2>2, <2>3
<1>2. ASSUME NEW r \in Requests PROVE Late(r)'
  <2>1. Late(r)
    BY DEF IInv
  <2>2. CASE r = q
    BY <2>1, <2>2 DEF Late, SameRequest, Ended, Live, Row
  <2>3. CASE r # q
    BY <2>1, <2>3 DEF Late, Ended, Live, Row
  <2> QED
    BY <2>2, <2>3
<1>3. ChangeEndsSessions'
  BY DEF IInv, ChangeEndsSessions, Live, Row
<1>4. ChangesAreLogged'
  <2>1. ASSUME NEW u \in Users PROVE Changes(u)' = Changes(u)
    BY DEF IInv, TypeOK, Changes, SameRequest
  <2> QED
    BY <2>1 DEF IInv, ChangesAreLogged, Changes
<1>5. AnsweredIsLogged'
  BY DEF IInv, AnsweredIsLogged
<1> QED
  BY <1>1, <1>2, <1>3, <1>4, <1>5 DEF IInv
-----------------------------------------------------------------------------
(* The steps that read *)

\* A statement that only reads, after which the request goes on or is answered.
LEMMA ReadStep ==
    ASSUME IInv, NEW q \in Requests, NEW fate, NEW ok \in BOOLEAN, NEW label,
           NEW status \in Status \ {"ok"},
           label \in {"create", "log", "check", "limit", "write", "change", "find"},
           Proceed(q, ok, label, status), Statement(fate),
           UNCHANGED <<now, tables, counters, history>>,
           req[q].pc \notin {"start", "log", "done"}, label \in Labels(req[q].op),
           req[q].status = "pending", ~req[q].late, ~Row(q)
    PROVE  IInv'
<1>1. TypeOK
  BY DEF IInv
<1>2. /\ req' \in [Requests -> Request]
      /\ \A r \in Requests \ {q} : req'[r] = req[r]
      /\ SameRequest(q)
      /\ ok => req'[q].pc = label /\ req'[q].status = req[q].status
      /\ ~ok => req'[q].pc = "done" /\ req'[q].status = status
  BY <1>1, Moves
<1>3. TypeOK'
  BY <1>1, <1>2, Faults DEF TypeOK, tables, history
<1> QED
  BY <1>2, <1>3, QuietStep DEF tables, history

LEMMA FindUserStep ==
    ASSUME IInv, NEW q \in Requests, NEW fate \in Fates, FindUser(q, fate)
    PROVE  IInv'
<1> DEFINE ok == fate = "ok" /\ active[req[q].user] /\ password[req[q].user] = req[q].given
           status == IF fate = "ok" THEN "refused" ELSE "failed"
<1>1. TypeOK /\ Shaped(q) /\ Late(q) /\ req[q].pc = "user"
  BY DEF IInv, FindUser, At
<1>2. req[q].op = "login" /\ ~Row(q) /\ ~req[q].late /\ req[q].status = "pending"
  BY <1>1 DEF Shaped, Late, Labels, TypeOK, Request, AllOps
<1>3. /\ Proceed(q, ok, "create", status) /\ Statement(fate)
      /\ UNCHANGED <<now, tables, counters, history>>
  BY DEF FindUser
<1>4. ok \in BOOLEAN /\ status \in Status \ {"ok"} /\ "create" \in Labels(req[q].op)
  BY <1>2 DEF Status, Labels
<1> HIDE DEF ok, status
<1> QED
  BY <1>1, <1>2, <1>3, <1>4, ReadStep

LEMMA CheckCurrentStep ==
    ASSUME IInv, NEW q \in Requests, NEW fate \in Fates, CheckCurrent(q, fate)
    PROVE  IInv'
<1> DEFINE ok == /\ fate = "ok" /\ active[req[q].user]
                 /\ password[req[q].user] = req[q].given /\ password[req[q].user] # req[q].new
           status == IF fate = "ok" THEN "refused" ELSE "failed"
<1>1. TypeOK /\ Shaped(q) /\ Late(q) /\ req[q].pc = "check"
  BY DEF IInv, CheckCurrent, At
<1>2. req[q].op = "password" /\ ~Row(q) /\ ~req[q].late /\ req[q].status = "pending"
  BY <1>1 DEF Shaped, Late, Labels, TypeOK, Request, AllOps
<1>3. /\ Proceed(q, ok, "change", status) /\ Statement(fate)
      /\ UNCHANGED <<now, tables, counters, history>>
  BY Zenon DEF CheckCurrent
<1>4. ok \in BOOLEAN /\ status \in Status \ {"ok"} /\ "change" \in Labels(req[q].op)
  BY <1>2 DEF Status, Labels
<1> HIDE DEF ok, status
<1> QED
  BY <1>1, <1>2, <1>3, <1>4, ReadStep

LEMMA FindStep ==
    ASSUME IInv, NEW q \in Requests, NEW fate \in Fates, NEW found \in BOOLEAN,
           Find(q, fate, found)
    PROVE  IInv'
<1> DEFINE ok == fate = "ok" /\ (req[q].op = "raw" => found)
           status == IF found THEN "failed" ELSE "refused"
<1>1. TypeOK /\ Shaped(q) /\ Late(q) /\ req[q].pc = "find"
  BY DEF IInv, Find, At
<1>2. req[q].op \in {"lookup", "raw"} /\ ~Row(q) /\ ~req[q].late /\ req[q].status = "pending"
  BY <1>1 DEF Shaped, Late, Labels, TypeOK, Request, AllOps
<1>3. /\ Proceed(q, ok, "log", status) /\ Statement(fate)
      /\ UNCHANGED <<now, tables, counters, history>>
  BY DEF Find
<1>4. ok \in BOOLEAN /\ status \in Status \ {"ok"} /\ "log" \in Labels(req[q].op)
  BY <1>2 DEF Status, Labels
<1> HIDE DEF ok, status
<1> QED
  BY <1>1, <1>2, <1>3, <1>4, ReadStep

\* PrincipalBySession does not find a session that had ended before the request came.
LEMMA PrincipalStep ==
    ASSUME IInv, NEW q \in Requests, NEW fate \in Fates, Principal(q, fate)
    PROVE  IInv'
<1> DEFINE found == fate = "ok" /\ Valid(req[q].cookie)
           op == req[q].op
           ok == found /\ (NeedsCSRF(op) => req[q].csrf) /\ Allows(Role[req[q].user], op)
<1>1. TypeOK /\ Shaped(q) /\ Late(q) /\ req[q].pc = "session"
  BY DEF IInv, Principal, At
<1>2. op \in AllOps \ {"login"} /\ ~Row(q) /\ req[q].status = "pending"
  BY <1>1 DEF Shaped, Labels, TypeOK, Request, AllOps
<1>3. found \in BOOLEAN /\ (req[q].late => ~found)
  BY <1>1 DEF Late, Ended, Valid
<1>4. Statement(fate) /\ UNCHANGED <<now, tables, counters, history>>
  BY DEF Principal
<1>5. CASE op = "logout"
  <2>1. req' = [req EXCEPT ![q].pc = "revoke", ![q].known = found]
    BY <1>5 DEF Principal
  <2> HIDE DEF found
  <2>2. req \in [Requests -> Request] /\ req[q] \in Request
    BY <1>1 DEF TypeOK
  <2>3. /\ req' \in [Requests -> Request]
        /\ \A r \in Requests \ {q} : req'[r] = req[r]
        /\ SameRequest(q) /\ req'[q].status = req[q].status
        /\ req'[q].pc = "revoke" /\ req'[q].known = found
    BY <1>3, <2>1, <2>2, Zenon DEF Request, SameRequest
  <2>4. TypeOK'
    BY <1>1, <1>4, <2>3, Faults, Zenon DEF TypeOK, tables, history
  <2> QED
    BY <1>1, <1>2, <1>3, <1>4, <1>5, <2>3, <2>4, QuietStep DEF tables, history, Labels
<1>6. CASE op # "logout"
  <2>1. Proceed(q, ok, Handler(op), "refused")
    BY <1>6, Zenon DEF Principal
  <2>2. ok \in BOOLEAN
    OBVIOUS
  <2>3. req[q].late => ~ok
    BY <1>3
  <2> HIDE DEF ok, found
  <2>4. Handler(op) \in {"check", "limit", "write"} /\ Handler(op) \in Labels(op)
    BY <1>2, <1>6 DEF Handler, Labels, AllOps, Limiters
  <2>5. /\ req' \in [Requests -> Request]
        /\ \A r \in Requests \ {q} : req'[r] = req[r]
        /\ SameRequest(q) /\ req'[q].known = req[q].known
        /\ ok => req'[q].pc = Handler(op) /\ req'[q].status = req[q].status
        /\ ~ok => req'[q].pc = "done" /\ req'[q].status = "refused"
    BY <1>1, <2>1, <2>2, <2>4, Moves DEF Status
  <2>6. TypeOK'
    BY <1>1, <1>4, <2>5, Faults DEF TypeOK, tables, history
  <2>7. req[q].late => ~req'[q].known /\ req'[q].pc \in {"session", "revoke", "done"}
    BY <1>1, <2>3, <2>5 DEF Late
  <2> QED
    BY <1>1, <1>2, <1>4, <2>4, <2>5, <2>6, <2>7, QuietStep DEF tables, history
<1> QED
  BY <1>5, <1>6

\* A limiter counts for a user there is.
LEMMA AllowStep ==
    ASSUME IInv, NEW q \in Requests, Allow(q)
    PROVE  IInv'
<1> DEFINE op == req[q].op
           key == <<op, req[q].user>>
           limited == Limit[op] > 0 /\ Window > 0
           c == Current(counters[key], op)
           ok == limited => c.count < Limit[op]
<1>1. TypeOK /\ Shaped(q) /\ Late(q) /\ req[q].pc = "limit"
  BY DEF IInv, Allow, At
<1>2. /\ op \in Limiters /\ req[q].user \in Users
      /\ ~Row(q) /\ ~req[q].late /\ req[q].status = "pending"
  BY <1>1 DEF Shaped, Late, Labels, TypeOK, Request, AllOps, Limiters
<1>3. key \in Limiters \X Users /\ counters[key] \in Counter
  BY <1>1, <1>2 DEF TypeOK
<1>4. c \in Counter
  BY <1>1, <1>3, AdminAssumption DEF Current, Counter, TypeOK, Times
<1>5. Proceed(q, ok /\ req[q].valid, "find", "refused") /\ UNCHANGED <<now, tables, version, faults>>
  BY DEF Allow
<1>6. (ok /\ req[q].valid) \in BOOLEAN
  OBVIOUS
<1>7. counters' \in [Limiters \X Users -> Counter]
  <2>1. counters' = IF limited
                    THEN [counters EXCEPT ![key] = IF ok THEN [c EXCEPT !.count = @ + 1] ELSE c]
                    ELSE counters
    BY DEF Allow
  <2> HIDE DEF c, key, limited, ok
  <2>2. [c EXCEPT !.count = @ + 1] \in Counter
    BY <1>4 DEF Counter
  <2> QED
    BY <1>1, <1>3, <1>4, <2>1, <2>2, Zenon DEF TypeOK
<1>8. admitted' \subseteq Admission
  <2>1. admitted' = IF ok THEN admitted \cup {[req |-> q, op |-> op, user |-> req[q].user,
                                               at |-> now, win |-> c.win]}
                         ELSE admitted
    BY DEF Allow
  <2> HIDE DEF c, key, limited, ok
  <2> QED
    BY <1>1, <1>2, <1>4, <2>1 DEF TypeOK, Admission, Counter
<1> HIDE DEF ok
<1>9. /\ req' \in [Requests -> Request]
      /\ \A r \in Requests \ {q} : req'[r] = req[r]
      /\ SameRequest(q)
      /\ \/ req'[q].pc = "find" /\ req'[q].status = req[q].status
         \/ req'[q].pc = "done" /\ req'[q].status = "refused"
  BY <1>1, <1>5, <1>6, Moves, Zenon DEF Status
<1>10. TypeOK'
  BY <1>1, <1>5, <1>7, <1>8, <1>9 DEF TypeOK, tables
<1> QED
  BY <1>1, <1>2, <1>5, <1>9, <1>10, QuietStep, Zenon DEF tables, Labels, Limiters
-----------------------------------------------------------------------------
(* The steps that write *)

\* A request that stands still, while nothing is written in its name.
LEMMA OtherRequest ==
    ASSUME NEW r \in Requests, Shaped(r), Late(r), req'[r] = req[r], UNCHANGED <<now, sessions>>,
           r \in log' => r \in log, r \in reviews' => r \in reviews,
           catalog' = r => catalog = r
    PROVE  Shaped(r)' /\ Late(r)'
<1>1. Shaped(r)'
  BY DEF Shaped, Row
<1>2. Late(r)'
  BY DEF Late, Ended, Live, Row
<1> QED
  BY <1>1, <1>2

\* What is left to show when a step has kept or ended sessions: rows stay, a session that
\* is not live stays so, and the sessions of a user whose version stands keep theirs.
LEMMA SessionsStep ==
    ASSUME IInv, TypeOK', now' >= now,
           UNCHANGED <<req, log, reviews, catalog, version>>,
           \A s \in SessionIds : sessions'[s].user = sessions[s].user,
           \A s \in SessionIds : sessions'[s].expires = sessions[s].expires,
           \A s \in SessionIds : sessions[s].revoked => sessions'[s].revoked,
           \A s \in SessionIds : sessions'[s].opened = sessions[s].opened
                                /\ sessions'[s].kept = sessions[s].kept
    PROVE  IInv'
<1>1. \A s \in SessionIds : (Row(s)' <=> Row(s)) /\ (Live(s)' => Live(s))
  BY DEF IInv, TypeOK, Row, Live, Session, Times
<1>2. \A q \in Requests : req[q].cookie \in SessionIds /\ q \in SessionIds
  BY DEF IInv, TypeOK, Request, SessionIds
<1>3. ASSUME NEW q \in Requests PROVE Shaped(q)'
  BY <1>1, <1>2, Zenon DEF IInv, Shaped
<1>4. ASSUME NEW q \in Requests PROVE Late(q)'
  BY <1>1, <1>2 DEF IInv, Late, Ended
<1>5. ChangeEndsSessions'
  BY <1>1 DEF IInv, ChangeEndsSessions
<1> QED
  BY <1>3, <1>4, <1>5 DEF IInv, ChangesAreLogged, AnsweredIsLogged

\* Time passes, and sessions expire.
LEMMA TickStep ==
    ASSUME IInv, Tick
    PROVE  IInv'
<1>1. now' \in Times /\ now' >= now
  BY AdminAssumption DEF IInv, TypeOK, Tick, Times
<1>2. TypeOK'
  BY <1>1 DEF IInv, TypeOK, Tick, tables, history
<1> QED
  BY <1>1, <1>2, SessionsStep DEF Tick, tables, history

LEMMA SetStatusStep ==
    ASSUME IInv, NEW u \in Users, SetStatus(u)
    PROVE  IInv'
<1>1. TypeOK'
  BY DEF IInv, TypeOK, SetStatus, history
<1>2. now' >= now
  BY DEF IInv, TypeOK, SetStatus, Times
<1> QED
  BY <1>1, <1>2, SessionsStep DEF SetStatus, history

\* A restart breaks requests off; their rows stay.
LEMMA RestartStep ==
    ASSUME IInv, Restart
    PROVE  IInv'
<1> DEFINE Moved(r) == ~(At(r, "start") \/ At(r, "done"))
<1>1. TypeOK
  BY DEF IInv
<1>2. \A r \in Requests :
         /\ ~Moved(r) => req'[r] = req[r]
         /\ Moved(r) => req'[r] = [req[r] EXCEPT !.pc = "done", !.status = "broken"]
  BY Zenon DEF Restart
<1>3. \A r \in Requests :
         /\ req'[r] \in Request /\ SameRequest(r) /\ req'[r].known = req[r].known
         /\ req'[r].pc \in {req[r].pc, "done"}
         /\ req[r].pc = "start" => req'[r].pc = "start"
         /\ req'[r].pc # "done" => req[r].pc = "start" /\ req'[r].status = req[r].status
         /\ req'[r].status \in {req[r].status, "broken"}
  <2>1. SUFFICES ASSUME NEW r \in Requests
                 PROVE  /\ req'[r] \in Request /\ SameRequest(r) /\ req'[r].known = req[r].known
                        /\ req'[r].pc \in {req[r].pc, "done"}
                        /\ req[r].pc = "start" => req'[r].pc = "start"
                        /\ req'[r].pc # "done" =>
                              req[r].pc = "start" /\ req'[r].status = req[r].status
                        /\ req'[r].status \in {req[r].status, "broken"}
    OBVIOUS
  <2>2. req[r] \in Request
    BY <1>1 DEF TypeOK
  <2>3. CASE Moved(r)
    <3>1. req'[r] = [req[r] EXCEPT !.pc = "done", !.status = "broken"]
      BY <1>2, <2>3, Zenon
    <3> QED
      BY <2>2, <2>3, <3>1, Zenon DEF Request, SameRequest, At, Status
  <2>4. CASE ~Moved(r)
    BY <1>2, <2>2, <2>4, Zenon DEF SameRequest, At
  <2> QED
    BY <2>3, <2>4
<1>4. req' \in [Requests -> Request]
  BY <1>1, <1>3, Zenon DEF TypeOK, Restart
<1>5. UNCHANGED <<now, tables, version>> /\ faults' \in 0 .. MaxFaults
      /\ counters' \in [Limiters \X Users -> Counter] /\ admitted' \subseteq Admission
  <2>1. UNCHANGED <<now, tables, version>> /\ admitted' = {}
    BY Zenon DEF Restart
  <2>2. faults' \in 0 .. MaxFaults
    <3>1. MaxFaults \in Nat /\ faults \in 0 .. MaxFaults
      BY <1>1, AdminAssumption DEF TypeOK
    <3>2. faults < MaxFaults /\ faults' = faults + 1
      BY ZenonT(30) DEF Restart
    <3> QED
      BY <3>1, <3>2
  <2>3. counters' \in [Limiters \X Users -> Counter]
    BY Zenon DEF Restart, Counter
  <2> QED
    BY <2>1, <2>2, <2>3
<1>6. TypeOK'
  BY <1>1, <1>4, <1>5 DEF TypeOK, tables
<1>7. ASSUME NEW r \in Requests PROVE Shaped(r)' /\ Late(r)'
  <2>1. Shaped(r) /\ Late(r) /\ req[r].cookie \in SessionIds
    BY Zenon DEF IInv, TypeOK, Request
  <2>2. Shaped(r)'
    BY <1>3, <1>5, <2>1, Zenon DEF Shaped, SameRequest, Row, tables
  <2>3. Late(r)'
    BY <1>3, <1>5, <2>1, Zenon DEF Late, SameRequest, Ended, Live, Row, tables
  <2> QED
    BY <2>2, <2>3
<1>8. ChangesAreLogged'
  <2>1. ASSUME NEW u \in Users PROVE Changes(u)' = Changes(u)
    BY <1>1, <1>3, <1>5, Zenon DEF TypeOK, Changes, SameRequest, tables
  <2> QED
    BY <1>5, <2>1, Zenon DEF IInv, ChangesAreLogged, Changes
<1>9. ChangeEndsSessions' /\ AnsweredIsLogged'
  BY <1>3, <1>5 DEF IInv, ChangeEndsSessions, AnsweredIsLogged, Live, Row, tables, SameRequest
<1> QED
  BY <1>6, <1>7, <1>8, <1>9 DEF IInv

\* A request arrives, for the user of its session.
LEMMA ArriveStep ==
    ASSUME IInv, NEW q \in Requests, NEW s \in SessionIds, NEW u \in Users,
           NEW given \in Passwords, NEW new \in Passwords, NEW csrf \in BOOLEAN,
           NEW valid \in BOOLEAN, Arrive(q, s, u, given, new, csrf, valid)
    PROVE  IInv'
<1> DEFINE op == req[q].op
           arrived == [pc |-> IF op = "login" THEN "user" ELSE "session", op |-> op, cookie |-> s,
               user |-> u, given |-> given, new |-> new, csrf |-> csrf, valid |-> valid,
               known |-> FALSE, late |-> op # "login" /\ Ended(s), status |-> "pending"]
<1>1. TypeOK /\ Shaped(q) /\ Late(q) /\ req[q].pc = "start" /\ op \in AllOps
  BY DEF IInv, Arrive, At, TypeOK, Request
<1>2. /\ req' = [req EXCEPT ![q] = arrived]
      /\ op # "login" => Row(s) /\ u = sessions[s].user
      /\ UNCHANGED <<now, tables, counters, history, faults>>
  BY ZenonT(30) DEF Arrive
<1>3. q \notin log /\ ~Row(q) /\ ~req[q].late
  BY <1>1 DEF Shaped, Late
<1>4. /\ arrived \in Request /\ arrived.op = op /\ arrived.user = u /\ arrived.cookie = s
      /\ arrived.status = "pending" /\ arrived.known = FALSE
      /\ arrived.pc = IF op = "login" THEN "user" ELSE "session"
      /\ arrived.late => op # "login" /\ Ended(s)
  BY <1>1, ZenonT(30) DEF Request, Status
<1> HIDE DEF arrived
<1>5. /\ req' \in [Requests -> Request] /\ req'[q] = arrived
      /\ \A r \in Requests \ {q} : req'[r] = req[r]
  BY <1>1, <1>2, <1>4 DEF TypeOK
<1>6. TypeOK'
  BY <1>1, <1>2, <1>5 DEF TypeOK, tables, history
<1>7. Shaped(q)'
  BY <1>1, <1>2, <1>3, <1>4, <1>5, Zenon DEF Shaped, Labels, Row, tables, AllOps
<1>8. Late(q)'
  <2>1. q \notin reviews /\ catalog # q
    BY <1>1 DEF Shaped
  <2> QED
    BY <1>2, <1>3, <1>4, <1>5, <2>1, ZenonT(30) DEF Late, Ended, Live, Row, tables
<1>9. ASSUME NEW r \in Requests \ {q} PROVE Shaped(r)' /\ Late(r)'
  <2>1. Shaped(r) /\ Late(r)
    BY DEF IInv
  <2> QED
    BY <1>2, <1>5, <2>1, OtherRequest DEF tables
<1>10. ChangesAreLogged'
  <2>1. ASSUME NEW v \in Users PROVE Changes(v)' = Changes(v)
    BY <1>1, <1>2, <1>3, <1>5 DEF TypeOK, Changes, tables
  <2> QED
    BY <1>2, <2>1, ZenonT(30) DEF IInv, ChangesAreLogged, Changes, tables, history
<1>11. ChangeEndsSessions' /\ AnsweredIsLogged'
  BY <1>2, <1>4, <1>5, Zenon DEF IInv, ChangeEndsSessions, AnsweredIsLogged, Live, Row, tables, history
<1> QED
  BY <1>6, <1>7, <1>8, <1>9, <1>10, <1>11, ZenonT(30) DEF IInv

\* A new session is opened under the version that stands; nobody had a cookie of it.
LEMMA CreateSessionStep ==
    ASSUME IInv, NEW q \in Requests, NEW fate \in Fates, CreateSession(q, fate)
    PROVE  IInv'
<1> DEFINE u == req[q].user
           opened == [user |-> u, expires |-> now + SessionTTL, revoked |-> FALSE,
                      opened |-> version[u], kept |-> 0]
<1>1. TypeOK /\ Shaped(q) /\ Late(q) /\ req[q].pc = "create" /\ q \in SessionIds
  BY Zenon DEF IInv, CreateSession, At, SessionIds
<1>2. /\ req[q].op = "login" /\ ~Row(q) /\ ~req[q].late /\ req[q].status = "pending"
      /\ u \in Users /\ q \notin log
  BY <1>1, Zenon DEF Shaped, Late, Labels, TypeOK, Request, AllOps
<1>3. /\ Proceed(q, fate = "ok", "log", "failed") /\ Statement(fate)
      /\ UNCHANGED <<now, active, password, log, reviews, catalog, counters, history>>
      /\ sessions' = IF Took(fate) THEN [sessions EXCEPT ![q] = opened] ELSE sessions
  BY Zenon DEF CreateSession
<1>4. (fate = "ok") \in BOOLEAN /\ (fate = "ok" => Took(fate))
  BY DEF Took
<1>5. /\ req' \in [Requests -> Request]
      /\ \A r \in Requests \ {q} : req'[r] = req[r]
      /\ SameRequest(q)
      /\ \/ req'[q].pc = "log" /\ req'[q].status = req[q].status
         \/ req'[q].pc = "done" /\ req'[q].status = "failed"
  BY <1>1, <1>3, <1>4, Moves, ZenonT(30) DEF Status
<1>6. /\ opened \in Session /\ opened.user = u /\ opened.opened = version[u]
  BY <1>1, <1>2, AdminAssumption DEF TypeOK, Session, Times
<1> HIDE DEF opened
<1>7. /\ sessions' \in [SessionIds -> Session]
      /\ \A s \in SessionIds \ {q} : sessions'[s] = sessions[s]
      /\ sessions'[q] \in {sessions[q], opened}
  BY <1>1, <1>3, <1>6, Zenon DEF TypeOK
<1>8. TypeOK'
  BY <1>1, <1>3, <1>5, <1>7, Faults DEF TypeOK, history
<1>9. Shaped(q)' /\ Late(q)'
  <2>1. Shaped(q)'
    BY <1>1, <1>2, <1>3, <1>5 DEF Shaped, Labels, SameRequest
  <2>2. Late(q)'
    BY <1>2, <1>5 DEF Late, SameRequest
  <2> QED
    BY <2>1, <2>2
<1>10. ASSUME NEW r \in Requests \ {q} PROVE Shaped(r)' /\ Late(r)'
  <2>1. Shaped(r) /\ Late(r) /\ r \in SessionIds /\ req[r].cookie \in SessionIds
    BY <1>1 DEF IInv, TypeOK, Request, SessionIds
  <2>2. req'[r] = req[r] /\ sessions'[r] = sessions[r]
    BY <1>5, <1>7, <2>1, Zenon
  <2>3. Row(req[r].cookie) => sessions'[req[r].cookie] = sessions[req[r].cookie]
    BY <1>2, <1>7, <2>1, Zenon
  <2>4. Shaped(r)'
    BY <1>3, <2>1, <2>2, <2>3, Zenon DEF Shaped, Row
  <2>5. Late(r)'
    BY <1>3, <2>1, <2>2, <2>3, Zenon DEF Late, Ended, Live, Row
  <2> QED
    BY <2>4, <2>5
<1>11. ChangeEndsSessions'
  <2>1. version' = version /\ now' = now
    BY <1>3, Zenon DEF history
  <2>2. ASSUME NEW s \in SessionIds \ {q}, Live(s)'
        PROVE  version'[sessions'[s].user] \in {sessions'[s].opened, sessions'[s].kept}
    BY <1>7, <2>1, <2>2, Zenon DEF IInv, ChangeEndsSessions, Live, Row
  <2>3. ASSUME Live(q)'
        PROVE  version'[sessions'[q].user] \in {sessions'[q].opened, sessions'[q].kept}
    BY <1>2, <1>6, <1>7, <2>1, <2>3, Zenon DEF Live, Row
  <2> QED
    BY <2>2, <2>3 DEF ChangeEndsSessions
<1>12. ChangesAreLogged'
  <2>1. ASSUME NEW v \in Users PROVE Changes(v)' = Changes(v)
    BY <1>1, <1>3, <1>5, SMTT(30) DEF TypeOK, Changes, SameRequest
  <2> QED
    BY <1>3, <2>1 DEF IInv, ChangesAreLogged, Changes, history
<1>13. AnsweredIsLogged'
  BY <1>2, <1>3, <1>5 DEF IInv, AnsweredIsLogged
<1> QED
  BY <1>8, <1>9, <1>10, <1>11, <1>12, <1>13 DEF IInv

\* A logout ends the session it came with.
LEMMA RevokeSessionStep ==
    ASSUME IInv, NEW q \in Requests, NEW fate \in Fates, RevokeSession(q, fate)
    PROVE  IInv'
<1> DEFINE c == req[q].cookie
<1>1. TypeOK /\ Shaped(q) /\ Late(q) /\ req[q].pc = "revoke" /\ c \in SessionIds
  BY DEF IInv, RevokeSession, At, TypeOK, Request
<1>2. /\ req[q].op = "logout" /\ ~Row(q) /\ req[q].status = "pending"
      /\ q \notin log \cup reviews /\ catalog # q
  BY <1>1 DEF Shaped, Labels, TypeOK, Request, AllOps
<1>3. /\ Statement(fate)
      /\ UNCHANGED <<now, active, password, log, reviews, catalog, counters, history>>
      /\ sessions' = IF Took(fate) THEN [sessions EXCEPT ![c].revoked = TRUE] ELSE sessions
      /\ IF fate = "ok" THEN Proceed(q, req[q].known, "log", "ok") ELSE Answer(q, "failed")
  BY Zenon DEF RevokeSession
<1>4. /\ req' \in [Requests -> Request]
      /\ \A r \in Requests \ {q} : req'[r] = req[r]
      /\ SameRequest(q) /\ req'[q].known = req[q].known
      /\ \/ req[q].known /\ req'[q].pc = "log" /\ req'[q].status = "pending"
         \/ req'[q].pc = "done" /\ req'[q].status \in {"ok", "failed"}
  <2>1. req[q].known \in BOOLEAN
    BY <1>1 DEF TypeOK, Request
  <2>2. CASE fate = "ok"
    BY <1>1, <1>2, <1>3, <2>1, <2>2, Moves DEF Status
  <2>3. CASE fate # "ok"
    BY <1>1, <1>3, <2>3, Answers DEF Status
  <2> QED
    BY <2>2, <2>3
<1>5. /\ sessions' \in [SessionIds -> Session]
      /\ \A s \in SessionIds :
            /\ sessions'[s].user = sessions[s].user /\ sessions'[s].expires = sessions[s].expires
            /\ sessions[s].revoked => sessions'[s].revoked
            /\ sessions'[s].opened = sessions[s].opened /\ sessions'[s].kept = sessions[s].kept
  <2>1. sessions \in [SessionIds -> Session]
    BY <1>1 DEF TypeOK
  <2> QED
    BY <1>1, <1>3, <2>1, ZenonT(30) DEF Session
<1>6. TypeOK'
  BY <1>1, <1>3, <1>4, <1>5, Faults DEF TypeOK, history
<1>7. \A s \in SessionIds : (Row(s)' <=> Row(s)) /\ (Live(s)' => Live(s))
  BY <1>3, <1>5 DEF Row, Live
<1>8. Shaped(q)'
  BY <1>1, <1>2, <1>3, <1>4, <1>5, <1>7 DEF Shaped, Labels, SameRequest, SessionIds
<1>9. Late(q)'
  BY <1>1, <1>2, <1>3, <1>4, <1>7, Zenon DEF Late, Ended, SameRequest
<1>10. ASSUME NEW r \in Requests \ {q} PROVE Shaped(r)' /\ Late(r)'
  <2>1. Shaped(r) /\ Late(r) /\ r \in SessionIds /\ req[r].cookie \in SessionIds
    BY <1>1, Zenon DEF IInv, TypeOK, Request, SessionIds
  <2>2. Shaped(r)'
    BY <1>3, <1>4, <1>5, <1>7, <2>1 DEF Shaped
  <2>3. Late(r)'
    BY <1>3, <1>4, <1>7, <2>1, Zenon DEF Late, Ended
  <2> QED
    BY <2>2, <2>3
<1>11. ChangeEndsSessions'
  BY <1>3, <1>5, <1>7 DEF IInv, ChangeEndsSessions, history
<1>12. ChangesAreLogged'
  <2>1. ASSUME NEW v \in Users PROVE Changes(v)' = Changes(v)
    BY <1>1, <1>3, <1>4 DEF TypeOK, Changes, SameRequest
  <2> QED
    BY <1>3, <2>1 DEF IInv, ChangesAreLogged, Changes, history
<1>13. AnsweredIsLogged'
  BY <1>2, <1>3, <1>4 DEF IInv, AnsweredIsLogged, SameRequest
<1> QED
  BY <1>6, <1>8, <1>9, <1>10, <1>11, <1>12, <1>13 DEF IInv

\* A review or an entry is written by a request whose session was found.
LEMMA WriteStep ==
    ASSUME IInv, NEW q \in Requests, NEW fate \in Fates, Write(q, fate)
    PROVE  IInv'
<1>1. TypeOK /\ Shaped(q) /\ Late(q) /\ req[q].pc = "write"
  BY DEF IInv, Write, CreateReview, CreateContextCatalogEntry, WriteRow, At
<1>2. /\ req[q].op \in {"catalog", "review"} /\ ~Row(q) /\ ~req[q].late
      /\ req[q].status = "pending" /\ q \notin log \cup reviews /\ catalog # q
  BY <1>1 DEF Shaped, Late, Labels, TypeOK, Request, AllOps
<1>3. /\ UNCHANGED <<now, active, password, sessions, log, counters, history>>
      /\ reviews' \in {reviews, reviews \cup {q}}
      /\ catalog' \in {catalog, q}
  BY Zenon DEF Write, CreateReview, CreateContextCatalogEntry, WriteRow
<1>4. /\ req' \in [Requests -> Request]
      /\ \A r \in Requests \ {q} : req'[r] = req[r]
      /\ SameRequest(q) /\ faults' \in 0 .. MaxFaults
      /\ \/ req'[q].pc = "log" /\ req'[q].status = "pending"
         \/ req'[q].pc = "done" /\ req'[q].status \in {"refused", "failed"}
  <2>1. CASE req[q].valid
    <3>1. Statement(fate) /\ Proceed(q, fate = "ok", "log", "failed")
      BY <2>1 DEF Write, CreateReview, CreateContextCatalogEntry, WriteRow
    <3> QED
      BY <1>1, <1>2, <3>1, Moves, Faults, Zenon DEF Status
  <2>2. CASE ~req[q].valid
    <3>1. Answer(q, "refused") /\ faults' = faults
      BY <2>2 DEF Write, CreateReview, CreateContextCatalogEntry, WriteRow
    <3> QED
      BY <1>1, <3>1, Answers, Zenon DEF Status, TypeOK
  <2> QED
    BY <2>1, <2>2
<1>5. TypeOK'
  BY <1>1, <1>3, <1>4, Zenon DEF TypeOK, history
<1>6. Shaped(q)' /\ Late(q)'
  <2>1. Shaped(q)'
    BY <1>1, <1>2, <1>3, <1>4, Zenon DEF Shaped, Labels, SameRequest, Row
  <2>2. Late(q)'
    BY <1>2, <1>4, Zenon DEF Late, SameRequest
  <2> QED
    BY <2>1, <2>2
<1>7. ASSUME NEW r \in Requests \ {q} PROVE Shaped(r)' /\ Late(r)'
  <2>1. Shaped(r) /\ Late(r)
    BY Zenon DEF IInv
  <2> QED
    BY <1>3, <1>4, <2>1, OtherRequest
<1>8. ChangesAreLogged'
  <2>1. ASSUME NEW v \in Users PROVE Changes(v)' = Changes(v)
    BY <1>1, <1>3, <1>4, SMTT(30) DEF TypeOK, Changes, SameRequest
  <2> QED
    BY <1>3, <2>1, Zenon DEF IInv, ChangesAreLogged, Changes, history
<1>9. ChangeEndsSessions' /\ AnsweredIsLogged'
  BY <1>3, <1>4 DEF IInv, ChangeEndsSessions, AnsweredIsLogged, Live, Row, history
<1> QED
  BY <1>5, <1>6, <1>7, <1>8, <1>9, ZenonT(30) DEF IInv

\* Raw evidence and entries are answered with "ok" only after the row.
LEMMA LogStep ==
    ASSUME IInv, NEW q \in Requests, NEW fate \in Fates, Log(q, fate)
    PROVE  IInv'
<1> DEFINE status == IF fate # "ok" /\ MustLog(req[q].op) THEN "failed" ELSE "ok"
<1>1. TypeOK /\ Shaped(q) /\ Late(q) /\ req[q].pc = "log"
  BY DEF IInv, Log, At
<1>2. req[q].op # "password" /\ ~req[q].late
  BY <1>1 DEF Shaped, Late, Labels, TypeOK, Request, AllOps
<1>3. /\ UNCHANGED <<now, active, password, sessions, reviews, catalog, counters, history>>
      /\ log' = IF Took(fate) THEN log \cup {q} ELSE log
      /\ Answer(q, status) /\ Statement(fate)
  BY DEF Log
<1>4. status \in {"ok", "failed"}
      /\ (status = "ok" /\ req[q].op \in {"raw", "catalog"} => Took(fate))
  BY Zenon DEF MustLog, Took
<1> HIDE DEF status
<1>5. /\ req' \in [Requests -> Request]
      /\ \A r \in Requests \ {q} : req'[r] = req[r]
      /\ SameRequest(q) /\ req'[q].pc = "done" /\ req'[q].status = status
  BY <1>1, <1>3, <1>4, Answers, Zenon DEF Status
<1>6. TypeOK'
  BY <1>1, <1>3, <1>5, Faults, Zenon DEF TypeOK, history
<1>7. Shaped(q)' /\ Late(q)'
  <2>1. Shaped(q)'
    BY <1>1, <1>3, <1>5, Zenon DEF Shaped, SameRequest, Row
  <2>2. Late(q)'
    BY <1>2, <1>5 DEF Late, SameRequest
  <2> QED
    BY <2>1, <2>2
<1>8. ASSUME NEW r \in Requests \ {q} PROVE Shaped(r)' /\ Late(r)'
  <2>1. Shaped(r) /\ Late(r)
    BY DEF IInv
  <2> QED
    BY <1>3, <1>5, <2>1, OtherRequest, Zenon
<1>9. ChangesAreLogged'
  <2>1. ASSUME NEW v \in Users PROVE Changes(v)' = Changes(v)
    BY <1>1, <1>2, <1>3, <1>5 DEF TypeOK, Changes, SameRequest
  <2> QED
    BY <1>3, <2>1, Zenon DEF IInv, ChangesAreLogged, Changes, history
<1>10. ChangeEndsSessions'
  BY <1>3, ZenonT(30) DEF IInv, ChangeEndsSessions, Live, Row, history
<1>11. AnsweredIsLogged'
  BY <1>3, <1>4, <1>5, Zenon DEF IInv, AnsweredIsLogged, SameRequest
<1> QED
  BY <1>6, <1>7, <1>8, <1>9, <1>10, <1>11, ZenonT(30) DEF IInv

\* The change of a password: of the sessions of its user only the caller's stays live,
\* and the log gets the row the new version counts.
LEMMA ChangeUserPasswordStep ==
    ASSUME IInv, NEW q \in Requests, NEW fate \in Fates, ChangeUserPassword(q, fate)
    PROVE  IInv'
<1> DEFINE u == req[q].user
           c == req[q].cookie
           status == IF fate = "ok" THEN "ok" ELSE "failed"
<1>1. TypeOK /\ Shaped(q) /\ Late(q) /\ req[q].pc = "change" /\ req[q].new \in Passwords
  BY DEF IInv, ChangeUserPassword, At, TypeOK, Request
<1>2. /\ req[q].op = "password" /\ ~Row(q) /\ ~req[q].late /\ u \in Users
      /\ q \notin log \cup reviews /\ catalog # q /\ sessions[c].user = u
  BY <1>1 DEF Shaped, Late, Labels, TypeOK, Request, AllOps
<1>3. /\ UNCHANGED <<now, active, reviews, catalog, counters, admitted>>
      /\ Answer(q, status) /\ Statement(fate)
  BY DEF ChangeUserPassword
<1>4. status \in {"ok", "failed"} /\ (status = "ok" => Took(fate))
  BY DEF Took
<1> HIDE DEF status
<1>5. /\ req' \in [Requests -> Request]
      /\ \A r \in Requests \ {q} : req'[r] = req[r]
      /\ SameRequest(q) /\ req'[q].pc = "done" /\ req'[q].status = status
  BY <1>1, <1>3, <1>4, Answers, ZenonT(30) DEF Status
<1>6. CASE ~Took(fate)
  <2>1. UNCHANGED <<password, version, sessions, log>>
    BY <1>6, Zenon DEF ChangeUserPassword
  <2>2. TypeOK'
    BY <1>1, <1>3, <1>5, <2>1, Faults DEF TypeOK
  <2> QED
    BY <1>1, <1>2, <1>3, <1>4, <1>5, <1>6, <2>1, <2>2, QuietStep, Zenon
<1>7. CASE Took(fate)
  <2>1. /\ password' = [password EXCEPT ![u] = req[q].new]
        /\ version' = [version EXCEPT ![u] = @ + 1]
        /\ log' = log \cup {q}
        /\ sessions' = [s \in SessionIds |->
               IF Revoked(q, s) THEN [sessions[s] EXCEPT !.revoked = TRUE]
               ELSE IF s = c THEN [sessions[s] EXCEPT !.kept = version[u] + 1]
                             ELSE sessions[s]]
    BY <1>7, ZenonT(30) DEF ChangeUserPassword
  <2>2. ASSUME NEW s \in SessionIds
        PROVE  /\ sessions'[s] \in Session
               /\ sessions'[s].user = sessions[s].user
               /\ sessions'[s].expires = sessions[s].expires
               /\ sessions[s].revoked => sessions'[s].revoked
               /\ Revoked(q, s) => sessions'[s].revoked
               /\ s = c => sessions'[s].kept = version[u] + 1
               /\ s # c => sessions'[s].opened = sessions[s].opened
                           /\ sessions'[s].kept = sessions[s].kept
    <3>1. sessions[s] \in Session /\ version[u] + 1 \in Nat
      <4>1. sessions[s] \in Session
        BY <1>1, Zenon DEF TypeOK
      <4>2. version[u] \in Nat
        BY <1>1, <1>2 DEF TypeOK
      <4> QED
        BY <4>1, <4>2
    <3>2. CASE Revoked(q, s)
      <4>1. sessions'[s] = [sessions[s] EXCEPT !.revoked = TRUE] /\ s # c
        BY <2>1, <3>2 DEF Revoked
      <4> QED
        BY <3>1, <4>1, Zenon DEF Session
    <3>3. CASE ~Revoked(q, s) /\ s = c
      <4>1. sessions'[s] = [sessions[s] EXCEPT !.kept = version[u] + 1]
        BY <2>1, <3>3
      <4> QED
        BY <3>1, <3>3, <4>1 DEF Session
    <3>4. CASE ~Revoked(q, s) /\ s # c
      BY <2>1, <3>1, <3>4
    <3> QED
      BY <3>2, <3>3, <3>4, Zenon
  <2>3. sessions' \in [SessionIds -> Session]
    BY <2>1, <2>2
  <2>4. TypeOK'
    BY <1>1, <1>2, <1>3, <1>5, <2>1, <2>3, Faults DEF TypeOK
  <2>5. \A s \in SessionIds : (Row(s)' <=> Row(s)) /\ (Live(s)' => Live(s) /\ ~Revoked(q, s))
    BY <1>3, <2>2, Zenon DEF Row, Live
  <2>6. Shaped(q)' /\ Late(q)'
    <3>1. q \in SessionIds /\ c \in SessionIds /\ Row(c)
      BY <1>1, <1>2, Zenon DEF TypeOK, Request, SessionIds, Shaped
    <3> QED
      BY <1>1, <1>2, <1>5, <2>2, <2>5, <3>1, ZenonT(30) DEF Shaped, Late, SameRequest
  <2>7. ASSUME NEW r \in Requests \ {q} PROVE Shaped(r)' /\ Late(r)'
    <3>1. Shaped(r) /\ Late(r) /\ r \in SessionIds /\ req[r].cookie \in SessionIds
      BY <1>1, Zenon DEF IInv, TypeOK, Request, SessionIds
    <3>2. Shaped(r)'
      BY <1>3, <1>5, <2>1, <2>2, <2>5, <3>1 DEF Shaped
    <3>3. Late(r)'
      BY <1>3, <1>5, <2>1, <2>5, <3>1, Zenon DEF Late, Ended
    <3> QED
      BY <3>2, <3>3
  <2>8. ChangeEndsSessions'
    <3>1. SUFFICES ASSUME NEW s \in SessionIds, Live(s)'
                   PROVE  version'[sessions'[s].user] \in {sessions'[s].opened, sessions'[s].kept}
      BY Zenon DEF ChangeEndsSessions
    <3>2. /\ Live(s) /\ ~Revoked(q, s) /\ sessions'[s].user = sessions[s].user
          /\ sessions[s].user \in Users
      BY <1>1, <2>2, <2>5, <3>1 DEF TypeOK, Session, Live, Row
    <3>3. version[sessions[s].user] \in {sessions[s].opened, sessions[s].kept}
      BY <3>2, ZenonT(30) DEF IInv, ChangeEndsSessions
    <3>4. CASE sessions[s].user = u
      <4>1. s = c /\ version'[u] = version[u] + 1
        BY <1>1, <1>2, <2>1, <3>2, <3>4, Zenon DEF Revoked, TypeOK
      <4> QED
        BY <2>2, <3>2, <3>4, <4>1, Zenon
    <3>5. CASE sessions[s].user # u
      <4>1. s # c /\ version'[sessions[s].user] = version[sessions[s].user]
        BY <1>1, <1>2, <2>1, <3>2, <3>5, Zenon DEF TypeOK
      <4> QED
        BY <2>2, <3>2, <3>3, <4>1, Zenon
    <3> QED
      BY <3>4, <3>5
  <2>9. ChangesAreLogged'
    <3>1. SUFFICES ASSUME NEW v \in Users PROVE version'[v] = Cardinality(Changes(v)')
      BY ZenonT(30) DEF ChangesAreLogged, Changes
    <3>2. version[v] = Cardinality(Changes(v)) /\ version[v] \in Nat
      BY <1>1 DEF IInv, ChangesAreLogged, Changes, TypeOK
    <3>3. CASE v = u
      <4>1. Changes(v)' = Changes(v) \cup {q} /\ q \notin Changes(v)
        BY <1>1, <1>2, <1>5, <2>1, <3>3, SMTT(30) DEF TypeOK, Changes, SameRequest
      <4>2. IsFiniteSet(Changes(v))
        BY <1>1, AdminAssumption, FS_Subset DEF TypeOK, Changes
      <4>3. Cardinality(Changes(v) \cup {q}) = Cardinality(Changes(v)) + 1
        BY <4>1, <4>2, FS_AddElement, Zenon
      <4> QED
        BY <1>1, <2>1, <3>2, <3>3, <4>1, <4>3 DEF TypeOK
    <3>4. CASE v # u
      <4>1. Changes(v)' = Changes(v)
        BY <1>1, <1>2, <1>5, <2>1, <3>4 DEF TypeOK, Changes, SameRequest
      <4> QED
        BY <1>1, <2>1, <3>2, <3>4, <4>1 DEF TypeOK
    <3> QED
      BY <3>3, <3>4, Zenon
  <2>10. AnsweredIsLogged'
    BY <1>2, <1>5, <2>1 DEF IInv, AnsweredIsLogged, SameRequest
  <2> QED
    BY <2>4, <2>6, <2>7, <2>8, <2>9, <2>10 DEF IInv
<1> QED
  BY <1>6, <1>7
-----------------------------------------------------------------------------
LEMMA InitIInv ==
    Init => IInv
<1> SUFFICES ASSUME Init PROVE IInv
  BY Zenon
<1>1. PICK plan \in Plans : req = [q \in Requests |-> NoRequest(q, plan[q])]
  BY DEF Init
<1>2. \A q \in Requests : plan[q] \in AllOps
  BY AdminAssumption, Zenon
<1>3. /\ now = 0 /\ active = [u \in Users |-> TRUE] /\ log = {} /\ reviews = {}
      /\ password = [u \in Users |-> FirstPassword] /\ catalog = None
      /\ version = [u \in Users |-> 0] /\ admitted = {} /\ faults = 0
      /\ counters = [k \in Limiters \X Users |-> [count |-> 0, windowEnd |-> 0, win |-> 0]]
  BY DEF Init
<1>4. req \in [Requests -> Request]
  <2>1. \A q \in Requests : NoRequest(q, plan[q]) \in Request
    BY <1>2, AdminAssumption DEF NoRequest, Request, SessionIds, Status
  <2> QED
    BY <1>1, <2>1, Zenon
<1>5. /\ sessions \in [SessionIds -> Session]
      /\ \A s \in SessionIds : sessions[s].opened = 0
      /\ \A q \in Requests : ~Row(q)
  <2>1. sessions = [s \in SessionIds |->
          IF s \in OpenSessions
          THEN [user |-> Owner[s], expires |-> SessionTTL, revoked |-> FALSE,
                opened |-> 0, kept |-> 0]
          ELSE NoSession]
    BY Zenon DEF Init
  <2>2. \A s \in SessionIds : sessions[s] \in Session /\ sessions[s].opened = 0
    BY <2>1, AdminAssumption, Zenon DEF Session, NoSession, SessionIds
  <2>3. \A q \in Requests : ~Row(q)
    BY <2>1, AdminAssumption, Zenon DEF Row, NoSession, SessionIds
  <2> QED
    BY <2>1, <2>2, <2>3, Zenon
<1>6. TypeOK
  <2>1. counters \in [Limiters \X Users -> Counter]
    BY <1>3, Zenon DEF Counter
  <2>2. now \in Times /\ faults \in 0 .. MaxFaults
    BY <1>3, AdminAssumption DEF Times
  <2> QED
    BY <1>3, <1>4, <1>5, <2>1, <2>2, AdminAssumption, Zenon DEF TypeOK
<1>7. \A q \in Requests : req[q].pc = "start" /\ req[q].status = "pending" /\ ~req[q].late
  BY <1>1, Zenon DEF NoRequest
<1>8. \A q \in Requests : Shaped(q) /\ Late(q)
  BY <1>3, <1>5, <1>7, AdminAssumption, Zenon DEF Shaped, Late
<1>9. ChangeEndsSessions
  BY <1>3, <1>5, Zenon DEF ChangeEndsSessions, Live, Row, Session
<1>10. ChangesAreLogged
  <2>1. \A u \in Users : Changes(u) = {}
    BY <1>3 DEF Changes
  <2> QED
    BY <1>3, <2>1, FS_EmptySet, Zenon DEF ChangesAreLogged, Changes
<1>11. AnsweredIsLogged
  BY <1>7 DEF AnsweredIsLogged
<1> QED
  BY <1>6, <1>8, <1>9, <1>10, <1>11 DEF IInv

LEMMA StutterIInv ==
    IInv /\ UNCHANGED vars => IInv'
<1> SUFFICES ASSUME IInv, UNCHANGED vars PROVE IInv'
  BY Zenon
<1>1. now' >= now /\ TypeOK'
  BY DEF IInv, TypeOK, Times, vars, tables, history
<1> QED
  BY <1>1, SessionsStep DEF vars, tables, history

LEMMA NextIInv ==
    IInv /\ [Next]_vars => IInv'
<1> SUFFICES ASSUME IInv, [Next]_vars PROVE IInv'
  OBVIOUS
<1>1. ASSUME NEW q \in Requests, NEW s \in SessionIds, NEW u \in Users,
             NEW given \in Passwords, NEW new \in Passwords, NEW csrf \in BOOLEAN,
             NEW valid \in BOOLEAN, Arrive(q, s, u, given, new, csrf, valid)
      PROVE  IInv'
  BY <1>1, ArriveStep
<1>2. ASSUME NEW q \in Requests, Step(q) PROVE IInv'
  <2>1. CASE Allow(q)
    BY <2>1, AllowStep
  <2>2. ASSUME NEW fate \in Fates, FindUser(q, fate) PROVE IInv'
    BY <2>2, FindUserStep
  <2>3. ASSUME NEW fate \in Fates, CreateSession(q, fate) PROVE IInv'
    BY <2>3, CreateSessionStep, Zenon
  <2>4. ASSUME NEW fate \in Fates, Principal(q, fate) PROVE IInv'
    BY <2>4, PrincipalStep
  <2>5. ASSUME NEW fate \in Fates, RevokeSession(q, fate) PROVE IInv'
    BY <2>5, RevokeSessionStep
  <2>6. ASSUME NEW fate \in Fates, CheckCurrent(q, fate) PROVE IInv'
    BY <2>6, CheckCurrentStep
  <2>7. ASSUME NEW fate \in Fates, ChangeUserPassword(q, fate) PROVE IInv'
    BY <2>7, ChangeUserPasswordStep
  <2>8. ASSUME NEW fate \in Fates, Write(q, fate) PROVE IInv'
    BY <2>8, WriteStep
  <2>9. ASSUME NEW fate \in Fates, Log(q, fate) PROVE IInv'
    BY <2>9, LogStep
  <2>10. ASSUME NEW fate \in Fates, NEW found \in BOOLEAN, Find(q, fate, found) PROVE IInv'
    BY <2>10, FindStep
  <2> QED
    BY <1>2, <2>1, <2>2, <2>3, <2>4, <2>5, <2>6, <2>7, <2>8, <2>9, <2>10, Zenon DEF Step
<1>3. ASSUME NEW u \in Users, SetStatus(u) PROVE IInv'
  BY <1>3, SetStatusStep
<1>4. CASE Restart
  BY <1>4, RestartStep
<1>5. CASE Tick
  BY <1>5, TickStep
<1>6. CASE UNCHANGED vars
  BY <1>6, StutterIInv
<1> QED
  BY <1>1, <1>2, <1>3, <1>4, <1>5, <1>6 DEF Next

\* The strengthening holds throughout.
THEOREM AdminInvariant ==
    Spec => []IInv
BY InitIInv, NextIInv, PTL DEF Spec

\* The variables of the admin API keep their types; among them, a limiter counts only for
\* users there are, and neither its count nor the end of its window is ever negative.
THEOREM AdminTypeCorrect ==
    Spec => []TypeOK
<1>1. IInv => TypeOK
  BY DEF IInv
<1> QED
  BY <1>1, AdminInvariant, PTL

\* A request that comes with a session that has ended reaches no handler (Middleware and
\* the WHERE of PrincipalBySession), for any number of requests, sessions and restarts.
THEOREM EndedSessionsStayOut ==
    Spec => []EndedStaysOut
<1>1. IInv => EndedStaysOut
  <2> SUFFICES ASSUME IInv, NEW q \in Requests, req[q].late
               PROVE  /\ q \notin log \cup reviews
                      /\ catalog # q
                      /\ req[q].op # "logout" =>
                            req[q].pc \in {"session", "done"} /\ req[q].status # "ok"
    BY DEF EndedStaysOut
  <2>1. TypeOK /\ Shaped(q) /\ Late(q)
    BY DEF IInv
  <2> QED
    BY <2>1 DEF Shaped, Late, Labels, TypeOK, Request, AllOps
<1> QED
  BY <1>1, AdminInvariant, PTL

\* After a change of password (ChangeUserPassword's one statement) no session is open that
\* was there before, but the caller's.
THEOREM ChangesEndSessions ==
    Spec => []ChangeEndsSessions
<1>1. IInv => ChangeEndsSessions
  BY DEF IInv
<1> QED
  BY <1>1, AdminInvariant, PTL

\* Passwords change as often as the log says (the statement of ChangeUserPassword writes
\* hash and row together), also when the caller is told that the change failed; and
\* getRawEvidence and createContextCatalogEntry answer "ok" only after their row is in
\* the log.
THEOREM ChangesAndEvidenceLogged ==
    Spec => []ChangesAndEvidenceAreLogged
<1>1. IInv => ChangesAndEvidenceAreLogged
  BY DEF IInv, ChangesAndEvidenceAreLogged
<1> QED
  BY <1>1, AdminInvariant, PTL
-----------------------------------------------------------------------------
(* Rate limits *)

\* What a user was let through in one window of a limiter, and in a span of time.
Through(op, u, w) == {a \in admitted : a.op = op /\ a.user = u /\ a.win = w}
Within(op, u, t) == {a \in admitted : a.op = op /\ a.user = u /\ t <= a.at /\ a.at < t + Window}

\* Of two windows that do not follow each other, the later is at least a window's
\* length later.
Apart(op, u) ==
    \A a, b \in admitted :
        a.op = op /\ a.user = u /\ b.op = op /\ b.user = u /\ a.win + 2 <= b.win
            => a.at + Window <= b.at

\* Where an admission lies, seen from a counter: the last window but one was over
\* before the counter's own began.
Dated(a, c) ==
    /\ a.win <= c.win
    /\ a.win = c.win => a.at < c.windowEnd
    /\ a.win < c.win => a.at + Window < c.windowEnd
    /\ a.win + 2 <= c.win => a.at + Window <= now

\* A counter c of a user has counted the requests of its window, and no window before
\* has let through too many.
Metered(op, u, c) ==
    /\ c.count <= Limit[op]
    /\ Cardinality(Through(op, u, c.win)) <= c.count
    /\ \A w \in Nat : Cardinality(Through(op, u, w)) <= Limit[op]
    /\ \A a \in admitted : a.op = op /\ a.user = u => Dated(a, c)
    /\ Apart(op, u)

Limited(op) == Limit[op] > 0 /\ Window > 0

Meters ==
    /\ IsFiniteSet(admitted)
    /\ \A op \in Limiters, u \in Users :
          Limited(op) => Metered(op, u, counters[<<op, u>>])

LEMMA ThroughIsFinite ==
    ASSUME IsFiniteSet(admitted), NEW op, NEW u, NEW w
    PROVE  IsFiniteSet(Through(op, u, w)) /\ Cardinality(Through(op, u, w)) \in Nat
BY FS_Subset, FS_CardinalityType DEF Through

\* Allow goes on with a counter that is right, and whose window is open.
LEMMA CurrentMeters ==
    ASSUME TypeOK, NEW op \in Limiters, NEW u \in Users, NEW c \in Counter,
           Limited(op), Metered(op, u, c)
    PROVE  /\ Current(c, op) \in Counter
           /\ Metered(op, u, Current(c, op))
           /\ now < Current(c, op).windowEnd
<1>1. /\ now \in Nat /\ Window \in Nat /\ Window > 0 /\ Limit[op] \in Nat
      /\ c.count \in Nat /\ c.windowEnd \in Nat /\ c.win \in Nat
  BY AdminAssumption DEF TypeOK, Times, Counter, Limited, Limiters
<1>2. \A a \in admitted : a.win \in Nat /\ a.at \in Nat
  BY DEF TypeOK, Admission, Times
<1>3. CASE c.windowEnd <= now
  <2> DEFINE d == [count |-> 0, windowEnd |-> now + Window, win |-> c.win + 1]
  <2>1. Current(c, op) = d
    BY <1>3 DEF Current
  <2>2. /\ d \in Counter /\ d.count = 0 /\ d.windowEnd = now + Window /\ d.win = c.win + 1
        /\ now < d.windowEnd
    BY <1>1 DEF Counter
  <2> HIDE DEF d
  <2>3. \A a \in admitted : a.op = op /\ a.user = u => a.win <= c.win
    BY Zenon DEF Metered, Dated
  <2>4. Through(op, u, d.win) = {}
    BY <1>1, <1>2, <2>2, <2>3 DEF Through
  <2>5. Cardinality(Through(op, u, d.win)) <= d.count
    BY <2>2, <2>4, FS_EmptySet
  <2>6. ASSUME NEW a \in admitted, a.op = op, a.user = u PROVE Dated(a, d)
    <3>1. Dated(a, c)
      BY <2>6 DEF Metered
    <3> QED
      BY <1>1, <1>2, <1>3, <2>2, <3>1 DEF Dated
  <2>7. d.count <= Limit[op]
    BY <1>1, <2>2
  <2>8. (\A w \in Nat : Cardinality(Through(op, u, w)) <= Limit[op]) /\ Apart(op, u)
    BY Zenon DEF Metered
  <2>9. Metered(op, u, d)
    BY <2>5, <2>6, <2>7, <2>8, Zenon DEF Metered
  <2> QED
    BY <2>1, <2>2, <2>9
<1>4. CASE ~(c.windowEnd <= now)
  BY <1>1, <1>4 DEF Current
<1> QED
  BY <1>3, <1>4, Zenon

\* A request that is let through is counted; one that is not changes nothing.
LEMMA AllowMeters ==
    ASSUME IInv, IsFiniteSet(admitted), NEW q \in Requests, Allow(q),
           NEW op \in Limiters, NEW u \in Users, req[q].op = op, req[q].user = u,
           Limited(op), Metered(op, u, counters[<<op, u>>])
    PROVE  Metered(op, u, counters[<<op, u>>])'
<1> DEFINE key == <<op, u>>
<1>1. /\ TypeOK /\ key \in Limiters \X Users /\ counters \in [Limiters \X Users -> Counter]
      /\ counters[key] \in Counter /\ admitted \subseteq Admission
  BY Zenon DEF IInv, TypeOK
<1>2. PICK c \in Counter :
          c = Current(counters[key], op) /\ Metered(op, u, c) /\ now < c.windowEnd
  BY <1>1, CurrentMeters
<1> DEFINE ok == c.count < Limit[op]
<1>3. PICK next : next = IF ok THEN [c EXCEPT !.count = @ + 1] ELSE c
  BY Zenon
<1>new. PICK new : new = [req |-> q, op |-> op, user |-> u, at |-> now, win |-> c.win]
  BY Zenon
<1>4. new.op = op /\ new.user = u /\ new.at = now /\ new.win = c.win
  BY <1>new, Zenon
<1>5. /\ counters' = [counters EXCEPT ![key] = next] /\ now' = now
      /\ admitted' = IF ok THEN admitted \cup {new} ELSE admitted
  BY <1>2, <1>3, <1>new, ZenonT(30) DEF Allow, Limited
<1>6. /\ now \in Nat /\ Window \in Nat /\ Window > 0 /\ Limit[op] \in Nat
      /\ c.count \in Nat /\ c.windowEnd \in Nat /\ c.win \in Nat
      /\ \A a \in admitted : a.win \in Nat /\ a.at \in Nat
  BY <1>1, AdminAssumption, SMTT(30) DEF TypeOK, Times, Counter, Limited, Limiters, Admission
<1>7. counters'[key] = next
  BY <1>1, <1>5
<1>8. CASE ~ok
  <2>1. UNCHANGED admitted /\ next = c
    BY <1>3, <1>5, <1>8
  <2> QED
    BY <1>2, <1>5, <1>7, <2>1, ZenonT(30) DEF Metered, Through, Dated, Apart
<1>9. CASE ok
  <2>1. admitted' = admitted \cup {new}
    BY <1>5, <1>9
  <2>2. next.count = c.count + 1 /\ next.windowEnd = c.windowEnd /\ next.win = c.win
    BY <1>3, <1>9, ZenonT(30) DEF Counter
  <2>3. next.count <= Limit[op]
    BY <1>6, <1>9, <2>2
  <2>4. Through(op, u, c.win)' = Through(op, u, c.win) \cup {new}
    BY <1>4, <2>1, ZenonT(30) DEF Through
  <2>5. Cardinality(Through(op, u, c.win)') <= next.count
    <3>1. /\ IsFiniteSet(Through(op, u, c.win)) /\ Cardinality(Through(op, u, c.win)) \in Nat
          /\ Cardinality(Through(op, u, c.win)) <= c.count
      BY <1>2, ThroughIsFinite, ZenonT(30) DEF Metered
    <3>2. \/ Cardinality(Through(op, u, c.win) \cup {new}) = Cardinality(Through(op, u, c.win))
          \/ Cardinality(Through(op, u, c.win) \cup {new}) = Cardinality(Through(op, u, c.win)) + 1
      BY <3>1, FS_AddElement, Zenon
    <3>3. PICK n \in Nat : n = Cardinality(Through(op, u, c.win)) /\ n <= c.count
      BY <3>1, Zenon
    <3>4. PICK m : m = Cardinality(Through(op, u, c.win)')
      OBVIOUS
    <3>5. m = n \/ m = n + 1
      BY <2>4, <3>2, <3>3, <3>4, Zenon
    <3>6. m <= c.count + 1
      BY <1>6, <3>3, <3>5
    <3> QED
      BY <2>2, <3>4, <3>6, Zenon
  <2>6. ASSUME NEW w \in Nat PROVE Cardinality(Through(op, u, w)') <= Limit[op]
    <3>1. CASE w = c.win
      <4>1. Through(op, u, w)' = Through(op, u, c.win) \cup {new}
        BY <2>1, <1>4, <3>1 DEF Through
      <4>2. Cardinality(Through(op, u, w)') <= next.count /\ Cardinality(Through(op, u, w)') \in Nat
        <5>1. IsFiniteSet(Through(op, u, c.win) \cup {new})
          BY ThroughIsFinite, FS_AddElement, Zenon
        <5> QED
          BY <2>4, <2>5, <4>1, <5>1, FS_CardinalityType, ZenonT(30)
      <4> QED
        BY <1>6, <2>2, <2>3, <4>2, SMTT(30)
    <3>2. CASE w # c.win
      <4>1. Through(op, u, w)' = Through(op, u, w)
        BY <1>4, <2>1, <3>2, Zenon DEF Through
      <4> QED
        BY <1>2, <4>1, Zenon DEF Metered
    <3> QED
      BY <3>1, <3>2, Zenon
  <2>7. ASSUME NEW a \in admitted', a.op = op, a.user = u PROVE Dated(a, next)'
    <3>1. CASE a = new
      BY <1>2, <1>4, <1>5, <1>6, <2>2, <3>1 DEF Dated
    <3>2. CASE a \in admitted
      <4>1. Dated(a, c)
        BY <1>2, <2>7, <3>2, ZenonT(30) DEF Metered
      <4> QED
        BY <1>5, <2>2, <4>1 DEF Dated
    <3> QED
      BY <2>1, <3>1, <3>2, ZenonT(30)
  <2>8. Apart(op, u)'
    <3> SUFFICES ASSUME NEW a \in admitted', NEW b \in admitted', a.op = op, a.user = u,
                        b.op = op, b.user = u, a.win + 2 <= b.win
                 PROVE  a.at + Window <= b.at
      BY DEF Apart
    <3>1. CASE a \in admitted /\ b \in admitted
      BY <1>2, <3>1, Zenon DEF Metered, Apart
    <3>2. CASE a \in admitted /\ b = new
      <4>1. Dated(a, c)
        BY <1>2, <3>2, ZenonT(30) DEF Metered
      <4> QED
        BY <1>4, <3>2, <4>1 DEF Dated
    <3>3. CASE a = new /\ b \in admitted
      <4>1. b.win <= c.win
        BY <1>2, <3>3, ZenonT(30) DEF Metered, Dated
      <4> QED
        BY <1>4, <1>6, <3>3, <4>1
    <3>4. CASE a = new /\ b = new
      BY <1>4, <1>6, <3>4
    <3> QED
      BY <2>1, <3>1, <3>2, <3>3, <3>4, Zenon
  <2> QED
    BY <1>7, <2>2, <2>3, <2>5, <2>6, <2>7, <2>8, Zenon DEF Metered
<1> QED
  BY <1>8, <1>9

\* A step that lets nobody of a user through leaves what is known of the user's windows.
LEMMA SameMeter ==
    ASSUME TypeOK, NEW op \in Limiters, NEW u \in Users, Metered(op, u, counters[<<op, u>>]),
           counters'[<<op, u>>] = counters[<<op, u>>], now' \in Nat, now <= now',
           {a \in admitted' : a.op = op /\ a.user = u}
               = {a \in admitted : a.op = op /\ a.user = u}
    PROVE  Metered(op, u, counters[<<op, u>>])'
<1>1. PICK c \in Counter : c = counters[<<op, u>>]
  BY Zenon DEF TypeOK
<1>2. \A w : Through(op, u, w)' = Through(op, u, w)
  BY Zenon DEF Through
<1>3. ASSUME NEW a \in admitted', a.op = op, a.user = u PROVE Dated(a, c)'
  <2>1. a \in admitted
    BY <1>3, Zenon
  <2>2. Dated(a, c)
    BY <1>1, <1>3, <2>1, Zenon DEF Metered
  <2>3. a.at \in Nat /\ Window \in Nat /\ now \in Nat
    BY <2>1, AdminAssumption DEF TypeOK, Admission, Times
  <2>4. a.at + Window <= now => a.at + Window <= now'
    BY <2>3
  <2> QED
    BY <2>2, <2>4 DEF Dated
<1>4. Apart(op, u)'
  <2>1. \A a \in admitted' : a.op = op /\ a.user = u => a \in admitted
    BY Zenon
  <2> QED
    BY <2>1, Zenon DEF Metered, Apart
<1>5. /\ c.count <= Limit[op] /\ Cardinality(Through(op, u, c.win)') <= c.count
      /\ \A w \in Nat : Cardinality(Through(op, u, w)') <= Limit[op]
  BY <1>1, <1>2, Zenon DEF Metered
<1> QED
  BY <1>1, <1>3, <1>4, <1>5, ZenonT(30) DEF Metered

\* The limiters of a process that begins have let nobody through.
Unused == /\ admitted = {}
          /\ counters = [k \in Limiters \X Users |-> [count |-> 0, windowEnd |-> 0, win |-> 0]]

LEMMA UnusedMeters == Unused => Meters
<1> SUFFICES ASSUME Unused PROVE Meters
  OBVIOUS
<1> USE DEF Unused
<1>1. IsFiniteSet(admitted)
  BY FS_EmptySet, ZenonT(30)
<1>2. ASSUME NEW op \in Limiters, NEW u \in Users PROVE Metered(op, u, counters[<<op, u>>])
  <2>1. counters[<<op, u>>].count = 0 /\ Limit[op] \in Nat
    BY AdminAssumption DEF Limiters
  <2>2. \A w : Cardinality(Through(op, u, w)) = 0
    <3>1. \A w : Through(op, u, w) = {}
      BY DEF Through
    <3> QED
      BY <3>1, FS_EmptySet, Zenon
  <2> QED
    BY <2>1, <2>2 DEF Metered, Apart
<1> QED
  BY <1>1, <1>2 DEF Meters

LEMMA MetersStep ==
    ASSUME IInv, Meters, [Next]_vars
    PROVE  Meters'
<1>1. TypeOK /\ now \in Nat /\ MaxTime \in Nat
  BY AdminAssumption DEF IInv, TypeOK, Times
<1>2. ASSUME UNCHANGED <<counters, admitted>>, now' = now \/ now' = now + 1 PROVE Meters'
  <2>1. now' \in Nat /\ now <= now'
    BY <1>1, <1>2
  <2> QED
    BY <1>1, <1>2, <2>1, SameMeter DEF Meters
<1>3. ASSUME NEW q \in Requests, Allow(q) PROVE Meters'
  <2>1. Shaped(q) /\ req[q].pc = "limit" /\ req[q] \in Request
    BY <1>1, <1>3 DEF IInv, Allow, At, TypeOK
  <2>2. PICK op \in Limiters, u \in Users : op = req[q].op /\ u = req[q].user
    BY <2>1, Zenon DEF Shaped, Labels, Request, AllOps, Limiters
  <2>3. PICK new : /\ new.op = op /\ new.user = u
                   /\ admitted' = admitted \/ admitted' = admitted \cup {new}
    <3>1. PICK new : /\ new = [req |-> q, op |-> op, user |-> u, at |-> now,
                               win |-> Current(counters[<<op, u>>], op).win]
                     /\ admitted' = admitted \/ admitted' = admitted \cup {new}
      BY <1>3, <2>2, ZenonT(30) DEF Allow
    <3> QED
      BY <3>1
  <2>4. /\ now' = now
        /\ \A key \in Limiters \X Users : key # <<op, u>> => counters'[key] = counters[key]
    BY <1>1, <1>3, <2>2, Zenon DEF Allow, TypeOK
  <2>5. IsFiniteSet(admitted')
    BY <2>3, FS_AddElement, Zenon DEF Meters
  <2>6. ASSUME NEW op2 \in Limiters, NEW u2 \in Users, Limited(op2)
        PROVE  Metered(op2, u2, counters[<<op2, u2>>])'
    <3>1. CASE op2 = op /\ u2 = u
      BY <1>3, <2>2, <2>6, <3>1, AllowMeters, Zenon DEF Meters
    <3>2. CASE ~(op2 = op /\ u2 = u)
      <4>1. counters'[<<op2, u2>>] = counters[<<op2, u2>>]
        BY <2>4, <3>2
      <4>2. {a \in admitted' : a.op = op2 /\ a.user = u2}
                = {a \in admitted : a.op = op2 /\ a.user = u2}
        BY <2>3, <3>2
      <4>3. now' \in Nat /\ now <= now'
        BY <1>1, <2>4
      <4> QED
        BY <1>1, <2>6, <4>1, <4>2, <4>3, SameMeter, Zenon DEF Meters
    <3> QED
      BY <3>1, <3>2, Zenon
  <2> QED
    BY <2>5, <2>6, Zenon DEF Meters, Limited
<1>4. CASE Restart
  <2>1. Unused'
    BY <1>4, Zenon DEF Restart, Unused
  <2> QED
    BY <2>1, UnusedMeters, PTL
<1>5. CASE Tick
  BY <1>2, <1>5 DEF Tick, history
<1>6. ASSUME NEW q \in Requests, Step(q), ~Allow(q) PROVE UNCHANGED <<now, counters, admitted>>
  BY <1>6, Zenon DEF Step, FindUser, CreateSession, Principal, RevokeSession, CheckCurrent,
              ChangeUserPassword, Write, CreateReview, CreateContextCatalogEntry, WriteRow, Log,
              Find, history
<1>7. ASSUME \/ \E u \in Users : SetStatus(u)
             \/ UNCHANGED vars
             \/ \E q \in Requests, s \in SessionIds, u \in Users, given, new \in Passwords,
                   csrf, valid \in BOOLEAN : Arrive(q, s, u, given, new, csrf, valid)
      PROVE  UNCHANGED <<now, counters, admitted>>
  BY <1>7 DEF SetStatus, vars, history, Arrive
<1> QED
  BY <1>2, <1>3, <1>4, <1>5, <1>6, <1>7, SMTT(30) DEF Next

\* In any time as long as its window, MemoryRateLimiter.Allow lets through at most twice
\* its limit of a user's requests: the time touches at most two windows, each of which
\* has a counter of its own.
THEOREM LimitersLimit ==
    Spec => []RateLimited
<1>1. Init => Meters
  BY UnusedMeters, Zenon DEF Init, Unused
<1>2. IInv /\ Meters => RateLimited
  <2> SUFFICES ASSUME IInv, Meters, NEW op \in Limiters, NEW u \in Users, NEW t \in Times,
                      Limit[op] > 0 /\ Window > 0
               PROVE  Cardinality(Within(op, u, t)) <= 2 * Limit[op]
    BY DEF RateLimited, Within
  <2>1. Metered(op, u, counters[<<op, u>>]) /\ IsFiniteSet(admitted)
    BY DEF Meters, Limited
  <2>2. Limit[op] \in Nat /\ Window \in Nat /\ t \in Nat
    BY AdminAssumption DEF Limiters, Times
  <2>3. \A a \in admitted : a.win \in Nat /\ a.at \in Nat
    BY DEF IInv, TypeOK, Admission, Times
  <2>4. ASSUME NEW a \in Within(op, u, t), NEW b \in Within(op, u, t) PROVE b.win <= a.win + 1
    <3>1. ~(a.at + Window <= b.at)
      BY <2>2, <2>3 DEF Within
    <3>2. ~(a.win + 2 <= b.win)
      BY <2>1, <3>1, Zenon DEF Metered, Apart, Within
    <3> QED
      BY <2>3, <3>2 DEF Within
  <2>5. PICK v \in Nat, w \in Nat : Within(op, u, t) \subseteq Through(op, u, v) \cup Through(op, u, w)
    <3>1. CASE Within(op, u, t) = {}
      BY <3>1, Zenon
    <3>2. CASE \E a, b \in Within(op, u, t) : a.win < b.win
      <4>1. PICK a \in Within(op, u, t), b \in Within(op, u, t) : a.win < b.win
        BY <3>2
      <4>2. a.win \in Nat /\ b.win \in Nat
        BY <2>3 DEF Within
      <4>3. ASSUME NEW e \in Within(op, u, t) PROVE e.win = a.win \/ e.win = b.win
        <5>1. e.win \in Nat
          BY <2>3 DEF Within
        <5>2. b.win <= a.win + 1 /\ e.win <= a.win + 1 /\ b.win <= e.win + 1
          BY <2>4
        <5> QED
          BY <4>1, <4>2, <5>1, <5>2
      <4> QED
        BY <4>2, <4>3 DEF Within, Through
    <3>3. CASE Within(op, u, t) # {} /\ ~\E a, b \in Within(op, u, t) : a.win < b.win
      <4>1. PICK a \in Within(op, u, t) : TRUE
        BY <3>3, Zenon
      <4>2. \A e \in Within(op, u, t) : e.win = a.win /\ a.win \in Nat
        BY <2>3, <3>3 DEF Within
      <4> QED
        BY <4>2 DEF Within, Through
    <3> QED
      BY <3>1, <3>2, <3>3
  <2>6. /\ IsFiniteSet(Through(op, u, v)) /\ Cardinality(Through(op, u, v)) \in Nat
        /\ IsFiniteSet(Through(op, u, w)) /\ Cardinality(Through(op, u, w)) \in Nat
        /\ Cardinality(Through(op, u, v)) <= Limit[op]
        /\ Cardinality(Through(op, u, w)) <= Limit[op]
    BY <2>1, ThroughIsFinite, Zenon DEF Metered
  <2>7. /\ IsFiniteSet(Through(op, u, v) \cup Through(op, u, w))
        /\ Cardinality(Through(op, u, v) \cup Through(op, u, w))
              <= Cardinality(Through(op, u, v)) + Cardinality(Through(op, u, w))
    <3>0. Through(op, u, v) \cap Through(op, u, w) \in SUBSET Through(op, u, v)
      OBVIOUS
    <3>1. Cardinality(Through(op, u, v) \cap Through(op, u, w)) \in Nat
      BY <2>6, <3>0, FS_Subset, FS_CardinalityType
    <3>2. IsFiniteSet(Through(op, u, v) \cup Through(op, u, w))
      BY <2>6, FS_Union, Zenon
    <3>3. Cardinality(Through(op, u, v) \cup Through(op, u, w))
              = Cardinality(Through(op, u, v)) + Cardinality(Through(op, u, w))
                - Cardinality(Through(op, u, v) \cap Through(op, u, w))
      BY <2>6, FS_Union, Zenon
    <3> QED
      BY <2>6, <3>1, <3>2, <3>3
  <2>8. Cardinality(Within(op, u, t)) <= Cardinality(Through(op, u, v) \cup Through(op, u, w))
        /\ Cardinality(Within(op, u, t)) \in Nat
    BY <2>5, <2>7, FS_Subset, FS_CardinalityType, Zenon
  <2>9. Cardinality(Through(op, u, v) \cup Through(op, u, w)) \in Nat
    BY <2>7, FS_CardinalityType
  <2> QED
    BY <2>2, <2>6, <2>7, <2>8, <2>9
<1> QED
  BY <1>1, <1>2, MetersStep, AdminInvariant, PTL DEF Spec
=============================================================================

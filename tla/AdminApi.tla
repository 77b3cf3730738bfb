------------------------------ MODULE AdminApi ------------------------------
(***************************************************************************)
(* internal/admin: the requests of the admin API that change something or  *)
(* reveal something: login, logout, a change of password, a context        *)
(* catalog entry, a review, a key lookup and an access to raw evidence.    *)
(* Requests run concurrently; every statement sent to the database is one  *)
(* step, and so is every call of a rate limiter.                           *)
(*                                                                         *)
(* CheckPassword compares with a hash, so a hash is its password.  Session *)
(* cookies are signed, so a cookie that verifies names a session of the    *)
(* gateway; a request makes a session of its own name.  The csrf token of  *)
(* a session is reduced to whether a request carries it, a body to whether *)
(* it is valid.  last_seen_at, which nothing reads, is left out.           *)
(***************************************************************************)
EXTENDS Integers, FiniteSets

CONSTANTS Requests,
          Users, Role,          \* the rows of audit_users, and role of each
          OpenSessions, Owner,  \* sessions that are open from the start
          Passwords, FirstPassword,
          Plans,                \* which operations are asked for together
          SessionTTL,           \* 12 hours, in ticks
          Limit, Window,        \* of lookupLimiter and rawLimiter
          MaxTime,              \* bound: the last tick
          MaxFaults             \* bound: failing statements and restarts

None == "none"
AllOps == {"login", "logout", "password", "catalog", "review", "lookup", "raw"}

ASSUME AdminAssumption ==
    /\ IsFiniteSet(Requests) /\ IsFiniteSet(OpenSessions)
    /\ Requests \cap OpenSessions = {}
    /\ Role \in [Users -> {"viewer", "auditor", "raw_access", "admin"}]
    /\ Owner \in [OpenSessions -> Users]
    /\ FirstPassword \in Passwords
    /\ None \notin Users \cup Requests
    /\ Plans \subseteq [Requests -> AllOps]
    /\ Limit \in [{"lookup", "raw"} -> Nat]
    /\ {SessionTTL, Window, MaxTime, MaxFaults} \subseteq Nat

VARIABLES
    now,
    active, password,  \* the columns of audit_users that change
    sessions,          \* audit_sessions
    req,               \* the requests
    log,               \* audit_action_logs: requests with a row
    reviews,           \* review_decisions: requests with a row
    catalog,           \* context_catalog: who has last written the one entry
    counters,          \* the counters of the two limiters, per user
    version,           \* for the properties: how often a password was changed,
    admitted,          \* what a limiter has let through, and when,
    faults

tables == <<active, password, sessions, log, reviews, catalog>>
history == <<version, admitted>>
vars == <<now, tables, req, counters, history, faults>>

Limiters == {"lookup", "raw"}
SessionIds == Requests \cup OpenSessions
Times == 0 .. MaxTime

\* opened and kept are for the properties: the version of the password when the
\* session was inserted, and the last one it has itself brought about.
Session == [user : Users \cup {None}, expires : Nat, revoked : BOOLEAN, opened : Nat, kept : Nat]
NoSession == [user |-> None, expires |-> 0, revoked |-> FALSE, opened |-> 0, kept |-> 0]
Row(s) == sessions[s].user # None
Live(s) == Row(s) /\ ~sessions[s].revoked /\ sessions[s].expires > now
Ended(s) == Row(s) /\ ~Live(s)

Status == {"pending", "ok", "refused", "failed", "broken"}
Request == [pc : {"start", "user", "create", "session", "check", "change", "revoke",
                  "limit", "find", "write", "log", "done"},
            op : AllOps,
            cookie : SessionIds,       \* the session it comes with
            user : Users \cup {None},  \* who logs in, or the principal
            given : Passwords, new : Passwords,
            csrf : BOOLEAN,            \* it carries the session's token
            valid : BOOLEAN,           \* its body or path is well-formed
            known : BOOLEAN,           \* logout: PrincipalBySession found someone
            late : BOOLEAN,            \* for the properties: its session had ended before
            status : Status]
NoRequest(q, op) == [pc |-> "start", op |-> op, cookie |-> q, user |-> None,
                     given |-> FirstPassword, new |-> FirstPassword, csrf |-> TRUE,
                     valid |-> TRUE, known |-> FALSE, late |-> FALSE, status |-> "pending"]

\* A limiter's rateCounter; the zero windowEnd is before every time.
Counter == [count : Nat, windowEnd : Nat, win : Nat]
Admission == [req : Requests, op : Limiters, user : Users, at : Times, win : Nat]

TypeOK ==
    /\ now \in Times
    /\ active \in [Users -> BOOLEAN]
    /\ password \in [Users -> Passwords]
    /\ sessions \in [SessionIds -> Session]
    /\ req \in [Requests -> Request]
    /\ log \subseteq Requests
    /\ reviews \subseteq Requests
    /\ catalog \in Requests \cup {None}
    /\ counters \in [Limiters \X Users -> Counter]
    /\ version \in [Users -> Nat]
    /\ admitted \subseteq Admission
    /\ faults \in 0 .. MaxFaults
-----------------------------------------------------------------------------
(* Rights *)

\* rolePermissions and Role.Allows, for the permission routes() asks for.
Allows(role, op) ==
    CASE op \in {"catalog", "review"} -> role \in {"auditor", "raw_access", "admin"}
      [] op \in {"lookup", "raw"}     -> role \in {"raw_access", "admin"}
      [] OTHER                        -> TRUE

\* routes(): every POST behind Middleware is also behind requireCSRF.
NeedsCSRF(op) == op \in {"password", "catalog", "review", "lookup"}

\* The handler an authenticated request goes on with.
Handler(op) == CASE op = "password" -> "check"
                 [] op \in Limiters -> "limit"
                 [] OTHER           -> "write"
-----------------------------------------------------------------------------
(* Statements and answers *)

\* A statement ends "ok", with an "error", or with an error though it was "done".
Fates == {"ok", "error", "done"}

Statement(fate) ==
    /\ faults' = faults + IF fate = "ok" THEN 0 ELSE 1
    /\ faults' <= MaxFaults

Took(fate) == fate # "error"

At(q, label) == req[q].pc = label

Goto(q, label) == req' = [req EXCEPT ![q].pc = label]

Answer(q, status) == req' = [req EXCEPT ![q].pc = "done", ![q].status = status]

\* The request goes on if ok holds and is answered otherwise.
Proceed(q, ok, label, status) == IF ok THEN Goto(q, label) ELSE Answer(q, status)
-----------------------------------------------------------------------------
\* The inputs an operation does not look at have one value.  A password body that is
\* not well-formed is refused like one whose new password is the current one.
Relevant(op, given, new, csrf, valid) ==
    /\ op \notin {"login", "password"} => given = FirstPassword
    /\ op # "password" => new = FirstPassword
    /\ ~NeedsCSRF(op) => csrf
    /\ op \in {"login", "logout", "password"} => valid

\* A request arrives, with a cookie that verifies or with none at all (refused at
\* once by Middleware; logout has nothing to do then).
Arrive(q, s, u, given, new, csrf, valid) ==
    LET op == req[q].op
    IN  /\ At(q, "start")
        /\ IF op = "login" THEN s = q ELSE Row(s) /\ u = sessions[s].user
        /\ Relevant(op, given, new, csrf, valid)
        /\ req' = [req EXCEPT ![q] =
              [pc |-> IF op = "login" THEN "user" ELSE "session", op |-> op, cookie |-> s,
               user |-> u, given |-> given, new |-> new, csrf |-> csrf, valid |-> valid,
               known |-> FALSE, late |-> op # "login" /\ Ended(s), status |-> "pending"]]
        /\ UNCHANGED <<now, tables, counters, history, faults>>

(* login *)

\* FindActiveUserByUsername and CheckPassword.
FindUser(q, fate) ==
    /\ At(q, "user")
    /\ fate # "done"
    /\ Statement(fate)
    /\ LET u == req[q].user
           right == active[u] /\ password[u] = req[q].given
       IN  Proceed(q, fate = "ok" /\ right, "create",
                   IF fate = "ok" THEN "refused" ELSE "failed")
    /\ UNCHANGED <<now, tables, counters, history>>

\* CreateSession.  The password may have changed since it was checked.
CreateSession(q, fate) ==
    /\ At(q, "create")
    /\ Statement(fate)
    /\ sessions' = IF Took(fate)
                   THEN [sessions EXCEPT ![q] =
                            [user |-> req[q].user, expires |-> now + SessionTTL, revoked |-> FALSE,
                             opened |-> version[req[q].user], kept |-> 0]]
                   ELSE sessions
    /\ Proceed(q, fate = "ok", "log", "failed")
    /\ UNCHANGED <<now, active, password, log, reviews, catalog, counters, history>>
-----------------------------------------------------------------------------
(* Middleware, requireCSRF and Require; logout *)

\* Mutant: a session is looked up without asking whether it was revoked.
Valid_unrevoked(s) == Row(s) /\ sessions[s].expires > now /\ active[sessions[s].user]

\* The WHERE of PrincipalBySession.
Valid(s) == Live(s) /\ active[sessions[s].user]

\* PrincipalBySession, an error of which is as good as no session, and the checks
\* of token and permission.  logout only notes whether it found someone.
Principal(q, fate) ==
    /\ At(q, "session")
    /\ fate # "done"
    /\ Statement(fate)
    /\ LET found == fate = "ok" /\ Valid(req[q].cookie)
           op == req[q].op
       IN  IF op = "logout"
           THEN req' = [req EXCEPT ![q].pc = "revoke", ![q].known = found]
           ELSE Proceed(q, /\ found
                           /\ NeedsCSRF(op) => req[q].csrf
                           /\ Allows(Role[req[q].user], op), Handler(op), "refused")
    /\ UNCHANGED <<now, tables, counters, history>>

\* RevokeSession, whether or not the session is still valid.
RevokeSession(q, fate) ==
    /\ At(q, "revoke")
    /\ Statement(fate)
    /\ sessions' = IF Took(fate) THEN [sessions EXCEPT ![req[q].cookie].revoked = TRUE]
                                 ELSE sessions
    /\ IF fate = "ok" THEN Proceed(q, req[q].known, "log", "ok")
                      ELSE Answer(q, "failed")
    /\ UNCHANGED <<now, active, password, log, reviews, catalog, counters, history>>
-----------------------------------------------------------------------------
(* changePassword *)

\* The body, FindActiveUserByID, and the checks of the current and the new password.
CheckCurrent(q, fate) ==
    /\ At(q, "check")
    /\ fate # "done"
    /\ Statement(fate)
    /\ LET u == req[q].user
           right == active[u] /\ password[u] = req[q].given /\ password[u] # req[q].new
       IN  Proceed(q, fate = "ok" /\ right, "change",
                   IF fate = "ok" THEN "refused" ELSE "failed")
    /\ UNCHANGED <<now, tables, counters, history>>

\* Mutant: the other sessions are left alone when the caller's own has ended.
Revoked_if_live(q, s) == Live(s) /\ sessions[s].user = req[q].user /\ s # req[q].cookie
                         /\ Live(req[q].cookie)

\* The WHERE of revoked_sessions.
Revoked(q, s) == Live(s) /\ sessions[s].user = req[q].user /\ s # req[q].cookie

\* One statement: the new hash, the end of the other sessions, the row of the log.
ChangeUserPassword(q, fate) ==
    LET u == req[q].user
    IN  /\ At(q, "change")
        /\ Statement(fate)
        /\ IF Took(fate)
           THEN /\ password' = [password EXCEPT ![u] = req[q].new]
                /\ version' = [version EXCEPT ![u] = @ + 1]
                /\ sessions' = [s \in SessionIds |->
                       IF Revoked(q, s) THEN [sessions[s] EXCEPT !.revoked = TRUE]
                       ELSE IF s = req[q].cookie
                            THEN [sessions[s] EXCEPT !.kept = version[u] + 1]
                            ELSE sessions[s]]
                /\ log' = log \cup {q}
           ELSE UNCHANGED <<password, version, sessions, log>>
        /\ Answer(q, IF fate = "ok" THEN "ok" ELSE "failed")
        /\ UNCHANGED <<now, active, reviews, catalog, counters, admitted>>
-----------------------------------------------------------------------------
(* Rate limits *)

\* Mutant: a window that is full is started anew.
Current_refilled(c, op) ==
    IF c.windowEnd <= now \/ c.count >= Limit[op]
    THEN [count |-> 0, windowEnd |-> now + Window, win |-> c.win + 1]
    ELSE c

\* The counter Allow goes on with: a new window if the last one is over.
Current(c, op) ==
    IF c.windowEnd <= now
    THEN [count |-> 0, windowEnd |-> now + Window, win |-> c.win + 1]
    ELSE c

\* MemoryRateLimiter.Allow, and the body of the lookup or the path of the evidence.
Allow(q) ==
    LET op == req[q].op
        key == <<op, req[q].user>>
        limited == Limit[op] > 0 /\ Window > 0
        c == Current(counters[key], op)
        ok == limited => c.count < Limit[op]
    IN  /\ At(q, "limit")
        /\ counters' = IF limited
                       THEN [counters EXCEPT ![key] =
                                IF ok THEN [c EXCEPT !.count = @ + 1] ELSE c]
                       ELSE counters
        /\ admitted' = IF ok THEN admitted \cup {[req |-> q, op |-> op, user |-> req[q].user,
                                                  at |-> now, win |-> c.win]}
                             ELSE admitted
        /\ Proceed(q, ok /\ req[q].valid, "find", "refused")
        /\ UNCHANGED <<now, tables, version, faults>>

\* LookupTokenSummary; FindRawEvidenceObject, the store's Get and their failures
\* (not found, no store, not readable).
Find(q, fate, found) ==
    /\ At(q, "find")
    /\ fate # "done"
    /\ Statement(fate)
    /\ Proceed(q, fate = "ok" /\ (req[q].op = "raw" => found), "log",
               IF found THEN "failed" ELSE "refused")
    /\ UNCHANGED <<now, tables, counters, history>>
-----------------------------------------------------------------------------
(* createReview and createContextCatalogEntry *)

\* Both refuse a body that is not valid, and go on to the log when the row is there.
WriteRow(q, fate) ==
    /\ At(q, "write")
    /\ IF req[q].valid
       THEN Statement(fate) /\ Proceed(q, fate = "ok", "log", "failed")
       ELSE fate = "ok" /\ Answer(q, "refused") /\ UNCHANGED faults
    /\ UNCHANGED <<now, active, password, sessions, log, counters, history>>

Inserted(q, fate) == req[q].valid /\ Took(fate)

CreateReview(q, fate) ==
    /\ req[q].op = "review"
    /\ WriteRow(q, fate)
    /\ reviews' = IF Inserted(q, fate) THEN reviews \cup {q} ELSE reviews
    /\ UNCHANGED catalog

\* InsertContextCatalogEntry is an upsert.
CreateContextCatalogEntry(q, fate) ==
    /\ req[q].op = "catalog"
    /\ WriteRow(q, fate)
    /\ catalog' = IF Inserted(q, fate) THEN q ELSE catalog
    /\ UNCHANGED reviews

Write(q, fate) == CreateReview(q, fate) \/ CreateContextCatalogEntry(q, fate)

\* Mutant: no answer depends on the log.
MustLog_never(op) == FALSE

\* Where an error of InsertAuditActionLog is an error of the request.
MustLog(op) == op \in {"raw", "catalog"}

\* InsertAuditActionLog and the answer.  Raw evidence is copied to the client only
\* now.
Log(q, fate) ==
    /\ At(q, "log")
    /\ Statement(fate)
    /\ log' = IF Took(fate) THEN log \cup {q} ELSE log
    /\ Answer(q, IF fate # "ok" /\ MustLog(req[q].op) THEN "failed" ELSE "ok")
    /\ UNCHANGED <<now, active, password, sessions, reviews, catalog, counters, history>>
-----------------------------------------------------------------------------
\* Someone changes the status of a user in the database.
SetStatus(u) ==
    /\ active' = [active EXCEPT ![u] = ~@]
    /\ UNCHANGED <<now, password, sessions, req, log, reviews, catalog, counters,
                   history, faults>>

\* The gateway is restarted: requests break off, the limiters begin anew.
Restart ==
    /\ faults < MaxFaults
    /\ faults' = faults + 1
    /\ req' = [q \in Requests |-> IF At(q, "start") \/ At(q, "done") THEN req[q]
                                  ELSE [req[q] EXCEPT !.pc = "done", !.status = "broken"]]
    /\ counters' = [k \in Limiters \X Users |-> [count |-> 0, windowEnd |-> 0, win |-> 0]]
    /\ admitted' = {}
    /\ UNCHANGED <<now, tables, version>>

Tick ==
    /\ now < MaxTime
    /\ now' = now + 1
    /\ UNCHANGED <<tables, req, counters, history, faults>>
-----------------------------------------------------------------------------
Init ==
    /\ now = 0
    /\ active = [u \in Users |-> TRUE]
    /\ password = [u \in Users |-> FirstPassword]
    /\ sessions = [s \in SessionIds |->
          IF s \in OpenSessions
          THEN [user |-> Owner[s], expires |-> SessionTTL, revoked |-> FALSE,
                opened |-> 0, kept |-> 0]
          ELSE NoSession]
    /\ \E plan \in Plans : req = [q \in Requests |-> NoRequest(q, plan[q])]
    /\ log = {}
    /\ reviews = {}
    /\ catalog = None
    /\ counters = [k \in Limiters \X Users |-> [count |-> 0, windowEnd |-> 0, win |-> 0]]
    /\ version = [u \in Users |-> 0]
    /\ admitted = {}
    /\ faults = 0

Step(q) ==
    \/ Allow(q)
    \/ \E fate \in Fates :
          \/ FindUser(q, fate) \/ CreateSession(q, fate) \/ Principal(q, fate)
          \/ RevokeSession(q, fate) \/ CheckCurrent(q, fate)
          \/ ChangeUserPassword(q, fate) \/ Write(q, fate) \/ Log(q, fate)
          \/ \E found \in BOOLEAN : Find(q, fate, found)

Next ==
    \/ \E q \in Requests :
          \/ /\ At(q, "start")
             /\ \E s \in SessionIds, u \in Users, given, new \in Passwords,
                   csrf, valid \in BOOLEAN : Arrive(q, s, u, given, new, csrf, valid)
          \/ Step(q)
    \/ \E u \in Users : SetStatus(u)
    \/ Restart
    \/ Tick

Spec == Init /\ [][Next]_vars
-----------------------------------------------------------------------------
\* Whoever comes with a session that has ended is not let in: a request that arrives
\* after the session was revoked or has expired writes nothing, is told nothing and
\* reaches no handler.
EndedStaysOut ==
    \A q \in Requests : req[q].late =>
        /\ q \notin log \cup reviews
        /\ catalog # q
        /\ req[q].op # "logout" => req[q].pc \in {"session", "done"} /\ req[q].status # "ok"

\* A change of password ends every other session: of the sessions that are open, each
\* was inserted after the last change or has itself made it.  A login that had
\* checked the old password when it was replaced is one of the former.
ChangeEndsSessions ==
    \A s \in SessionIds : Live(s) =>
        version[sessions[s].user] \in {sessions[s].opened, sessions[s].kept}

\* Every change of password has its row in the log, also one whose caller was told
\* that it failed.
ChangesAreLogged ==
    \A u \in Users :
        version[u] = Cardinality({q \in log : req[q].op = "password" /\ req[q].user = u})

\* Raw evidence is shown, and a catalog entry confirmed, only when the log has a row
\* for it, whatever fails or restarts in between.
AnsweredIsLogged ==
    \A q \in Requests :
        req[q].status = "ok" /\ req[q].op \in {"raw", "catalog"} => q \in log

\* No change of a password, no look at raw evidence and no confirmed catalog entry is
\* without a row of the log: ChangeUserPassword writes it in the statement that changes
\* the password, and the handlers of the other two fail when InsertAuditActionLog does.
\* The handlers of login, logout, review and lookup drop its error.
ChangesAndEvidenceAreLogged == ChangesAreLogged /\ AnsweredIsLogged

\* The audit design: every lookup writes a row of the log.
LookupsAreLogged ==
    \A q \in Requests : req[q].op = "lookup" /\ req[q].status = "ok" => q \in log

\* A limiter with fixed windows lets through, in any time as long as a window, at most
\* two windows' worth of one user's requests.
RateLimited ==
    \A op \in Limiters, u \in Users, t \in Times :
        Limit[op] > 0 /\ Window > 0 =>
            Cardinality({a \in admitted : a.op = op /\ a.user = u
                                           /\ t <= a.at /\ a.at < t + Window}) <= 2 * Limit[op]
=============================================================================

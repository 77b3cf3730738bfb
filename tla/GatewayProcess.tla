--------------------------- MODULE GatewayProcess ---------------------------
(***************************************************************************)
(* cmd/audit-gateway: the life of the process, from the environment it     *)
(* reads to its exit.  main and run are one thread; server.Serve, every    *)
(* request and every websocket tunnel are others, which go on while main   *)
(* shuts the server down, and end with the process at the latest.          *)
(*                                                                         *)
(* Of a request only its end matters here: the handler takes a connection  *)
(* of the pool and writes the trace.  pgxpool's Close refuses Acquire from *)
(* its first moment and returns when every connection is back; http's      *)
(* Shutdown waits for every request but not for a hijacked connection.     *)
(***************************************************************************)
EXTENDS Integers, FiniteSets

CONSTANTS Conns,            \* requests
          Upgrades,         \* those that become websocket tunnels
          Envs,             \* environments the process is started in
          ShutdownTimeout   \* 10 seconds, in ticks

ASSUME ProcessAssumption ==
    /\ Upgrades \subseteq Conns
    /\ ShutdownTimeout \in Nat

VARIABLES
    env,        \* the environment variables
    main,       \* where main, run and serveUntilContext are
    result,     \* the error run is returning, or none
    signalled,  \* SIGINT or SIGTERM was caught: ctx is done
    left,       \* ticks until shutdownCtx is done
    server,     \* http.Server and its goroutine
    errc,       \* what Serve has sent
    open,       \* the pools and the client that are open
    conn,       \* the requests
    rows        \* the requests whose trace was written

procVars == <<env, main, result, signalled, left, server, errc, open, conn, rows>>

Pools == {"postgres", "new-api"}
Resources == Pools \cup {"redis"}
Main == {"start", "load", "open postgres", "open new-api", "build", "listen", "select",
         "shutdown", "receive", "close redis", "close new-api", "wait new-api",
         "close postgres", "wait postgres", "gone"}

ProcessTypeOK ==
    /\ main \in Main
    /\ result \in {"none", "error", "panic"}
    /\ signalled \in BOOLEAN
    /\ left \in 0 .. ShutdownTimeout
    /\ server \in {"new", "listening", "accepting", "shut"}
    /\ errc \in {"none", "closed", "error"}
    /\ open \subseteq Resources
    /\ conn \in [Conns -> {"none", "active", "tunnel", "writing", "ended", "lost"}]
    /\ rows \subseteq Conns
-----------------------------------------------------------------------------
(* config.LoadFromEnv.  A variable is unset, blank, or has a value that passes *)
(* its validation or does not.  EVIDENCE_STORAGE_BACKEND is kept as it is.     *)

Required == {"NEW_API_BASE_URL", "AUDIT_HMAC_SECRET", "POSTGRES_DSN", "NEW_API_POSTGRES_DSN"}
Defaulted == {"AUDIT_GATEWAY_LISTEN_ADDR", "ADMIN_SESSION_SECRET", "ADMIN_COOKIE_NAME",
              "ADMIN_COOKIE_SECURE", "OPS_CHECK_TIMEOUT", "OPS_WORKER_HEARTBEAT_MAX_AGE",
              "OPS_QUEUE_LAG_WARN_THRESHOLD", "OPS_METRICS_ENABLED", "DEGRADED_SPOOL_DIR",
              "REDIS_ADDR"}
OfBackend(backend) ==
    CASE backend = "filesystem" -> {"EVIDENCE_STORAGE_DIR"}
      [] backend = "oss" -> {"OSS_ENDPOINT", "OSS_BUCKET", "OSS_ACCESS_KEY_ID",
                             "OSS_ACCESS_KEY_SECRET"}
      [] OTHER -> {}

Keys == Required \cup Defaulted \cup OfBackend("filesystem") \cup OfBackend("oss")
NoEnv == [backend |-> "", value |-> [k \in Keys |-> "unset"]]

\* requiredEnv and a validation.
RequiredEnv(e, k) == e.value[k] = "valid"

\* getenvDefault, getenvDurationDefault, getenvInt64Default: a blank is no default.
GetenvDefault(e, k) == e.value[k] \in {"unset", "valid"}

\* Mutant: any backend is accepted.
LoadFromEnv_any_backend(e) ==
    /\ \A k \in Required : RequiredEnv(e, k)
    /\ \A k \in Defaulted : GetenvDefault(e, k)
    /\ \A k \in OfBackend(e.backend) : RequiredEnv(e, k)

LoadFromEnv(e) ==
    /\ e.backend \in {"filesystem", "oss"}
    /\ \A k \in Required : RequiredEnv(e, k)
    /\ \A k \in Defaulted : GetenvDefault(e, k)
    /\ \A k \in OfBackend(e.backend) : RequiredEnv(e, k)
-----------------------------------------------------------------------------
(* main and run *)

Step(from, to) == main = from /\ main' = to

Start(e) ==
    /\ Step("start", "load")
    /\ env' = e
    /\ UNCHANGED <<result, signalled, left, server, errc, open, conn, rows>>

\* log.Fatalf, when the configuration is not accepted.
Load ==
    /\ Step("load", IF LoadFromEnv(env) THEN "open postgres" ELSE "gone")
    /\ result' = IF LoadFromEnv(env) THEN "none" ELSE "error"
    /\ UNCHANGED <<env, signalled, left, server, errc, open, conn, rows>>

\* run returns, with an error or without, to its deferred calls: what was opened last is
\* closed first.
Return(error) ==
    /\ result' = error
    /\ main' = IF "redis" \in open THEN "close redis"
               ELSE IF "new-api" \in open THEN "close new-api"
               ELSE IF "postgres" \in open THEN "close postgres" ELSE "gone"

\* newPoolWithTimezone, once for each database; redis.NewClient does not fail.
OpenPool(ok) ==
    /\ IF main = "open postgres" /\ ok
       THEN /\ Step("open postgres", "open new-api")
            /\ open' = {"postgres"}
            /\ UNCHANGED result
       ELSE IF main = "open new-api" /\ ok
       THEN /\ Step("open new-api", "build")
            /\ open' = Resources
            /\ UNCHANGED result
       ELSE /\ main \in {"open postgres", "open new-api"}
            /\ Return("error")
            /\ UNCHANGED open
    /\ UNCHANGED <<env, signalled, left, server, errc, conn, rows>>

\* evidence.NewStore: a directory is taken as it is, the OSS client may refuse its
\* settings, and there is no third backend.
StoreBuilds(e, ok) == e.backend = "filesystem" \/ (e.backend = "oss" /\ ok)

\* buildHTTPHandler.  evidenceStoreFromConfig panics where NewStore fails.
Build(ok) ==
    /\ main = "build"
    /\ IF StoreBuilds(env, ok) THEN Step("build", "listen") /\ UNCHANGED result
                               ELSE Return("panic")
    /\ UNCHANGED <<env, signalled, left, server, errc, open, conn, rows>>

\* net.Listen, and the goroutine with Serve.
Listen(ok) ==
    /\ main = "listen"
    /\ IF ok THEN Step("listen", "select") /\ server' = "listening" /\ UNCHANGED result
             ELSE Return("error") /\ UNCHANGED server
    /\ UNCHANGED <<env, signalled, left, errc, open, conn, rows>>

\* Mutant: ErrServerClosed is not sent.
Serve_silent ==
    /\ server = "listening"
    /\ server' = "accepting"
    /\ UNCHANGED <<env, main, result, signalled, left, errc, open, conn, rows>>

\* Serve begins to accept; after Shutdown it returns ErrServerClosed at once.
Serve ==
    /\ main # "gone"
    /\ server = "listening" \/ (server = "shut" /\ errc = "none")
    /\ server' = IF server = "listening" THEN "accepting" ELSE server
    /\ errc' = IF server = "listening" THEN errc ELSE "closed"
    /\ UNCHANGED <<env, main, result, signalled, left, open, conn, rows>>

\* Accepting connections fails for good.
ServeFails ==
    /\ main # "gone"
    /\ server = "accepting"
    /\ errc = "none"
    /\ errc' = "error"
    /\ UNCHANGED <<env, main, result, signalled, left, server, open, conn, rows>>

Signal ==
    /\ main \notin {"start", "load", "gone"}
    /\ ~signalled
    /\ signalled' = TRUE
    /\ UNCHANGED <<env, main, result, left, server, errc, open, conn, rows>>

\* The select of serveUntilContext, when Serve has returned.
ServerStopped ==
    /\ main = "select"
    /\ errc # "none"
    /\ Return(IF errc = "error" THEN "error" ELSE "none")
    /\ UNCHANGED <<env, signalled, left, server, errc, open, conn, rows>>

\* The select, when ctx is done: Shutdown closes the listener.
BeginShutdown ==
    /\ Step("select", "shutdown")
    /\ signalled
    /\ left' = ShutdownTimeout
    /\ server' = "shut"
    /\ UNCHANGED <<env, result, signalled, errc, open, conn, rows>>

\* Mutant: Shutdown waits for nobody.
Busy_never(c) == FALSE

\* The requests Shutdown waits for.
Busy(c) == conn[c] = "active" \/ (conn[c] = "writing" /\ c \notin Upgrades)

\* Shutdown returns: nobody is busy, or the time is up.
Shutdown ==
    /\ main = "shutdown"
    /\ IF \A c \in Conns : ~Busy(c)
       THEN Step("shutdown", "receive") /\ UNCHANGED result
       ELSE left = 0 /\ Return("error")
    /\ UNCHANGED <<env, signalled, left, server, errc, open, conn, rows>>

\* <-errc after a Shutdown in time.
Receive ==
    /\ main = "receive"
    /\ errc # "none"
    /\ Return(IF errc = "error" THEN "error" ELSE "none")
    /\ UNCHANGED <<env, signalled, left, server, errc, open, conn, rows>>
-----------------------------------------------------------------------------
(* The deferred calls, and the exit *)

CloseRedis ==
    /\ Step("close redis", "close new-api")
    /\ open' = open \ {"redis"}
    /\ UNCHANGED <<env, result, signalled, left, server, errc, conn, rows>>

\* The labels of main around the Close of a pool.
Close(p) == IF p = "postgres" THEN "close postgres" ELSE "close new-api"
Closing(p) == IF p = "postgres" THEN "wait postgres" ELSE "wait new-api"

ClosePool(p) ==
    /\ Step(Close(p), Closing(p))
    /\ open' = open \ {p}
    /\ UNCHANGED <<env, result, signalled, left, server, errc, conn, rows>>

\* Close returns when no connection is out; the handlers only hold those of postgres at
\* their end.  With it run has returned, and main is left with or without log.Fatalf.
Closed(p) ==
    /\ Step(Closing(p), IF p = "new-api" THEN "close postgres" ELSE "gone")
    /\ p = "postgres" => \A c \in Conns : conn[c] # "writing"
    /\ conn' = IF p = "new-api" THEN conn
               ELSE [c \in Conns |-> IF conn[c] \in {"active", "tunnel"} THEN "lost" ELSE conn[c]]
    /\ UNCHANGED <<env, result, signalled, left, server, errc, open, rows>>
-----------------------------------------------------------------------------
(* Requests *)

Connect(c) ==
    /\ server = "accepting"
    /\ errc = "none"
    /\ conn[c] = "none"
    /\ conn' = [conn EXCEPT ![c] = "active"]
    /\ UNCHANGED <<env, main, result, signalled, left, server, errc, open, rows>>

\* The connection is taken over by the tunnel.
Hijack(c) ==
    /\ c \in Upgrades
    /\ conn[c] = "active"
    /\ conn' = [conn EXCEPT ![c] = "tunnel"]
    /\ UNCHANGED <<env, main, result, signalled, left, server, errc, open, rows>>

\* The answer is through, and insertTrace asks the pool for a connection.
Acquire(c) ==
    /\ conn[c] = IF c \in Upgrades THEN "tunnel" ELSE "active"
    /\ main # "gone"
    /\ conn' = [conn EXCEPT ![c] = IF "postgres" \in open THEN "writing" ELSE "lost"]
    /\ UNCHANGED <<env, main, result, signalled, left, server, errc, open, rows>>

Written(c) ==
    /\ conn[c] = "writing"
    /\ conn' = [conn EXCEPT ![c] = "ended"]
    /\ rows' = rows \cup {c}
    /\ UNCHANGED <<env, main, result, signalled, left, server, errc, open>>

\* A tick of the time Shutdown is given.
Tick ==
    /\ main = "shutdown"
    /\ left > 0
    /\ left' = left - 1
    /\ UNCHANGED <<env, main, result, signalled, server, errc, open, conn, rows>>
-----------------------------------------------------------------------------
ProcessInit ==
    /\ env = NoEnv
    /\ main = "start"
    /\ result = "none"
    /\ signalled = FALSE
    /\ left = ShutdownTimeout
    /\ server = "new"
    /\ errc = "none"
    /\ open = {}
    /\ conn = [c \in Conns |-> "none"]
    /\ rows = {}

MainStep ==
    \/ Load \/ ServerStopped \/ BeginShutdown \/ Shutdown \/ Receive \/ CloseRedis
    \/ \E p \in Pools : ClosePool(p) \/ Closed(p)
    \/ \E ok \in BOOLEAN : OpenPool(ok) \/ Build(ok) \/ Listen(ok)

ProcessNext ==
    \/ \E e \in Envs : Start(e)
    \/ MainStep
    \/ Serve \/ ServeFails \/ Signal \/ Tick
    \/ \E c \in Conns : Connect(c) \/ Hijack(c) \/ Acquire(c) \/ Written(c)

\* The threads are scheduled, time goes on, and a statement of the database ends.
ProcessFairness ==
    /\ WF_procVars(MainStep) /\ WF_procVars(Serve) /\ WF_procVars(Tick)
    /\ \A c \in Conns : WF_procVars(Written(c))

ProcessSpec == ProcessInit /\ [][ProcessNext]_procVars /\ ProcessFairness
-----------------------------------------------------------------------------
(* Properties *)

\* A process that ends without an error has written the trace of every request it took,
\* tunnels excepted: Shutdown lets the handlers finish, and the deferred calls of run
\* close the pool only after them.
CleanExitLosesNothing ==
    main = "gone" /\ result = "none" =>
        \A c \in Conns \ Upgrades : conn[c] # "none" => c \in rows

\* A panic while the handler is built (evidenceStoreFromConfig) is the OSS client's
\* refusal of settings that are all there: LoadFromEnv has turned away every backend
\* NewStore does not know, and every environment without a setting of its backend.
PanicIsTheClients ==
    result = "panic" =>
        env.backend = "oss" /\ \A k \in OfBackend("oss") : env.value[k] = "valid"

\* SIGTERM ends the process whatever the requests and the tunnels do: Shutdown has its
\* timeout, Serve always sends to errc, and Close waits for a statement at the most.
SignalEndsProcess == signalled ~> main = "gone"
=============================================================================

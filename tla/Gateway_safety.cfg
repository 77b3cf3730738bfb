CONSTANTS
    Requests = {q1}
    MaxFaults = 4
    Streams <- MCStreams
    Resolvers = {r1, r2}
    Users = {u1}
    TTL = 1
    CallsStall = TRUE
    MaxTime = 2
    Conns = {c1, c2, w1}
    Upgrades = {w1}
    Envs <- MCEnvs
    ShutdownTimeout = 2
    Beaters = {b1}
    MaxAge = 1
    WarnThreshold = 0
    MaxDepth = 1
    MaxTick = 2
SPECIFICATION MCSpec
CONSTRAINT OneToken
INVARIANTS
    GatewayTypeOK
    PublishedIsComplete RefsResolve DegradedIsMarked QueuedIsPublished
    ChunkingIsIrrelevant  AssembledAgrees
    AnswersWereTrue UnusedIsForgotten
    CleanExitLosesNothing PanicIsTheClients OutageIsDown OkWasTrue
PROPERTIES AnswerIsForwarded SignalEndsProcess
CHECK_DEADLOCK FALSE

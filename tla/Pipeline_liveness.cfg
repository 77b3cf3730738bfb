CONSTANTS
    Traces = {t1}
    CoreHandlers = {c1}
    EnrichmentHandlers = {e1}
    Workers <- HandlerIds
    Worker <- WorkerPerHandler
    Kinds = {"job"}
    MaxAttempts = 2
    MaxMessages = 6
    MaxFaults = 1
SPECIFICATION FairSpec
PROPERTIES EventuallySettled EnrichmentEventuallyQueued SettledIsDrained
CHECK_DEADLOCK FALSE

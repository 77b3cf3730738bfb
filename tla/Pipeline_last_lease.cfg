CONSTANTS
    Traces = {t1}
    CoreHandlers = {c1}
    EnrichmentHandlers = {e1}
    Workers <- HandlerIds
    Worker <- WorkerPerHandler
    Kinds = {"job"}
    MaxAttempts = 2
    MaxMessages = 4
    MaxFaults = 0
SPECIFICATION FairSpec
PROPERTIES EveryTaskSettles
CHECK_DEADLOCK FALSE

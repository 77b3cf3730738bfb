CONSTANTS
    Traces = {t1}
    CoreHandlers = {c1, c2}
    EnrichmentHandlers = {e1}
    Workers <- HandlerIds
    Worker <- WorkerPerHandler
    Kinds = {"job"}
    MaxAttempts = 2
    MaxMessages = 4
    MaxFaults = 0
SPECIFICATION Spec
PROPERTIES CompletedIsFinal
CHECK_DEADLOCK FALSE

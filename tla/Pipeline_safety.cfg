CONSTANTS
    Traces = {t1}
    CoreHandlers = {c1, c2}
    EnrichmentHandlers = {e1}
    Workers <- HandlerIds
    Worker <- WorkerPerHandler
    Kinds = {"job", "unknown_stage"}
    MaxAttempts = 2
    MaxMessages = 4
    MaxFaults = 1
SPECIFICATION Spec
SYMMETRY HandlerSymmetry
INVARIANTS TypeOK ResultsOnce NoLostWork OneDeadLetter EnrichmentFollowsCore
PROPERTIES FinalIsFinal CommitsAreFenced ReopenedOnlyByTheOvertaken RefinesOutcomes
CHECK_DEADLOCK FALSE

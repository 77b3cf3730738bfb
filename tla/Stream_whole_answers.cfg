CONSTANT Streams <- MCStreams
SPECIFICATION StreamSpec
INVARIANT OnlyWholeAnswersReplace
CHECK_DEADLOCK FALSE

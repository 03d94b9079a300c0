CONSTANTS
    Scripts <- MCScripts
    ReopenAfter = 1
SPECIFICATION RagExperimentsSpec
INVARIANTS
    InterruptedRunIsReadable
CHECK_DEADLOCK FALSE

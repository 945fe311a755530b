\* Polling, no end height: two failures and a crash at any moment.
SPECIFICATION Spec
CONSTANTS
    BatchSize = 3
    Height = {1, 2, 3}
    UsePolling = TRUE
    StartHeight = 1
    EndHeight = 0
    NoEndHeight = 0
    MaxFaults = 2
    MaxCrashes = 1
    MaxPollers = 2
INVARIANTS
    ProcessesNextHeight
    FatalIsUnhealthy
PROPERTIES
    PipelineSafety
    ImplementsIndexedChain
    EveryBlockIndexed
\* A stopped, crashed or given-up indexer takes no step.
CHECK_DEADLOCK FALSE

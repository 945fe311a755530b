\* Blocks announced by subscription, some of them missed, and an end height.
SPECIFICATION SafetySpec
CONSTANTS
    BatchSize = 3
    Height = {1, 2, 3, 4, 5}
    UsePolling = FALSE
    StartHeight = 1
    EndHeight = 3
    NoEndHeight = 0
    MaxFaults = 2
    MaxCrashes = 1
    MaxPollers = 2
INVARIANTS
    NeverReprocesses
    AtMostOneBeyondEnd
    SkipsOnlyMissed
\* A stopped, crashed or given-up indexer takes no step.
CHECK_DEADLOCK FALSE

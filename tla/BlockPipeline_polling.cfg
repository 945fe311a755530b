\* The queue and its users; blocks are announced one after the other.
SPECIFICATION PipelineSpec
CONSTANTS
    BatchSize = 4
    Height = {1, 2, 3, 4, 5, 6, 7}
    UsePolling = TRUE
INVARIANTS
    LoopFindsPromise
    PipelineTypeOK
    HoldsUndelivered
    ProducerHasRoom
    FetcherWaitsForFullRing
    DeliversConsecutiveHeights
    SyncedIsCaughtUp
PROPERTIES
    ImplementsFifo
    EnqueuedIsDelivered
    HealthySessionSyncs

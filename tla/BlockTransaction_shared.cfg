\* Two modules listen to one event.
SPECIFICATION SafetySpec
CONSTANTS
    blocks = blocks
    bank = bank
    auth = auth
    staking = staking
    Listens <- Shared
    BlockModule = blocks
    CallsNode = {staking}
    Swallows = {staking}
    LastBlock = 2
    MaxFaults = 3
    RecycleCount = 1
INVARIANTS
    TransactionTypeOK
    CommittedBlocksAreComplete
    EventsInOrder
    FlagIsTruthful
PROPERTIES
    GoesOnAfterLastBlock
\* The process dies, the loop gives up, or all blocks are indexed.
CHECK_DEADLOCK FALSE

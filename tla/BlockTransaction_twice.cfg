\* Two modules listen to one event, and one of them waits for the node.
SPECIFICATION SafetySpec
CONSTANTS
    blocks = blocks
    bank = bank
    auth = auth
    staking = staking
    Listens <- Shared
    BlockModule = blocks
    CallsNode = {staking}
    Swallows = {}
    LastBlock = 1
    MaxFaults = 1
    RecycleCount = 2
INVARIANTS
    StoredOnlyOnce
\* The process dies, or all blocks are indexed.
CHECK_DEADLOCK FALSE

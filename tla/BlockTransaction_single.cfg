\* A listener that waits for the node has its event for itself.
SPECIFICATION Spec
CONSTANTS
    blocks = blocks
    bank = bank
    auth = auth
    staking = staking
    Listens <- OwnEvent
    BlockModule = blocks
    CallsNode = {staking}
    Swallows = {}
    LastBlock = 3
    MaxFaults = 3
    RecycleCount = 2
INVARIANTS
    AppliedOnce

    
\* The process dies, the loop gives up, or all blocks are indexed.
CHECK_DEADLOCK FALSE

\* Failures and restarts of the process, slashes and all messages.
SPECIFICATION Spec
CONSTANTS
    alice = alice
    bob = bob
    v1 = v1
    v2 = v2
    first = first
    second = second
    Keep = keep
    Empty = empty
    Delegator = {alice, bob}
    Validator = {v1, v2}
    GenTxs <- GenesisAlice
    Scenarios <- StakesAndProfiles
    PoolInterval = 2
    LastBlock = 4
    MaxMessages = 4
    MaxSlashes = 1
    MaxFaults = 1
PROPERTIES
    DelegationsCarriedOn
    ProfilesCarriedOn
    OnlyDoomedBlocksThrow
\* The loop ends with the last block.
CHECK_DEADLOCK FALSE

\* Import, events, failures and a crash; one commit within an array of the genesis.
SPECIFICATION Spec
CONSTANTS
    alice = alice
    bob = bob
    pool = pool
    atom = atom
    photon = photon
    Account = {alice, bob, pool}
    Denom = {atom, photon}
    BondedPool = pool
    Files <- TwoFiles
    ProcessGenesis = TRUE
    ChunksPerCommit = 2
    Events <- LedgerEvents
    MaxEvents = 2
    LastBlock = 2
    MaxFaults = 2
INVARIANTS
    LedgerTypeOK
    BalancesMatchChain
PROPERTIES
    HistoryStands
\* The loop ends with the last block, or the import cannot end.
CHECK_DEADLOCK FALSE

\* A nested emission, an event nobody handles and listeners that outlive theirs.
SPECIFICATION Spec
CONSTANTS
    block = block
    balances = balances
    message = message
    end_block = end_block
    auth = auth
    blocks = blocks
    bank = bank
    other = other
    Event = {block, balances, message, end_block}
    Listener = {auth, blocks, bank, other}
    Listens <- BlockListeners
    Nested <- BalancesInBlock
    Script <- EventsOfBlock
    MaxFailures = 2
INVARIANTS
    AnswerFindsFunction
    OneFunctionEach
PROPERTIES
    ImplementsCalls
    BlockGetsThrough
\* The block ends.
CHECK_DEADLOCK FALSE

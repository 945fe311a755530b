\* Both modules on any database, contents that can and cannot be stored, a clock
\* that is set back, failures and restarts.
SPECIFICATION Spec
CONSTANTS
    pay = pay
    vote = vote
    garbage = garbage
    minute = minute
    hour = hour
    day = day
    Tx = {pay, vote, garbage}
    Unstorable = {garbage}
    Contents <- SomeContents
    Proposer = {validator, stranger}
    Known = {validator}
    Window <- Windows
    Interval = 2
    Steps = {1, 3}
    ClockSetBack = 10
    SetBackBy = 4
    LastBlock = 5
    MaxContents = 2
    MaxFaults = 1
INVARIANTS
    RecordsMatchChain
    AveragesMatchChain
PROPERTIES
    OnlyDoomedBlocksRefused
\* The loop ends with the last block.
CHECK_DEADLOCK FALSE

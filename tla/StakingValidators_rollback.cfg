\* One block is rolled back and processed again.
SPECIFICATION Spec
CONSTANTS
    Validator = {v1, v2}
    Genesis = {v1}
    bonded = bonded
    jailed = jailed
    Report <- Reports
    LastBlock = 3
    MaxFailures = 1
    MaxCrashes = 0
PROPERTIES
    CommittedIsRecorded
\* The loop ends with the last block.
CHECK_DEADLOCK FALSE

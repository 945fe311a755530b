------------------------- MODULE StakingValidators -------------------------
(***************************************************************************)
(* The validators of the staking module (core-modules/src/                 *)
(* cosmos.staking.v1beta1): the tables validator_infos, validator_status   *)
(* and validator_voting_powers against the two caches that decide what is  *)
(* written to them, block by block.                                        *)
(*                                                                         *)
(* The tables belong to the transaction of the block and roll back with    *)
(* it; the caches belong to the process and do not.  With the block come   *)
(* the validators as the node reports them for its height, those created   *)
(* in the block included.  LRU eviction is left out: the model holds for   *)
(* chains with fewer validators than the caches have places.               *)
(***************************************************************************)
EXTENDS Integers, FiniteSets, FiniteSetsExt

CONSTANTS
    Validator,     \* operator addresses
    Genesis,       \* the validators imported with the genesis
    Report,        \* what the node says of one: [status, power : [tokens, shares]],
                   \* where the status is the bond status and the jailed flag
    LastBlock,     \* bound: the chain has the blocks 1 .. LastBlock
    MaxFailures,   \* bound on errors of handlers and queries
    MaxCrashes     \* bound on restarts of the process

\* A consensus address is no operator address: their prefixes differ.
Consensus(v) == <<"valcons", v>>

ASSUME StakingAssumption ==
    /\ \A v \in Validator : Consensus(v) \notin Validator
    /\ Genesis \subseteq Validator
    /\ \A r \in Report :
          DOMAIN r = {"status", "power"} /\ DOMAIN r.power = {"tokens", "shares"}
    /\ LastBlock \in Nat \ {0} /\ MaxFailures \in Nat /\ MaxCrashes \in Nat

\* A power of nothing.
Zero == [tokens |-> 0, shares |-> 0]

VARIABLES
    chain,           \* reports of the blocks made: height -> validator -> Report
    saved,           \* the tables, committed: [blocks, infos, status, power]
    work,            \* the tables as the open transaction sees them
    aborted,         \* a query of the transaction failed
    addressCache,    \* validatorAddressCache: operators with a consensus address
    validatorCache,  \* validatorCache: address -> Report
    pc,              \* "idle", "check", "messages" or "rollback"
    height,          \* block in work, or to be taken next
    todo,            \* validators to check, then MsgCreateValidators to handle
    spoiled,         \* history: this process has rolled a block back
    failures,
    crashes

tableVars == <<saved, work, aborted>>
cacheVars == <<addressCache, validatorCache>>
vars == <<chain, tableVars, cacheVars, pc, height, todo, spoiled, failures, crashes>>

Existing(h) == IF h = 0 THEN Genesis ELSE DOMAIN chain[h]
Created == Existing(height) \ Existing(height - 1)

Init ==
    /\ chain = <<>>
    /\ saved = [blocks |-> {}, infos |-> Genesis, status |-> {}, power |-> {}]
    /\ work = saved
    /\ aborted = FALSE
    /\ addressCache = Genesis
    /\ validatorCache = <<>>
    /\ pc = "idle" /\ height = 1 /\ todo = {}
    /\ spoiled = FALSE
    /\ failures = 0 /\ crashes = 0

Failure == failures < MaxFailures /\ failures' = failures + 1

-----------------------------------------------------------------------------
(***************************************************************************)
(* The transaction, as the loop and the block listener use it.             *)
(***************************************************************************)
\* A block that was not seen before is made now: at most one new validator.
BlockOnChain ==
    IF height \in DOMAIN chain THEN UNCHANGED chain
    ELSE \E new \in {{}} \cup {{v} : v \in Validator \ Existing(height - 1)} :
         \E reports \in [Existing(height - 1) \cup new -> Report] :
            chain' = [h \in 1 .. height |-> IF h = height THEN reports ELSE chain[h]]

StartBlock ==
    /\ pc = "idle" /\ height <= LastBlock
    /\ BlockOnChain
    /\ work' = [saved EXCEPT !.blocks = @ \cup {height}]
    /\ pc' = "check"
    /\ todo' = DOMAIN chain'[height]
    /\ UNCHANGED <<saved, aborted, cacheVars, height, spoiled, failures, crashes>>

\* Every listener answered.  COMMIT of an aborted transaction rolls back without
\* an error, and the loop goes on.
CommitBlock ==
    /\ pc = "messages" /\ todo = {}
    /\ saved' = IF aborted THEN saved ELSE work
    /\ work' = saved'
    /\ spoiled' = (spoiled \/ aborted)
    /\ aborted' = FALSE
    /\ height' = height + 1
    /\ pc' = "idle"
    /\ UNCHANGED <<chain, cacheVars, todo, failures, crashes>>

\* getNextHeight()
NextHeight == IF saved.blocks = {} THEN 1 ELSE Max(saved.blocks) + 1

RollBack ==
    /\ pc = "rollback"
    /\ work' = saved
    /\ aborted' = FALSE
    /\ spoiled' = TRUE
    /\ height' = NextHeight
    /\ pc' = "idle"
    /\ todo' = {}
    /\ UNCHANGED <<chain, saved, cacheVars, failures, crashes>>

-----------------------------------------------------------------------------
(***************************************************************************)
(* checkAndSaveValidators() at begin_block.                                *)
(***************************************************************************)
CacheSet(cache, a, r) == [b \in DOMAIN cache \cup {a} |-> IF b = a THEN r ELSE cache[b]]

IsCached(v) == Consensus(v) \in DOMAIN validatorCache

\* A row is inserted for what the cache does not have.
NeedsStatus(v, r) ==
    IF IsCached(v) THEN validatorCache[Consensus(v)].status # r.status ELSE TRUE

\* The tokens alone are compared: where the shares change and they do not, the
\* new shares are cached and the table keeps the old ones.
NeedsPower(v, r) ==
    IF IsCached(v) THEN validatorCache[Consensus(v)].power.tokens # r.power.tokens
    ELSE TRUE

Row(v, value) == [validator |-> v, value |-> value, height |-> height]

\* Mutant: the status alone decides.
WithRows_StatusOnly(v, r) ==
    [work EXCEPT
        !.status = IF NeedsStatus(v, r) THEN @ \cup {Row(v, r.status)} ELSE @,
        !.power  = IF NeedsStatus(v, r) THEN @ \cup {Row(v, r.power)} ELSE @]

WithRows(v, r) ==
    [work EXCEPT
        !.status = IF NeedsStatus(v, r) THEN @ \cup {Row(v, r.status)} ELSE @,
        !.power  = IF NeedsPower(v, r) THEN @ \cup {Row(v, r.power)} ELSE @]

Checks(v) ==
    /\ pc = "check" /\ v \in todo
    /\ todo' = todo \ {v}
    /\ UNCHANGED <<chain, saved, addressCache, pc, height, spoiled, crashes>>

\* getConsensusAddress() throws before any query, and the catch block goes on.
SkipUnknown(v) ==
    /\ Checks(v)
    /\ v \notin addressCache
    /\ UNCHANGED <<work, aborted, validatorCache, failures>>

\* The rows refer to validator_infos; nothing is asked of the database if the
\* cache has what the node reports.
SaveValidator(v) ==
    LET r == chain[height][v] IN
    /\ Checks(v)
    /\ v \in addressCache
    /\ NeedsStatus(v, r) \/ NeedsPower(v, r) => ~aborted /\ v \in work.infos
    /\ work' = WithRows(v, r)
    /\ validatorCache' = CacheSet(validatorCache, Consensus(v), r)
    /\ UNCHANGED <<aborted, failures>>

\* A query fails.  The catch block takes the error for an unknown validator.
SaveFails(v) ==
    LET r == chain[height][v] IN
    /\ Checks(v)
    /\ v \in addressCache
    /\ NeedsStatus(v, r) \/ NeedsPower(v, r)
    /\ \/ (aborted \/ v \notin work.infos) /\ UNCHANGED failures
       \/ Failure
    /\ aborted' = TRUE
    /\ UNCHANGED <<work, validatorCache>>

AllChecked ==
    /\ pc = "check" /\ todo = {}
    /\ pc' = "messages"
    /\ todo' = Created
    /\ UNCHANGED <<chain, tableVars, cacheVars, height, spoiled, failures, crashes>>

-----------------------------------------------------------------------------
\* Mutant: the address is not cached.
CreateValidator_Uncached(v) ==
    /\ pc = "messages" /\ v \in todo
    /\ ~aborted /\ v \notin work.infos
    /\ work' = [work EXCEPT !.infos = @ \cup {v}]
    /\ todo' = todo \ {v}
    /\ UNCHANGED <<chain, saved, aborted, cacheVars, pc, height, spoiled,
                   failures, crashes>>

\* MsgCreateValidator
CreateValidator(v) ==
    /\ pc = "messages" /\ v \in todo
    /\ ~aborted /\ v \notin work.infos
    /\ work' = [work EXCEPT !.infos = @ \cup {v}]
    /\ addressCache' = addressCache \cup {v}
    /\ todo' = todo \ {v}
    /\ UNCHANGED <<chain, saved, aborted, validatorCache, pc, height, spoiled,
                   failures, crashes>>

\* A message of the block is handled with a query, in the staking module or any
\* other; in an aborted transaction it throws.
QueryRefused ==
    /\ pc = "messages" /\ aborted
    /\ pc' = "rollback"
    /\ UNCHANGED <<chain, tableVars, cacheVars, height, todo, spoiled, failures, crashes>>

\* The database or the node fails a handler: after a MsgCreateValidator that was
\* cached, before it, or at begin_block.
HandlerFails ==
    /\ pc \in {"check", "messages"}
    /\ Failure
    /\ pc' = "rollback"
    /\ UNCHANGED <<chain, tableVars, cacheVars, height, todo, spoiled, crashes>>

-----------------------------------------------------------------------------
(***************************************************************************)
(* A restart of the process.  cacheValidatorData() reads validator_infos;  *)
(* cacheLatestValidatorStatuses() stores the latest rows under the         *)
(* operator address, where no lookup by consensus address finds them.      *)
(***************************************************************************)
Latest(rows, v, h) ==
    CHOOSE row \in rows :
        /\ row.validator = v /\ row.height <= h
        /\ \A other \in rows :
             other.validator = v /\ other.height <= h => other.height <= row.height

WithStatus == {row.validator : row \in saved.status}
WithPower  == {row.validator : row \in saved.power}

Crash ==
    /\ pc # "idle" \/ height <= LastBlock
    /\ crashes < MaxCrashes /\ crashes' = crashes + 1
    /\ work' = saved
    /\ aborted' = FALSE
    /\ addressCache' = saved.infos
    /\ validatorCache' = [v \in WithStatus |->
           [status |-> Latest(saved.status, v, LastBlock).value,
            power  |-> IF v \in WithPower THEN Latest(saved.power, v, LastBlock).value
                       ELSE Zero]]
    /\ spoiled' = FALSE
    /\ height' = NextHeight
    /\ pc' = "idle"
    /\ todo' = {}
    /\ UNCHANGED <<chain, saved, failures>>

CheckStep == \E v \in Validator : SkipUnknown(v) \/ SaveValidator(v) \/ SaveFails(v)

LoopStep ==
    \/ StartBlock \/ CommitBlock \/ RollBack
    \/ CheckStep \/ AllChecked
    \/ \E v \in Validator : CreateValidator(v)
    \/ QueryRefused

Next == LoopStep \/ HandlerFails \/ Crash

Spec == Init /\ [][Next]_vars

-----------------------------------------------------------------------------
(***************************************************************************)
(* Properties                                                              *)
(***************************************************************************)
\* What the tables keep of v at height h: the status and the tokens as the node
\* reports them at h, and the shares as it reported them when the row of the
\* tokens was written.
RowsMatch(tables, v, h) ==
    /\ \E row \in tables.status : row.validator = v /\ row.height <= h
    /\ \E row \in tables.power : row.validator = v /\ row.height <= h
    /\ Latest(tables.status, v, h).value = chain[h][v].status
    /\ LET row == Latest(tables.power, v, h) IN
          /\ row.value.tokens = chain[h][v].power.tokens
          /\ row.value = chain[row.height][v].power

\* The tables tell the validators of a block that was committed, except those it
\* created itself.
BlockRecorded(tables, h) == \A v \in Existing(h - 1) : RowsMatch(tables, v, h)

\* A process that has rolled nothing back records the validators of every block
\* it commits: whatever a former process or attempt left, and however often it
\* was restarted, no change of a status or of tokens is missed, and no row says of
\* its height what the node did not.  A change of shares alone is not recorded.
SoundProcessRecords ==
    [][saved'.blocks # saved.blocks /\ ~spoiled => BlockRecorded(saved', height)]_vars

\* Until something is rolled back, the caches mirror the tables of the open
\* transaction: an address is cached for exactly the validators that have a row,
\* and the status and tokens cached for one are those of its latest rows.
CachesMirrorTables ==
    ~spoiled /\ ~aborted /\ pc # "rollback" =>
        /\ addressCache = work.infos
        /\ \A v \in Validator : IsCached(v) =>
              LET cached == validatorCache[Consensus(v)] IN
              /\ Latest(work.status, v, LastBlock).value = cached.status
              /\ Latest(work.power, v, LastBlock).value.tokens = cached.power.tokens

-----------------------------------------------------------------------------
(***************************************************************************)
(* A promise of the documentation that the code does not keep              *)
(***************************************************************************)
\* "Transaction rollback on processing errors": a block that is committed has its
\* validators recorded, also when an earlier attempt was rolled back.
CommittedIsRecorded ==
    [][saved'.blocks # saved.blocks => BlockRecorded(saved', height)]_vars
=============================================================================

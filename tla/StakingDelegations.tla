------------------------- MODULE StakingDelegations -------------------------
(***************************************************************************)
(* The messages of the staking module, block by block: creations,          *)
(* delegations, redelegations and edits are added to what the tables say,  *)
(* undelegations are ignored, and a slash asks the node anew.              *)
(*                                                                         *)
(* `chain' holds the blocks and the state of the chain after each, which is*)
(* what the node answers for its height, also while the block is being     *)
(* indexed.  The tables belong to the transaction of the block and roll    *)
(* back with it, the caches do not.  Each handler is one action, since     *)
(* events are awaited one by one.  The genesis was imported.               *)
(***************************************************************************)
EXTENDS StakingTables, Sequences, SequencesExt

CONSTANTS
    Delegator, Validator,
    GenTxs,         \* genesis validators -> [delegator, amount, profile]
    Scenarios,      \* sets of messages: a chain takes its messages from one of them
    PoolInterval,   \* PERIODIC_INTERVALS.LARGE
    LastBlock,      \* bound: the chain has the blocks 1 .. LastBlock
    MaxMessages,    \* bound on the messages of the chain
    MaxSlashes,     \* bound on the slashes of the chain
    MaxFaults       \* bound on failures of handlers and queries and on crashes

ASSUME DelegationAssumption ==
    /\ DOMAIN GenTxs \subseteq Validator
    /\ \A v \in DOMAIN GenTxs : GenTxs[v].delegator \in Delegator
    /\ PoolInterval \in Nat \ {0} /\ LastBlock \in Nat \ {0}
    /\ MaxMessages \in Nat /\ MaxSlashes \in Nat /\ MaxFaults \in Nat

VARIABLES
    scenario,        \* where the messages of the chain come from
    chain,           \* blocks made so far: [slashed, messages, state]
    saved,           \* the tables, committed
    work,            \* the tables as the open transaction sees them
    aborted,         \* a query of the transaction failed
    addressCache,    \* validatorAddressCache: operators with a consensus address
    validatorCache,  \* validatorCache: validators with tokens and shares
    pc,              \* what the module handles next
    height,          \* block in work, or to be taken next
    next,            \* its message to be handled next
    spoiled,         \* history: this process has rolled a block back
    faults

chainVars == <<scenario, chain>>
tableVars == <<saved, work, aborted>>
cacheVars == <<addressCache, validatorCache>>
vars == <<chainVars, tableVars, cacheVars, pc, height, next, spoiled, faults>>

Pairs == Delegator \X Validator

-----------------------------------------------------------------------------
(***************************************************************************)
(* The chain: tokens and shares of the validators, shares of delegators.   *)
(***************************************************************************)
GenesisState ==
    [power   |-> [v \in DOMAIN GenTxs |->
                    [tokens |-> GenTxs[v].amount, shares |-> GenTxs[v].amount]],
     shares  |-> [p \in Pairs |->
                    IF p[2] \in DOMAIN GenTxs /\ GenTxs[p[2]].delegator = p[1]
                    THEN GenTxs[p[2]].amount ELSE 0],
     profile |-> [v \in DOMAIN GenTxs |-> GenTxs[v].profile]]

StateAt(h) == IF h = 0 THEN GenesisState ELSE chain[h].state
Existing(s) == DOMAIN s.power

Balance(s, p) ==
    IF s.shares[p] = 0 THEN 0
    ELSE (s.shares[p] * s.power[p[2]].tokens) \div s.power[p[2]].shares

OnChain(s, n, v) ==
    IF s.power[v].tokens = 0 THEN n ELSE (n * s.power[v].shares) \div s.power[v].tokens

Moved(s, p, n) ==    \* n tokens into or, if negative, out of a delegation
    LET new == OnChain(s, n, p[2])
    IN  [s EXCEPT !.shares[p] = @ + new,
                  !.power[p[2]].tokens = @ + n, !.power[p[2]].shares = @ + new]

Born(s, v, m) ==
    [power   |-> [w \in Existing(s) \cup {v} |-> IF w = v THEN [tokens |-> m.amount, shares |-> m.amount] ELSE s.power[w]],
     shares  |-> [s.shares EXCEPT ![<<m.delegator, v>>] = m.amount],
     profile |-> [w \in Existing(s) \cup {v} |-> IF w = v THEN m.profile ELSE s.profile[w]]]

Replace(old, new) == IF new = Keep THEN old ELSE new

Possible(s, m) ==
    CASE m.type = "create"     -> m.validator \notin Existing(s)
      [] m.type = "delegate"   -> m.validator \in Existing(s)
      [] m.type = "undelegate" -> Balance(s, <<m.delegator, m.validator>>) >= m.amount
      [] m.type = "redelegate" -> Balance(s, <<m.delegator, m.validator>>) >= m.amount /\ m.to \in Existing(s)
      [] m.type = "edit"       -> m.validator \in Existing(s)

Applied(s, m) ==
    CASE m.type = "create"     -> Born(s, m.validator, m)
      [] m.type = "delegate"   -> Moved(s, <<m.delegator, m.validator>>, m.amount)
      [] m.type = "undelegate" -> Moved(s, <<m.delegator, m.validator>>, -m.amount)
      [] m.type = "redelegate" -> Moved(Moved(s, <<m.delegator, m.validator>>, -m.amount), <<m.delegator, m.to>>, m.amount)
      [] m.type = "edit"       -> [s EXCEPT !.profile[m.validator] =
                                     [moniker |-> Replace(@.moniker, m.moniker), rate |-> Replace(@.rate, m.rate)]]

Slashed(s, vs) ==    \* by half
    [s EXCEPT !.power = [v \in Existing(s) |->
        IF v \in vs THEN [s.power[v] EXCEPT !.tokens = @ \div 2] ELSE s.power[v]]]

CanSlash(s, v) == s.power[v].tokens > 0 /\ s.power[v].tokens % 2 = 0

\* The state after these messages, if each is possible when its turn comes.
After(s, messages) ==
    FoldLeft(LAMBDA states, m : {Applied(x, m) : x \in {y \in states : Possible(y, m)}},
             {s}, messages)

\* A validator without shares leaves at the end of a block, if not the last one.
Left(s) ==
    {s} \cup {[s EXCEPT !.power   = [w \in Existing(s) \ {v} |-> @[w]],
                      !.profile = [w \in Existing(s) \ {v} |-> @[w]]] :
                 v \in {w \in Existing(s) : s.power[w].shares = 0 /\ Existing(s) # {w}}}

SlashesMade  == Cardinality({h \in DOMAIN chain : chain[h].slashed # {}})
MessagesMade == Len(FoldLeft(LAMBDA all, block : all \o block.messages, <<>>, chain))

\* A block that was not seen before is made now: slashes come at its beginning.
BlockOnChain ==
    LET s == StateAt(height - 1) IN
    IF height \in DOMAIN chain THEN UNCHANGED chain
    ELSE \E slashed \in {{}} \cup {{v} : v \in {w \in Existing(s) : CanSlash(s, w)}} :
         \E messages \in BoundedSeq(scenario, MaxMessages - MessagesMade) :
         \E last \in After(Slashed(s, slashed), messages) : \E state \in Left(last) :
            /\ slashed # {} => SlashesMade < MaxSlashes
            /\ chain' = Append(chain, [slashed |-> slashed, messages |-> messages, state |-> state])

Block == chain[height]
Held(s, p) == [delegator |-> p[1], validator |-> p[2], amount |-> Balance(s, p), shares |-> s.shares[p]]

\* What the node answers: the delegations of these delegators after the block.
DelegationsOf(delegators) ==
    {Held(Block.state, p) : p \in {q \in Pairs : q[1] \in delegators /\ Block.state.shares[q] > 0}}

-----------------------------------------------------------------------------
Init ==
    /\ scenario \in Scenarios /\ chain = <<>>
    /\ saved = [blocks   |-> {},
                infos    |-> DOMAIN GenTxs,
                stakes   |-> {Stake(GenTxs[v].delegator, v, GenTxs[v].amount,
                                    {GenTxs[v].amount}, 0) : v \in DOMAIN GenTxs},
                powers   |-> {},
                profiles |-> {ProfileRow(v, GenTxs[v].profile, 0) : v \in DOMAIN GenTxs},
                pools    |-> {}]
    /\ work = saved /\ aborted = FALSE
    /\ addressCache = DOMAIN GenTxs /\ validatorCache = <<>>
    /\ pc = "idle" /\ height = 1 /\ next = 1
    /\ spoiled = FALSE /\ faults = 0

Fault == faults < MaxFaults /\ faults' = faults + 1

StartBlock ==
    /\ pc = "idle" /\ height <= LastBlock
    /\ BlockOnChain
    /\ work' = [saved EXCEPT !.blocks = @ \cup {height}]
    /\ pc' = "check" /\ next' = 1
    /\ UNCHANGED <<scenario, saved, aborted, cacheVars, height, spoiled, faults>>

\* Where begin_block goes on after its first and its second part.
AfterAutoStake == IF Block.slashed # {} THEN "slash" ELSE "messages"
AfterCheck     == IF height = 1 THEN "autostake" ELSE AfterAutoStake

-----------------------------------------------------------------------------
(***************************************************************************)
(* begin_block: checkAndSaveValidators(), fetchAutoStake() at height 1,    *)
(* updateSlashedValidator().                                               *)
(***************************************************************************)
Listed == Existing(Block.state) \cap addressCache

\* Tokens are compared, shares are not.
NeedsPower(v) ==
    v \in DOMAIN validatorCache => validatorCache[v].tokens # Block.state.power[v].tokens

Cached(vs) ==
    [v \in DOMAIN validatorCache \cup vs |->
        IF v \in vs THEN Block.state.power[v] ELSE validatorCache[v]]

InCheck ==
    /\ pc = "check"
    /\ pc' = AfterCheck
    /\ UNCHANGED <<chainVars, saved, addressCache, height, next, spoiled>>

CheckValidators ==
    LET changed == {v \in Listed : NeedsPower(v)} IN
    /\ InCheck
    /\ changed \subseteq work.infos
    /\ work' = [work EXCEPT !.powers = @ \cup {PowerRow(v, Block.state.power[v], height) : v \in changed}]
    /\ validatorCache' = Cached(Listed)
    /\ UNCHANGED <<aborted, faults>>

\* A row is refused, or its query fails; the catch block takes the error for a
\* validator that is not known yet, and goes on.
CheckFails ==
    LET changed == {v \in Listed : NeedsPower(v)} IN
    /\ InCheck
    /\ IF changed \subseteq work.infos THEN changed # {} /\ Fault ELSE UNCHANGED faults
    /\ aborted' = TRUE
    /\ \E before \in SUBSET (changed \cap work.infos) :
          before # changed /\ validatorCache' = Cached((Listed \ changed) \cup before)
    /\ UNCHANGED work

\* getConsensusAddress() finds the validators of these delegations.
AddressesKnown(delegations) == \A x \in delegations : x.validator \in addressCache

Stores(delegations) ==
    /\ ~aborted /\ AddressesKnown(delegations)
    /\ work' = Fetched(work, delegations, height)

InBlock == UNCHANGED <<chainVars, saved, aborted, height, spoiled, faults>>

FetchAutoStake ==
    /\ pc = "autostake"
    /\ Stores(DelegationsOf(Delegator))
    /\ pc' = AfterAutoStake
    /\ InBlock /\ UNCHANGED <<cacheVars, next>>

\* The parameters of the genesis have no `unbondingTime': it is taken for 0.
UnbondingHeight == height

Bonded(row) == \E n \in row.shares : n > 0 \/ (n = 0 /\ row.height >= UnbondingHeight)

\* DISTINCT ON (delegator): any of a delegator's last rows may be the one.
MayBeSlashed ==
    LET rows(d) == UNION {LastOf(StakesOf(work, d, v)) : v \in Block.slashed}
        some == {d \in Delegator : \E row \in rows(d) : Bonded(row)}
        all  == {d \in some : \A row \in rows(d) : Bonded(row)}
    IN  {delegators \in SUBSET some : all \subseteq delegators}

UpdateSlashed ==
    /\ pc = "slash"
    /\ \E delegators \in MayBeSlashed : Stores(DelegationsOf(delegators))
    /\ pc' = "messages"
    /\ InBlock /\ UNCHANGED <<cacheVars, next>>

-----------------------------------------------------------------------------
(***************************************************************************)
(* The messages of the block, then periodic/1000.                          *)
(***************************************************************************)
Message == Block.messages[next]

Handles(type) ==
    /\ pc = "messages" /\ next <= Len(Block.messages) /\ Message.type = type
    /\ next' = next + 1
    /\ InBlock /\ UNCHANGED <<validatorCache, pc>>

\* Mutant: the address is not cached.
CreateValidator_Uncached ==
    LET m == Message IN
    /\ Handles("create")
    /\ ~aborted /\ m.validator \notin work.infos
    /\ work' = [AddStake(work, Stake(m.delegator, m.validator, m.amount, {m.amount}, height))
                   EXCEPT !.infos = @ \cup {m.validator},
                          !.profiles = @ \cup {ProfileRow(m.validator, m.profile, height)}]
    /\ UNCHANGED addressCache

CreateValidator ==
    LET m == Message IN
    /\ Handles("create")
    /\ ~aborted /\ m.validator \notin work.infos
    /\ work' = [AddStake(work, Stake(m.delegator, m.validator, m.amount, {m.amount}, height))
                   EXCEPT !.infos = @ \cup {m.validator},
                          !.profiles = @ \cup {ProfileRow(m.validator, m.profile, height)}]
    /\ addressCache' = addressCache \cup {m.validator}

\* delegate() asks the database only about a validator it finds in the cache.
CanDelegate(v) == v \in addressCache /\ (aborted => v \notin DOMAIN validatorCache)

Delegate ==
    LET m == Message IN
    /\ Handles("delegate")
    /\ CanDelegate(m.validator)
    /\ work' \in Delegated(work, validatorCache, m.delegator, m.validator, m.amount, height)
    /\ UNCHANGED addressCache

CanRedelegate(m) ==
    /\ ~aborted
    /\ {m.validator, m.to} \subseteq addressCache
    /\ CanWithdraw(work, m.delegator, m.validator, height)

Redelegate ==
    LET m == Message IN
    /\ Handles("redelegate")
    /\ CanRedelegate(m)
    /\ \E t \in Withdrawn(work, m.delegator, m.validator, m.amount, height) :
          work' \in Delegated(t, validatorCache, m.delegator, m.to, m.amount, height)
    /\ UNCHANGED addressCache

\* The handler decodes the message and leaves it at that.
Undelegate == Handles("undelegate") /\ UNCHANGED <<work, addressCache>>

EditValidator ==
    LET m == Message IN
    /\ Handles("edit")
    /\ ~aborted
    /\ work' \in Edited(work, m.validator, m.moniker, m.rate, height)
    /\ UNCHANGED addressCache

Handled  == pc = "messages" /\ next > Len(Block.messages)
Periodic == height % PoolInterval = 0

SumTokens(s) == FoldFunction(LAMBDA power, sum : power.tokens + sum, 0, s.power)

SavePool ==
    /\ Handled /\ Periodic
    /\ ~aborted
    /\ work' = PoolSaved(work, SumTokens(Block.state), height)
    /\ pc' = "commit"
    /\ InBlock /\ UNCHANGED <<cacheVars, next>>

-----------------------------------------------------------------------------
(***************************************************************************)
(* What a handler throws in spite of a node and a database that work.      *)
(***************************************************************************)
MessageThrows(m) ==
    CASE m.type = "create"     -> aborted \/ m.validator \in work.infos
      [] m.type = "delegate"   -> ~CanDelegate(m.validator)
      [] m.type = "redelegate" -> ~CanRedelegate(m)
      [] m.type = "undelegate" -> FALSE
      [] m.type = "edit"       -> aborted \/ \A row \in work.profiles : row.validator # m.validator

Throws ==
    \/ pc = "autostake" /\ (aborted \/ ~AddressesKnown(DelegationsOf(Delegator)))
    \/ pc = "slash" /\ (aborted \/ \E ds \in MayBeSlashed : ~AddressesKnown(DelegationsOf(ds)))
    \/ pc = "messages" /\ next <= Len(Block.messages) /\ MessageThrows(Message)
    \/ Handled /\ Periodic /\ aborted

Throw ==
    /\ Throws
    /\ pc' = "rollback"
    /\ UNCHANGED <<chainVars, tableVars, cacheVars, height, next, spoiled, faults>>

\* The node or the database fails a handler.
HandlerFails ==
    /\ pc \in {"check", "autostake", "slash", "messages"}
    /\ Fault
    /\ pc' = "rollback"
    /\ UNCHANGED <<chainVars, tableVars, cacheVars, height, next, spoiled>>

-----------------------------------------------------------------------------
\* Every listener answered.  COMMIT of an aborted transaction rolls back without
\* an error, and the loop goes on.
CommitBlock ==
    /\ IF Periodic THEN pc = "commit" ELSE Handled
    /\ saved' = IF aborted THEN saved ELSE work
    /\ work' = saved'
    /\ spoiled' = (spoiled \/ aborted)
    /\ aborted' = FALSE
    /\ height' = height + 1
    /\ pc' = "idle" /\ next' = 1
    /\ UNCHANGED <<chainVars, cacheVars, faults>>

\* getNextHeight()
NextHeight == IF saved.blocks = {} THEN 1 ELSE Max(saved.blocks) + 1

Restarted ==
    /\ work' = saved /\ aborted' = FALSE
    /\ height' = NextHeight
    /\ pc' = "idle" /\ next' = 1
    /\ UNCHANGED <<chainVars, saved>>

RollBack ==
    /\ pc = "rollback"
    /\ Restarted
    /\ spoiled' = TRUE
    /\ UNCHANGED <<cacheVars, faults>>

\* A new process reads validator_infos; what it reads of the voting powers it
\* keeps under addresses where nothing looks for them.
Crash ==
    /\ pc # "idle" \/ height <= LastBlock
    /\ Fault
    /\ Restarted
    /\ addressCache' = saved.infos /\ validatorCache' = <<>>
    /\ spoiled' = FALSE

BlockStep ==
    \/ StartBlock \/ CheckValidators \/ CheckFails \/ FetchAutoStake \/ UpdateSlashed
    \/ CreateValidator \/ Delegate \/ Redelegate \/ Undelegate \/ EditValidator
    \/ SavePool \/ CommitBlock

Next == BlockStep \/ Throw \/ RollBack \/ HandlerFails \/ Crash

Spec == Init /\ [][Next]_vars

-----------------------------------------------------------------------------
(***************************************************************************)
(* Properties                                                              *)
(***************************************************************************)
BlockCommitted == saved'.blocks # saved.blocks

\* Rows a handler or a reader of the table may get.
Readable(rows) == FirstOf(rows) \cup LastOf(rows)

StakeMatches(rows, p, h) ==
    LET s == StateAt(h) IN
    /\ \A row \in rows : row.amount = Balance(s, p) /\ row.shares = {s.shares[p]}
    /\ rows = {} => s.shares[p] = 0

Touches(m, p) ==
    /\ m.type # "edit"
    /\ m.delegator = p[1]
    /\ p[2] = m.validator \/ (m.type = "redelegate" /\ p[2] = m.to)

\* The rate of the last voting power is the one of the chain.
RateKnown(t, v) ==
    LET power == StateAt(height - 1).power[v] IN
    \A row \in PowersOf(t, v, height) :
        row.tokens > 0 /\ row.tokens * power.shares = row.shares * power.tokens

\* Messages that the tables follow.
Followed(t, m, p) ==
    LET before == Existing(StateAt(height - 1)) IN
    CASE m.type = "create"     -> TRUE
      [] m.type = "delegate"   -> m.validator \in before
      [] m.type = "redelegate" -> IF p[2] = m.to THEN m.to \in before ELSE RateKnown(t, m.validator)
      [] m.type = "undelegate" -> FALSE

\* The block leaves the delegation alone, or changes it once, in a way the tables
\* follow and not in a block for which the node is asked.
Simple(t, p) ==
    LET touching == {i \in DOMAIN Block.messages : Touches(Block.messages[i], p)} IN
    \/ touching = {}
    \/ /\ Cardinality(touching) = 1 /\ \A i \in touching : Followed(t, Block.messages[i], p)
       /\ height > 1 /\ Block.slashed = {}

\* Where the readable rows of a delegation have the tokens and the shares of the
\* chain, a simple block that is committed leaves the last row with those of the
\* chain: whatever other messages the block has, whoever else is slashed, however
\* often it was tried and whatever process or attempt came before.
DelegationsCarriedOn ==
    [][BlockCommitted => \A p \in Pairs :
         /\ StakeMatches(Readable(StakesOf(saved, p[1], p[2])), p, height - 1)
         /\ Simple(saved', p)
         => StakeMatches(LastOf(StakesOf(saved', p[1], p[2])), p, height)]_vars

ProfilesOf(t, v) == {row \in t.profiles : row.validator = v}

ProfileMatches(rows, v, h) ==
    IF v \in Existing(StateAt(h))
    THEN rows = {ProfileRow(v, StateAt(h).profile[v], row.height) : row \in rows} /\ rows # {}
    ELSE rows = {}

\* The messages of the block that write a profile of v.
Rewrites(v) == {m \in ToSet(Block.messages) : m.type \in {"create", "edit"} /\ m.validator = v}

RewrittenOnce(v) ==
    /\ \A i, j \in DOMAIN Block.messages :
          Block.messages[i] \in Rewrites(v) /\ Block.messages[j] \in Rewrites(v) => i = j
    /\ \A m \in Rewrites(v) : m.type = "edit" => Empty \notin {m.moniker, m.rate}

\* The same of descriptions and commissions, for a validator that does not leave: one
\* edit a block is recorded as the chain has it, unless it clears a field.
ProfilesCarriedOn ==
    [][BlockCommitted => \A v \in Existing(Block.state) :
         /\ ProfileMatches(Readable(ProfilesOf(saved, v)), v, height - 1)
         /\ RewrittenOnce(v)
         => ProfileMatches(LastOf(ProfilesOf(saved', v)), v, height)]_vars

\* There before and after one of these blocks: begin_block has recorded its power.
Seen(v) == \E h \in 1 .. height : v \in Existing(StateAt(h - 1)) \cap Existing(StateAt(h))

\* Blocks that the code cannot index at all: the node answers with a delegation
\* to a validator that has no address yet, a redelegation needs the power of one
\* that was not seen, or a validator that left comes back, whose rows are still there.
Doomed ==
    LET new     == Existing(Block.state) \ Existing(StateAt(height - 1))
        created == {m.validator : m \in {x \in ToSet(Block.messages) : x.type = "create"}}
    IN  \/ new # {} /\ (height = 1 \/ Block.slashed # {})
        \/ \E m \in ToSet(Block.messages) : m.type = "redelegate" /\ ~Seen(m.validator)
        \/ \E h \in 0 .. height - 1 : Existing(StateAt(h)) \cap created # {}

\* Handlers throw of themselves only in such a block, as long as the process has
\* rolled nothing back and no query of the block has failed.
OnlyDoomedBlocksThrow ==
    [][Throw /\ ~spoiled /\ ~aborted => Doomed]_vars
=============================================================================

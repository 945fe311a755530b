---------------------------- MODULE StakingTables ----------------------------
(***************************************************************************)
(* The tables of the staking module that its messages change               *)
(* (core-modules/src/cosmos.staking.v1beta1), and the functions that read  *)
(* and write them: staked_balances, validator_voting_powers, the pool, and *)
(* descriptions with commissions, here one table of profiles.              *)
(*                                                                         *)
(* The rows of the genesis have no height; here it is 0, which no block    *)
(* has.  No table but staking_pool is kept from having several rows of one *)
(* height.  Shares that are not a number form the empty set, others a      *)
(* singleton.                                                              *)
(***************************************************************************)
EXTENDS Integers, FiniteSets

CONSTANTS Keep, Empty    \* what an edit of a field may say: "[do-not-modify]", ""

Stake(d, v, amount, shares, h) ==
    [delegator |-> d, validator |-> v, amount |-> amount, shares |-> shares, height |-> h]

PowerRow(v, power, h) ==
    [validator |-> v, tokens |-> power.tokens, shares |-> power.shares, height |-> h]

ProfileRow(v, profile, h) ==
    [validator |-> v, moniker |-> profile.moniker, rate |-> profile.rate, height |-> h]

AddStake(t, row) == [t EXCEPT !.stakes = @ \cup {row}]

\* ORDER BY height DESC NULLS LAST LIMIT 1 returns any of these rows.
LastOf(rows) == {row \in rows : \A other \in rows : other.height <= row.height}

\* ORDER BY height DESC LIMIT 1: rows without a height come first.
FirstOf(rows) ==
    LET genesis == {row \in rows : row.height = 0}
    IN  IF genesis # {} THEN genesis ELSE LastOf(rows)

StakesOf(t, d, v) == {row \in t.stakes : row.delegator = d /\ row.validator = v}

-----------------------------------------------------------------------------
\* Mutant: the rate the other way round.
SharesFor_Inverse(n, power) ==
    IF power.tokens = 0 THEN {} ELSE {(n * power.tokens) \div power.shares}

\* tokensToShares(): n tokens divided by the rate, tokens per share.  A validator
\* without tokens has no shares either, where a slash leaves some tokens, and 0 by 0
\* is not a number.
SharesFor(n, power) ==
    IF power.tokens = 0 THEN {} ELSE {(n * power.shares) \div power.tokens}

Plus(s, t)  == {a + b : a \in s, b \in t}
Minus(s, t) == {a - b : a \in s, b \in t}

\* delegate(): the tables it may leave.  Nothing is written for a validator that
\* is not in validatorCache.
Delegated(t, cache, d, v, n, h) ==
    LET rows == FirstOf(StakesOf(t, d, v))
        new  == SharesFor(n, cache[v])
    IN  IF v \notin DOMAIN cache THEN {t}
        ELSE IF rows = {} THEN {AddStake(t, Stake(d, v, n, new, h))}
        ELSE {AddStake(t, Stake(d, v, row.amount + n, Plus(row.shares, new), h)) : row \in rows}

\* tokensToSharesAtHeight() throws if the validator has no voting power.
PowersOf(t, v, h) == LastOf({row \in t.powers : row.validator = v /\ row.height <= h})

\* What redelegate() takes from the source, before it delegates to the other.
Withdrawn(t, d, v, n, h) ==
    LET rows == FirstOf(StakesOf(t, d, v))
    IN  IF rows = {} THEN {t}
        ELSE {AddStake(t, Stake(d, v, row.amount - n, Minus(row.shares, SharesFor(n, power)), h)) :
                row \in rows, power \in PowersOf(t, v, h)}

CanWithdraw(t, d, v, h) == StakesOf(t, d, v) = {} \/ PowersOf(t, v, h) # {}

\* updateDelegatorDelegations() and fetchAutoStake(): what the node answers is
\* stored; a delegation that is gone is not among it.
Fetched(t, delegations, h) ==
    [t EXCEPT !.stakes = @ \cup
        {Stake(x.delegator, x.validator, x.amount, {x.shares}, h) : x \in delegations}]

-----------------------------------------------------------------------------
\* Mutant: an edit keeps nothing.
Edit_All(old, new) == new

\* MsgEditValidator: a field that is not set keeps its value, and so does one that
\* is set to the empty string.
Edit(old, new) == IF new \in {Keep, Empty} THEN old ELSE new

Edited(t, v, moniker, rate, h) ==
    LET rows == FirstOf({row \in t.profiles : row.validator = v})
    IN  {[t EXCEPT !.profiles = @ \cup
            {ProfileRow(v, [moniker |-> Edit(descr.moniker, moniker),
                            rate    |-> Edit(commission.rate, rate)], h)}] :
            descr \in rows, commission \in rows}

\* savePool(): a pool that was recorded before is not recorded again.
PoolSaved(t, total, h) ==
    IF \E row \in t.pools : row.total = total THEN t
    ELSE [t EXCEPT !.pools = @ \cup {[total |-> total, height |-> h]}]
=============================================================================

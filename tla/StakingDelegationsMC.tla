------------------------ MODULE StakingDelegationsMC ------------------------
(***************************************************************************)
(* Instances of StakingDelegations for TLC: one genesis validator with two *)
(* tokens, so that a slash by half leaves whole tokens, one validator that *)
(* a message creates, and the messages that meet in one chain.             *)
(***************************************************************************)
EXTENDS StakingDelegations

CONSTANTS alice, bob, v1, v2, first, second

GenesisAlice == v1 :> [delegator |-> alice, amount |-> 2,
                       profile |-> [moniker |-> first, rate |-> first]]

Create == [type |-> "create", delegator |-> bob, validator |-> v2, amount |-> 1,
           profile |-> [moniker |-> first, rate |-> first]]

Delegates(d, v, n) == [type |-> "delegate", delegator |-> d, validator |-> v, amount |-> n]

Redelegates(n) ==
    [type |-> "redelegate", delegator |-> alice, validator |-> v1, to |-> v2, amount |-> n]

RedelegatesBack ==
    [type |-> "redelegate", delegator |-> bob, validator |-> v2, to |-> v1, amount |-> 1]

Undelegates(d, n) == [type |-> "undelegate", delegator |-> d, validator |-> v1, amount |-> n]

Edits(v, moniker, rate) ==
    [type |-> "edit", validator |-> v, moniker |-> moniker, rate |-> rate]

\* Stakes that move, and profiles that change.
StakesAndProfiles ==
    {{Create, Delegates(bob, v1, 1), Delegates(alice, v2, 1), Redelegates(1), RedelegatesBack,
      Undelegates(alice, 1)},
     {Create, Edits(v1, second, Keep), Edits(v2, Keep, second), Edits(v2, Empty, second)}}
=============================================================================

------------------------------ MODULE EventBusMC ------------------------------
(***************************************************************************)
(* An instance of EventBus for TLC: `block' has two listeners, one of which*)
(* has genesis balances stored by two more, a message nobody handles, and  *)
(* end_block with one listener.                                            *)
(***************************************************************************)
EXTENDS EventBus, TLC

CONSTANTS block, balances, message, end_block, auth, blocks, bank, other

BlockListeners ==
    block :> {auth, blocks} @@ balances :> {bank, other} @@ message :> {} @@ end_block :> {bank}

BalancesInBlock == auth :> balances

EventsOfBlock == <<block, message, end_block>>
=============================================================================

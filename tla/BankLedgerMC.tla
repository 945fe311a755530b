---------------------------- MODULE BankLedgerMC ----------------------------
(***************************************************************************)
(* Genesis files and events for TLC: two accounts and the pool, two        *)
(* denominations.  The account bob is that of a module of the chain's own, *)
(* which mints, and which the auth module does not ask about.              *)
(***************************************************************************)
EXTENDS BankLedger, TLC

CONSTANTS alice, bob, pool, atom, photon

Known(a) == GenesisRow(a, NoCoins)
Owns(a, d, n) == GenesisRow(a, (d :> n))

\* A genesis that imports, and one with an account that holds two coins.
GoodFile ==
    [accounts |-> <<Known(alice), Known(bob)>>,
     balances |-> <<Owns(alice, atom, 3), Owns(bob, photon, 1)>>,
     gen_txs  |-> <<Owns(alice, atom, 1)>>]

MixedFile ==
    [accounts |-> <<Known(alice)>>,
     balances |-> <<GenesisRow(alice, (atom :> 1) @@ (photon :> 1))>>,
     gen_txs  |-> <<>>]

TwoFiles == {GoodFile, MixedFile}

Event(type, a, coins) == [type |-> type, address |-> a, coins |-> coins]
One  == atom :> 1
Both == (atom :> 1) @@ (photon :> 1)

LedgerEvents ==
    {Event("coin_spent", alice, One), Event("coin_spent", alice, Both),
     Event("coin_received", alice, Both), Event("coin_received", bob, One),
     Event("coin_spent", bob, One), Event("coinbase", bob, One),
     Event("coin_spent", pool, One), Event("burn", pool, One),
     Event("coin_received", pool, Both)}
=============================================================================

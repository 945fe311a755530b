----------------------------- MODULE BankTables -----------------------------
(***************************************************************************)
(* The tables of the auth and bank modules and the functions that read and *)
(* write them (core-modules/src/cosmos.auth.v1beta1 and cosmos.bank.v1beta1)*)
(*                                                                         *)
(* Coins, a COIN[] of the database, are a function from the denominations  *)
(* that have an entry to amounts.  The rows of the genesis have no height; *)
(* UNIQUE (address, height) does not see them, so that an address may have *)
(* several.  Rows that say the same are one here: nobody counts them.      *)
(***************************************************************************)
EXTENDS Integers, Sequences, SequencesExt

NoCoins == <<>>
Amount(coins, d) == IF d \in DOMAIN coins THEN coins[d] ELSE 0

EmptyTables ==
    [blocks |-> {}, accounts |-> {}, validators |-> {}, genesis |-> {}, balances |-> {}]

BalanceRow(a, h, coins) == [address |-> a, height |-> h, coins |-> coins]
GenesisRow(a, coins) == [address |-> a, coins |-> coins]

\* assertAccount() and assertAccounts()
AssertAccount(t, a) == [t EXCEPT !.accounts = @ \cup {a}]

-----------------------------------------------------------------------------
(***************************************************************************)
(* getBalance(): the latest row up to height h, else a row of the genesis, *)
(* of which LIMIT 1 returns any.  No height compares with an undefined one,*)
(* which the genesis passes: here it is 0, which no block has.             *)
(***************************************************************************)
GetBalance(t, a, h) ==
    LET rows    == {row \in t.balances : row.address = a /\ row.height <= h}
        latest  == {row \in rows : \A other \in rows : other.height <= row.height}
        genesis == {row \in t.genesis : row.address = a}
    IN  IF rows # {} THEN {row.coins : row \in latest}
        ELSE IF genesis # {} THEN {row.coins : row \in genesis}
        ELSE {NoCoins}

\* increaseBalance()
Increased(balance, coins) ==
    [d \in DOMAIN balance \cup DOMAIN coins |-> Amount(balance, d) + Amount(coins, d)]

\* Mutant: the subtraction the other way round.
Decreased_Reversed(balance, coins) ==
    [d \in DOMAIN balance \cup DOMAIN coins |-> Amount(coins, d) - Amount(balance, d)]

\* decreaseBalance(): a coin without an entry becomes one as it is, unsigned.
Decreased(balance, coins) ==
    [d \in DOMAIN balance \cup DOMAIN coins |->
        IF d \in DOMAIN balance THEN balance[d] - Amount(coins, d) ELSE coins[d]]

\* Mutant: the upsert updates all rows of the address.
SaveBalance_AllRows(t, a, coins, h) ==
    [AssertAccount(t, a) EXCEPT
        !.balances = {[row EXCEPT !.coins = IF row.address = a THEN coins ELSE @] : row \in @}
                     \cup {BalanceRow(a, h, coins)}]

\* saveBalance() inserts or updates the row of the height.
SaveBalance(t, a, coins, h) ==
    [AssertAccount(t, a) EXCEPT
        !.balances = {row \in @ : ~(row.address = a /\ row.height = h)}
                     \cup {BalanceRow(a, h, coins)}]

\* saveGenesisBalance() deletes the rows without a height and inserts one.
SaveGenesisBalance(t, a, coins) ==
    [AssertAccount(t, a) EXCEPT
        !.genesis = {row \in @ : row.address # a} \cup {GenesisRow(a, coins)}]

\* The listener of genesis balances inserts without looking.
InsertGenesisBalance(t, a, coins) ==
    [AssertAccount(t, a) EXCEPT !.genesis = @ \cup {GenesisRow(a, coins)}]

\* It puts all coins of an account between one pair of quotes, which PostgreSQL
\* reads as one COIN: it accepts exactly one.
WellFormed(coins) == \E d \in DOMAIN coins : DOMAIN coins = {d}
=============================================================================

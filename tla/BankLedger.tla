----------------------------- MODULE BankLedger -----------------------------
(***************************************************************************)
(* The balances table, block by block: eventHandler() of the bank module   *)
(* reads the balance an event changes and writes it for the height of the  *)
(* block, in the transaction of the block, after the import of the genesis.*)
(*                                                                         *)
(* Between the read and the write of an event another listener may fail    *)
(* the block; the handler then runs on into the rollback and beyond it.    *)
(* `chain' holds what the node reports, and what the accounts really hold: *)
(* it moves coins with coin_received and coin_spent, and announces the ones*)
(* it mints and burns once more, which the handler counts again.  An       *)
(* attempt sees the same block as the one before.                          *)
(***************************************************************************)
EXTENDS GenesisImport

CONSTANTS
    Events,      \* events a block may report: [type, address, coins]
    MaxEvents,   \* bound on the events of a block
    LastBlock,   \* bound: the chain has the blocks 1 .. LastBlock
    MaxFaults    \* bound on failures of listeners and the database and on crashes

ASSUME LedgerAssumption ==
    /\ LastBlock \in Nat \ {0} /\ MaxEvents \in Nat /\ MaxFaults \in Nat
    /\ \A e \in Events : e.address \in Account /\ IsCoins(e.coins) /\ e.coins # NoCoins

VARIABLES
    chain,    \* blocks made so far: [events, held]
    height,   \* block in work
    next,     \* its event to be handled next
    job,      \* the row eventHandler() is about to write, or NoJob
    faults

blockVars == <<chain, height, next, job, faults>>
vars == <<importVars, blockVars>>

NoJob == BalanceRow("none", 0, NoCoins)

Init ==
    /\ ImportInit
    /\ chain = <<>>
    /\ height = 0 /\ next = 1
    /\ job = NoJob
    /\ faults = 0

Fault == faults < MaxFaults /\ faults' = faults + 1

-----------------------------------------------------------------------------
(***************************************************************************)
(* The chain.                                                              *)
(***************************************************************************)
IsMove(e) == e.type \in {"coin_received", "coin_spent"}

Moves(held, e) ==
    [held EXCEPT ![e.address] = [d \in Denom |->
        IF e.type = "coin_spent" THEN @[d] - Amount(e.coins, d)
        ELSE IF e.type = "coin_received" THEN @[d] + Amount(e.coins, d)
        ELSE @[d]]]

After(held, events) == FoldLeft(Moves, held, events)
HeldAt(h) == IF h = 0 THEN GenesisHeld ELSE chain[h].held

\* MintCoins of the bank keeper reports the coins received, then the coinbase;
\* BurnCoins reports them spent, then the burn.
Announces(type) == IF type = "coinbase" THEN "coin_received" ELSE "coin_spent"

\* Nobody spends more than it has, and what is announced has just been moved.
Possible(held, events) ==
    /\ \A i \in DOMAIN events : \A a \in Account, d \in Denom :
          After(held, SubSeq(events, 1, i))[a][d] >= 0
    /\ \A i \in DOMAIN events : ~IsMove(events[i]) =>
          i > 1 /\ events[i - 1] = [events[i] EXCEPT !.type = Announces(@)]

BlockOnChain(h) ==
    IF h \in DOMAIN chain THEN UNCHANGED chain
    ELSE \E n \in 0 .. MaxEvents : \E events \in [1 .. n -> Events] :
            /\ Possible(HeldAt(h - 1), events)
            /\ chain' = Append(chain, [events |-> events,
                                       held   |-> After(HeldAt(h - 1), events)])

-----------------------------------------------------------------------------
(***************************************************************************)
(* The transaction of a block.                                             *)
(***************************************************************************)
(***************************************************************************)
(* With block 1 the auth module asks the node for its module accounts,     *)
(* whose balances the gen_txs have changed without an event.  A query at   *)
(* height 1 is answered from the state after block 1.  The answer goes to  *)
(* the listener of genesis balances, which refuses several coins of one    *)
(* account here as it does in the import.                                  *)
(***************************************************************************)
Answer(held) == [d \in {c \in Denom : held[c] > 0} |-> held[d]]

ImportModuleAccount(t, coins) ==
    IF coins = NoCoins THEN AssertAccount(t, BondedPool)
    ELSE InsertGenesisBalance(t, BondedPool, coins)

BlockEvents == IF height = 0 THEN <<>> ELSE chain[height].events
Ended       == Len(BlockEvents) + 1
HandlerDone == job = NoJob /\ next = Ended

\* BEGIN and the listeners of "block"; whoever an earlier attempt left behind is
\* done when start() comes back, since it only queries the database.  Block 1 is
\* refused, whenever it is tried, if the answer has several coins.
StartBlock ==
    /\ pc = "idle" /\ HandlerDone
    /\ saved.blocks # 1 .. LastBlock
    /\ height' = IF saved.blocks = {} THEN 1 ELSE Max(saved.blocks) + 1
    /\ BlockOnChain(height')
    /\ LET row     == [saved EXCEPT !.blocks = @ \cup {height'}]
           coins   == Answer(chain'[height'].held[BondedPool])
           refused == height' = 1 /\ coins # NoCoins /\ ~WellFormed(coins)
       IN  /\ work' = IF height' = 1 /\ ~refused THEN ImportModuleAccount(row, coins) ELSE row
           /\ pc' = IF refused THEN "rollback" ELSE "block"
           /\ next' = IF refused THEN Len(chain'[height'].events) + 1 ELSE 1
    /\ UNCHANGED <<file, saved, reader, chunk, job, faults>>

\* What the handler takes for spent; it takes the rest for received.
IsDebit(e) == e.type \in {"coin_spent", "burn"}

Changed(balance, e) ==
    IF IsDebit(e) THEN Decreased(balance, e.coins) ELSE Increased(balance, e.coins)

\* eventHandler() comes to an event and has the balance of its account.
ReadEvent ==
    /\ job = NoJob /\ next # Ended
    /\ LET e == BlockEvents[next]
       IN  \E balance \in GetBalance(work, e.address, height) :
              job' = BalanceRow(e.address, height, Changed(balance, e))
    /\ next' = next + 1
    /\ UNCHANGED <<importVars, chain, height, faults>>

(***************************************************************************)
(* It writes it, in the transaction that is open or outside of one.  The   *)
(* row refers to its block: without it only the account is stored, and the *)
(* error ends the handler.                                                 *)
(***************************************************************************)
Written(t) ==
    IF job.height \in t.blocks THEN SaveBalance(t, job.address, job.coins, job.height)
    ELSE AssertAccount(t, job.address)

WriteBalance ==
    /\ job # NoJob
    /\ work' = Written(work)
    /\ saved' = IF pc = "idle" THEN Written(saved) ELSE saved
    /\ job' = NoJob
    /\ next' = IF job.height \in work.blocks THEN next ELSE Ended
    /\ UNCHANGED <<file, pc, reader, chunk, chain, height, faults>>

\* Another listener fails, or a query of the handler, which ends it.
BlockFails ==
    /\ pc = "block" /\ Fault
    /\ pc' = "rollback"
    /\ \/ UNCHANGED <<job, next>>
       \/ job' = NoJob /\ next' = Ended
    /\ UNCHANGED <<file, saved, work, reader, chunk, chain, height>>

RollBack ==
    /\ pc = "rollback"
    /\ work' = saved
    /\ pc' = "idle"
    /\ UNCHANGED <<file, saved, reader, chunk, blockVars>>

BlockHandled == pc = "block" /\ HandlerDone

CommitBlock ==
    /\ BlockHandled
    /\ saved' = work
    /\ pc' = "idle"
    /\ UNCHANGED <<file, work, reader, chunk, blockVars>>

\* The connection is lost while the server commits.
CommitLost ==
    /\ BlockHandled /\ Fault
    /\ saved' \in {saved, work}
    /\ work' = saved'
    /\ pc' = "rollback"
    /\ UNCHANGED <<file, reader, chunk, chain, height, next, job>>

Crash ==
    /\ Fault
    /\ Restart
    /\ job' = NoJob /\ next' = Ended
    /\ UNCHANGED <<chain, height>>

BlockStep ==
    StartBlock \/ ReadEvent \/ WriteBalance \/ BlockFails \/ RollBack \/ CommitBlock \/ CommitLost

Next ==
    \/ ImportStep /\ UNCHANGED blockVars
    \/ BlockStep
    \/ Crash

Spec == Init /\ [][Next]_vars

-----------------------------------------------------------------------------
(***************************************************************************)
(* Properties                                                              *)
(***************************************************************************)
IsAmounts(coins) ==
    DOMAIN coins \subseteq Denom /\ \A d \in DOMAIN coins : coins[d] \in Int

TablesOK(t) ==
    /\ t.blocks \subseteq 1 .. LastBlock
    /\ t.accounts \subseteq Account /\ t.validators \subseteq Account
    /\ \A row \in t.genesis : row.address \in Account /\ IsCoins(row.coins)
    /\ \A row \in t.balances :
          row.address \in Account /\ row.height \in t.blocks /\ IsAmounts(row.coins)

LedgerTypeOK ==
    /\ TablesOK(saved) /\ TablesOK(work)
    /\ pc \in {"boot", "import", "commit_chunks", "dead", "idle", "block", "rollback"}
    /\ reader \in 1 .. Len(Readers) /\ chunk \in 0 .. Len(Entries)
    /\ height \in 0 .. LastBlock /\ next \in 1 .. MaxEvents + 1
    /\ job = NoJob \/ (job.address \in Account /\ job.height \in 1 .. LastBlock
                       /\ IsAmounts(job.coins))
    /\ faults \in 0 .. MaxFaults

\* The accounts that the table is meant to follow up to height h: nothing was minted
\* to them or burned from them, and the module account was not touched in block 1.
Exact(h) ==
    {a \in Account : \A k \in 1 .. h : \A i \in DOMAIN chain[k].events :
        LET e == chain[k].events[i]
        IN  e.address = a => IsMove(e) /\ (a = BondedPool => k > 1)}

\* At every height that is committed, such an account is found to hold what it
\* holds on the chain, and so nothing negative: imports that were interrupted,
\* attempts that were rolled back and handlers they left behind have added or lost
\* nothing, and neither has what happened to other accounts.
BalancesMatchChain ==
    \A h \in saved.blocks : \A a \in Exact(h) :
        \A balance \in GetBalance(saved, a, h) : \A d \in Denom :
            Amount(balance, d) = HeldAt(h)[a][d]

\* What the tables tell of a block that is committed is never changed.
HistoryStands ==
    [][\A h \in saved.blocks :
          {row \in saved'.balances : row.height = h} = {row \in saved.balances : row.height = h}]_vars
=============================================================================

--------------------------- MODULE GenesisImport ---------------------------
(***************************************************************************)
(* start() of a new process: shouldProcessGenesis() looks at the blocks    *)
(* table, and parseGenesis() reads the arrays of the genesis file one after*)
(* the other, hands each chunk to the listeners of the auth, bank and      *)
(* staking modules and commits after every few chunks of an array.         *)
(*                                                                         *)
(* A chunk has one entry here (GENESIS_BATCH_SIZE), and the validators of  *)
(* the genesis are those of its gen_txs.                                   *)
(***************************************************************************)
EXTENDS BankTables

CONSTANTS
    Account, Denom,
    BondedPool,        \* the module account that holds what is staked
    Files,             \* genesis files: [accounts, balances, gen_txs], each an array
    ProcessGenesis,    \* config.processGenesis, with startHeight 1
    ChunksPerCommit    \* chunks of an array in one transaction (5 in the code)

VARIABLES
    file,       \* the genesis file
    saved,      \* the tables, committed
    work,       \* the tables as the open transaction sees them
    pc,         \* where start() or the loop is
    reader,     \* number of the array that is read
    chunk       \* its chunks handled

importVars == <<file, saved, work, pc, reader, chunk>>

Readers == <<"accounts", "balances", "gen_txs">>

IsCoins(coins) ==
    DOMAIN coins \subseteq Denom /\ \A d \in DOMAIN coins : coins[d] \in Nat

IsEntries(array) ==
    /\ Len(array) \in Nat /\ DOMAIN array = 1 .. Len(array)
    /\ \A i \in DOMAIN array :
          array[i].address \in Account \ {BondedPool} /\ IsCoins(array[i].coins)

\* What accounts hold when block 1 begins: the gen_txs have moved the self delegations
\* into the pool.
Entered(entries, a, d) ==
    LET own == {i \in DOMAIN entries : entries[i].address = a}
    IN  IF own = {} THEN 0 ELSE Amount(entries[CHOOSE i \in own : TRUE].coins, d)

HeldFirst(f) ==
    [a \in Account |-> [d \in Denom |->
        IF a = BondedPool
        THEN FoldLeft(LAMBDA sum, x : sum + Amount(x.coins, d), 0, f.gen_txs)
        ELSE Entered(f.balances, a, d) - Entered(f.gen_txs, a, d)]]

GenesisHeld == HeldFirst(file)

\* A genesis the chain starts from names an account once in an array, stakes one
\* coin, and nobody stakes more than it has.
IsGenesis(f) ==
    /\ \A k \in 1 .. Len(Readers) : IsEntries(f[Readers[k]])
    /\ \A k \in 1 .. Len(Readers) : \A i, j \in DOMAIN f[Readers[k]] :
          f[Readers[k]][i].address = f[Readers[k]][j].address => i = j
    /\ \E d \in Denom : \A i \in DOMAIN f.gen_txs : DOMAIN f.gen_txs[i].coins = {d}
    /\ HeldFirst(f) \in [Account -> [Denom -> Nat]]

GenesisAssumption ==
    /\ ChunksPerCommit \in Nat \ {0} /\ ProcessGenesis \in BOOLEAN
    /\ BondedPool \in Account
    /\ \A f \in Files : IsGenesis(f)

ASSUME GenesisAssumption

ImportInit ==
    /\ file \in Files
    /\ saved = EmptyTables /\ work = EmptyTables
    /\ pc = "boot"
    /\ reader = 1 /\ chunk = 0

\* Mutant: a genesis that was begun is taken to be done.
Boot_Begun ==
    /\ pc = "boot"
    /\ pc' = IF ProcessGenesis /\ saved = EmptyTables THEN "import" ELSE "idle"
    /\ UNCHANGED <<file, saved, work, reader, chunk>>

Boot ==
    /\ pc = "boot"
    /\ pc' = IF ProcessGenesis /\ saved.blocks = {} THEN "import" ELSE "idle"
    /\ UNCHANGED <<file, saved, work, reader, chunk>>

-----------------------------------------------------------------------------
Entries == file[Readers[reader]]
Entry   == Entries[chunk + 1]

\* The chunk processor of setArrayReader().
Reads(kind) ==
    /\ pc = "import"
    /\ Readers[reader] = kind /\ chunk < Len(Entries)

ChunkDone ==
    /\ chunk' = chunk + 1
    /\ pc' = IF chunk' % ChunksPerCommit = 0 THEN "commit_chunks" ELSE "import"
    /\ UNCHANGED <<file, saved, reader>>

ImportAccount ==
    /\ Reads("accounts")
    /\ work' = AssertAccount(work, Entry.address)
    /\ ChunkDone

ImportBalance ==
    /\ Reads("balances")
    /\ WellFormed(Entry.coins)
    /\ work' = InsertGenesisBalance(work, Entry.address, Entry.coins)
    /\ ChunkDone

\* gentx MsgCreateValidator: the rows of a validator, whose delegator is known,
\* and the balance of the delegator, since the chain reports no event of this.
CanCreate(a) == a \in work.accounts /\ a \notin work.validators

ImportGenTx ==
    /\ Reads("gen_txs")
    /\ CanCreate(Entry.address)
    /\ \E balance \in GetBalance(work, Entry.address, 0) :
          work' = SaveGenesisBalance(
                      [work EXCEPT !.validators = @ \cup {Entry.address}],
                      Entry.address, Decreased(balance, Entry.coins))
    /\ ChunkDone

\* The database refuses a chunk.  The error of a stream reaches nobody, and the
\* process ends.
ImportRefused ==
    /\ \/ Reads("balances") /\ ~WellFormed(Entry.coins)
       \/ Reads("gen_txs") /\ ~CanCreate(Entry.address)
    /\ work' = saved
    /\ pc' = "dead"
    /\ UNCHANGED <<file, saved, reader, chunk>>

CommitChunks ==
    /\ pc = "commit_chunks"
    /\ saved' = work
    /\ pc' = "import"
    /\ UNCHANGED <<file, work, reader, chunk>>

NextReader ==
    /\ pc = "import" /\ chunk = Len(Entries)
    /\ reader < Len(Readers)
    /\ reader' = reader + 1 /\ chunk' = 0
    /\ UNCHANGED <<file, saved, work, pc>>

EndImport ==
    /\ pc = "import" /\ chunk = Len(Entries)
    /\ reader = Len(Readers)
    /\ saved' = work
    /\ pc' = "idle"
    /\ UNCHANGED <<file, work, reader, chunk>>

\* The process is killed, or the database fails it during the import, and is run
\* again.  The server rolls back.
Restart ==
    /\ work' = saved
    /\ pc' = "boot"
    /\ reader' = 1 /\ chunk' = 0
    /\ UNCHANGED <<file, saved>>

ImportStep ==
    \/ Boot
    \/ ImportAccount \/ ImportBalance \/ ImportGenTx \/ ImportRefused
    \/ CommitChunks \/ NextReader \/ EndImport

=============================================================================

-------------------------- MODULE BankLedgerProofs --------------------------
(***************************************************************************)
(* Proofs about the balances table, for every genesis file and every chain *)
(* of blocks that spend no more than is there, with any number of failures,*)
(* lost commits and crashes during the import and after it.  Where blocks  *)
(* mint and burn, it is the balances of the other accounts that are shown  *)
(* to be right (Exact).                                                    *)
(*                                                                         *)
(* The inductive invariant follows the rows of the genesis through the     *)
(* import: those of an account are as in the file until its gen_tx has     *)
(* netted them, and an import that finds a gen_tx of an earlier one cannot *)
(* end.  Of a block in work it says that the tables of its transaction are *)
(* the committed ones below its height, and at its height what the chain   *)
(* holds after the events written.                                         *)
(***************************************************************************)
EXTENDS BankLedger, Maxima

Holding == [Account -> [Denom -> Nat]]
Blocks  == [events : Seq(Events), held : Holding]

\* What accounts hold after i events of block h.
Course(h, i) == After(HeldAt(h - 1), SubSeq(chain[h].events, 1, i))

\* A block that spends what is there before it.
Follows(block, before) ==
    /\ Len(block.events) <= MaxEvents
    /\ block.held = After(before, block.events)
    /\ \A i \in 0 .. Len(block.events) : After(before, SubSeq(block.events, 1, i)) \in Holding

\* Each of the accounts is found at height h to hold what `held' says.
Tells(balance, amounts) ==
    IsCoins(balance) /\ \A d \in Denom : Amount(balance, d) = amounts[d]

Matches(t, h, held, accounts) ==
    \A a \in accounts : \A balance \in GetBalance(t, a, h) : Tells(balance, held[a])

IsTables(t) ==
    t = [blocks |-> t.blocks, accounts |-> t.accounts, validators |-> t.validators,
         genesis |-> t.genesis, balances |-> t.balances]

ChainOK ==
    /\ chain \in Seq(Blocks) /\ Len(chain) <= LastBlock
    /\ \A h \in 1 .. Len(chain) : Follows(chain[h], HeldAt(h - 1))

-----------------------------------------------------------------------------
(***************************************************************************)
(* The import.                                                             *)
(***************************************************************************)
HasRow(t, a) == \E row \in t.genesis : row.address = a

\* The row is that of an entry of the file.
AsInFile(row) ==
    \E i \in DOMAIN file.balances :
        row.address = file.balances[i].address /\ row.coins = file.balances[i].coins

\* What any number of imports, the last one not ended, may leave.
BegunOK(t) ==
    /\ t.blocks = {} /\ t.balances = {}
    /\ \A row \in t.genesis : row.address \in Account \ {BondedPool} /\ IsCoins(row.coins)
    /\ \A row \in t.genesis : row.address \notin t.validators => AsInFile(row)
    /\ t.validators # {} => 1 \in DOMAIN file.gen_txs /\ file.gen_txs[1].address \in t.validators

\* How far this one is: n balances, m gen_txs.
BalancesDone == IF reader = 1 THEN 0 ELSE IF reader = 2 THEN chunk ELSE Len(file.balances)
GenTxsDone   == IF reader = 3 THEN chunk ELSE 0

Stored(t, n) == \A i \in 1 .. n : HasRow(t, file.balances[i].address)

Netted(t, m) ==
    /\ \A a \in t.validators : \E i \in 1 .. m : a = file.gen_txs[i].address
    /\ \A i \in 1 .. m : file.gen_txs[i].address \in t.validators
    /\ \A a \in t.validators :
          /\ HasRow(t, a)
          /\ \A row \in t.genesis : row.address = a => Tells(row.coins, GenesisHeld[a])

\* An earlier import has got to the gen_txs: this one will stop there.
Doomed(t, m) == m = 0 /\ t.validators # {}

ImportTables(t, n, m) == BegunOK(t) /\ Stored(t, n) /\ (Netted(t, m) \/ Doomed(t, m))

\* An import that has ended.
GenesisOK(t) ==
    \A a \in Account \ {BondedPool} :
        \A balance \in GetBalance(t, a, 0) : Tells(balance, GenesisHeld[a])

-----------------------------------------------------------------------------
Importing == pc \in {"import", "commit_chunks"}
Starting  == Importing \/ pc \in {"boot", "dead"}

SavedOK ==
    /\ IsTables(saved) /\ TablesOK(saved)
    /\ saved.blocks = {} => BegunOK(saved) /\ (~Starting => GenesisOK(saved))
    /\ \E n \in 0 .. Len(chain) :
          /\ saved.blocks = 1 .. n
          /\ \A h \in 1 .. n : Matches(saved, h, HeldAt(h), Exact(h))

ImportOK ==
    /\ file \in Files
    /\ reader \in 1 .. 3 /\ chunk \in 0 .. Len(Entries)
    /\ pc = "boot" => reader = 1 /\ chunk = 0
    /\ Importing => saved.blocks = {} /\ ImportTables(work, BalancesDone, GenTxsDone)

\* The transaction of a block, with an event read or not.
BlockTables ==
    /\ saved.blocks = 1 .. height - 1 /\ work.blocks = 1 .. height
    /\ saved.balances = {row \in work.balances : row.height # height}
    /\ height > 1 => work.genesis = saved.genesis

Working ==
    /\ height \in 1 .. Len(chain)
    /\ BlockTables
    /\ job = NoJob => Matches(work, height, Course(height, next - 1), Exact(height))
    /\ job # NoJob =>
          /\ next > 1
          /\ Matches(work, height, Course(height, next - 2), Exact(height))
          /\ job.address = BlockEvents[next - 1].address
          /\ job.address \in Exact(height) =>
                Tells(job.coins, Course(height, next - 1)[job.address])

WorkOK ==
    /\ IsTables(work) /\ TablesOK(work)
    /\ pc \in {"boot", "import", "commit_chunks", "dead", "idle", "block", "rollback"}
    /\ pc \in {"boot", "idle"} => work = saved
    /\ pc = "block" => Working
    /\ pc = "rollback" => HandlerDone \/ Working
    /\ pc = "idle" => HandlerDone \/ height \notin saved.blocks
    /\ Starting => HandlerDone

JobOK ==
    /\ height \in 0 .. Len(chain)
    /\ next \in 1 .. Ended
    /\ job = NoJob \/ (job.address \in Account /\ job.height = height /\ height > 0
                       /\ IsAmounts(job.coins))
    /\ faults \in 0 .. MaxFaults

IInv == ChainOK /\ SavedOK /\ ImportOK /\ WorkOK /\ JobOK

-----------------------------------------------------------------------------
(***************************************************************************)
(* What a block does, event by event.  FoldLeft is a recursion over sets   *)
(* of indices, of which nothing is known but that it satisfies its         *)
(* equation, if something does.                                            *)
(***************************************************************************)
IsIter(f, b, e, n) ==
    f = [s \in SUBSET (1 .. n) |-> IF s = {} THEN b ELSE Moves(f[s \ {Max(s)}], e[Max(s)])]

Iter(b, e, n) == CHOOSE f : IsIter(f, b, e, n)

LEMMA AfterIsIter ==
    ASSUME NEW b, NEW e, NEW n, DOMAIN e = 1 .. n
    PROVE  After(b, e) = Iter(b, e, n)[1 .. n]
BY DEF After, FoldLeft, MapThenFoldSet, Iter, IsIter

LEMMA MaxOfInterval ==
    ASSUME NEW n \in Nat, NEW s \in SUBSET (1 .. n), s # {}
    PROVE  /\ Max(s) \in s /\ \A x \in s : x <= Max(s)
           /\ n \in s => Max(s) = n
<1>1. s \in SUBSET Nat /\ \A x \in s : x <= n
  OBVIOUS
<1>2. PICK m : m = Max(s)
  OBVIOUS
<1>3. m \in s /\ \A x \in s : x <= m
  BY <1>1, <1>2, MaxOfBounded
<1> QED
  BY <1>1, <1>2, <1>3

LEMMA IterExists ==
    ASSUME NEW b, NEW e, NEW n \in Nat
    PROVE  IsIter(Iter(b, e, n), b, e, n)
<1> DEFINE K == {k \in Nat : \E f : IsIter(f, b, e, k)}
<1>1. 0 \in K
  <2>1. SUBSET (1 .. 0) = {{}}
    OBVIOUS
  <2> DEFINE f == [s \in {{}} |-> b]
  <2>2. f = [s \in {{}} |-> IF s = {} THEN b ELSE Moves(f[s \ {Max(s)}], e[Max(s)])]
    OBVIOUS
  <2>3. IsIter(f, b, e, 0)
    BY <2>1, <2>2 DEF IsIter
  <2> QED
    BY <2>3
<1>2. ASSUME NEW k \in Nat, k \in K
      PROVE  k + 1 \in K
  <2>1. PICK f : IsIter(f, b, e, k)
    BY <1>2
  <2> DEFINE g == [s \in SUBSET (1 .. k + 1) |->
                      IF k + 1 \in s THEN Moves(f[s \ {k + 1}], e[k + 1]) ELSE f[s]]
  <2>2. ASSUME NEW s \in SUBSET (1 .. k + 1)
        PROVE  g[s] = IF s = {} THEN b ELSE Moves(g[s \ {Max(s)}], e[Max(s)])
    <3>1. CASE k + 1 \in s
      <4>1. Max(s) = k + 1
        BY <3>1, MaxOfInterval
      <4>2. s \ {k + 1} \in SUBSET (1 .. k + 1) /\ k + 1 \notin s \ {k + 1} /\ s # {}
        BY <3>1
      <4>3. g[s \ {k + 1}] = f[s \ {k + 1}]
        BY <4>2
      <4> QED
        BY <3>1, <4>1, <4>2, <4>3
    <3>2. CASE k + 1 \notin s
      <4>1. s \in SUBSET (1 .. k) /\ g[s] = f[s]
        BY <3>2
      <4>2. f[s] = IF s = {} THEN b ELSE Moves(f[s \ {Max(s)}], e[Max(s)])
        BY <2>1, <4>1 DEF IsIter
      <4>3. PICK r : r = s \ {Max(s)}
        OBVIOUS
      <4>4. r \in SUBSET (1 .. k + 1) /\ k + 1 \notin r
        BY <3>2, <4>1, <4>3
      <4>5. g[r] = f[r]
        BY <4>4
      <4> QED
        BY <4>1, <4>2, <4>3, <4>5
    <3> QED
      BY <3>1, <3>2
  <2>3. IsIter(g, b, e, k + 1)
    BY <2>2 DEF IsIter
  <2> QED
    BY <2>3
<1> HIDE DEF K
<1>3. n \in K
  BY <1>1, <1>2, NatSetInduction
<1>4. \E f : IsIter(f, b, e, n)
  BY <1>3 DEF K
<1> QED
  BY <1>4 DEF Iter

LEMMA IterSteps ==
    ASSUME NEW b, NEW e, NEW n \in Nat
    PROVE  /\ Iter(b, e, n)[1 .. 0] = b
           /\ \A k \in 0 .. n - 1 :
                 Iter(b, e, n)[1 .. k + 1] = Moves(Iter(b, e, n)[1 .. k], e[k + 1])
<1>1. PICK f : f = Iter(b, e, n)
  OBVIOUS
<1>2. f = [s \in SUBSET (1 .. n) |-> IF s = {} THEN b ELSE Moves(f[s \ {Max(s)}], e[Max(s)])]
  <2>1. IsIter(f, b, e, n)
    BY <1>1, IterExists
  <2> QED
    BY <2>1 DEF IsIter
<1>3. f[1 .. 0] = b
  <2>1. 1 .. 0 = {}
    OBVIOUS
  <2> QED
    BY <1>2, <2>1
<1>4. ASSUME NEW k \in 0 .. n - 1
      PROVE  f[1 .. k + 1] = Moves(f[1 .. k], e[k + 1])
  <2>1. PICK s : s = 1 .. k + 1
    OBVIOUS
  <2>2. s \in SUBSET (1 .. n) /\ s # {} /\ k + 1 \in s /\ s \in SUBSET (1 .. k + 1) /\ k + 1 \in Nat
    BY <2>1
  <2>3. Max(s) = k + 1
    BY <2>2, MaxOfInterval
  <2>4. s \ {k + 1} = 1 .. k
    BY <2>1
  <2>5. f[s] = Moves(f[s \ {Max(s)}], e[Max(s)])
    BY <1>2, <2>2
  <2> QED
    BY <2>1, <2>3, <2>4, <2>5
<1> QED
  BY <1>1, <1>3, <1>4

\* Folds of sequences with a common beginning agree about it.
LEMMA IterAgree ==
    ASSUME NEW b, NEW e, NEW n \in Nat, NEW d, NEW m \in Nat, NEW l \in 0 .. n, l <= m,
           \A i \in 1 .. l : e[i] = d[i]
    PROVE  Iter(b, e, n)[1 .. l] = Iter(b, d, m)[1 .. l]
<1>1. PICK f, g : f = Iter(b, e, n) /\ g = Iter(b, d, m)
  OBVIOUS
<1>2. /\ f[1 .. 0] = b
      /\ \A k \in 0 .. n - 1 : f[1 .. k + 1] = Moves(f[1 .. k], e[k + 1])
  BY <1>1, IterSteps
<1>3. /\ g[1 .. 0] = b
      /\ \A k \in 0 .. m - 1 : g[1 .. k + 1] = Moves(g[1 .. k], d[k + 1])
  BY <1>1, IterSteps
<1> DEFINE K == {k \in Nat : k <= l => f[1 .. k] = g[1 .. k]}
<1>4. 0 \in K
  BY <1>2, <1>3
<1>5. ASSUME NEW k \in Nat, k \in K
      PROVE  k + 1 \in K
  <2>1. SUFFICES ASSUME k + 1 <= l
                 PROVE  f[1 .. k + 1] = g[1 .. k + 1]
    OBVIOUS
  <2>2. k \in 0 .. n - 1 /\ k \in 0 .. m - 1 /\ k + 1 \in 1 .. l /\ k <= l
    BY <2>1
  <2>3. f[1 .. k] = g[1 .. k] /\ e[k + 1] = d[k + 1]
    BY <1>5, <2>2
  <2> QED
    BY <1>2, <1>3, <2>2, <2>3
<1>6. l \in K
  <2> HIDE DEF K
  <2> QED
    BY <1>4, <1>5, NatSetInduction
<1> QED
  BY <1>1, <1>6

LEMMA AfterSteps ==
    ASSUME NEW b, NEW S, NEW e \in Seq(S)
    PROVE  /\ After(b, SubSeq(e, 1, 0)) = b
           /\ \A i \in 0 .. Len(e) - 1 :
                 After(b, SubSeq(e, 1, i + 1)) = Moves(After(b, SubSeq(e, 1, i)), e[i + 1])
           /\ SubSeq(e, 1, Len(e)) = e
<1>1. Len(e) \in Nat /\ DOMAIN e = 1 .. Len(e)
  OBVIOUS
<1>2. ASSUME NEW i \in 0 .. Len(e)
      PROVE  After(b, SubSeq(e, 1, i)) = Iter(b, e, Len(e))[1 .. i]
  <2>1. PICK d : d = SubSeq(e, 1, i)
    OBVIOUS
  <2>2. DOMAIN d = 1 .. i /\ \A k \in 1 .. i : d[k] = e[k]
    BY <1>1, <2>1
  <2>3. After(b, d) = Iter(b, d, i)[1 .. i]
    BY <2>2, AfterIsIter
  <2>4. Iter(b, d, i)[1 .. i] = Iter(b, e, Len(e))[1 .. i]
    BY <1>1, <2>2, IterAgree
  <2> QED
    BY <2>1, <2>3, <2>4
<1>3. After(b, SubSeq(e, 1, 0)) = b
  BY <1>1, <1>2, IterSteps
<1>4. ASSUME NEW i \in 0 .. Len(e) - 1
      PROVE  After(b, SubSeq(e, 1, i + 1)) = Moves(After(b, SubSeq(e, 1, i)), e[i + 1])
  <2>1. i \in 0 .. Len(e) /\ i + 1 \in 0 .. Len(e)
    BY <1>1
  <2> QED
    BY <1>1, <1>2, <2>1, IterSteps
<1>5. SubSeq(e, 1, Len(e)) = e
  BY <1>1
<1> QED
  BY <1>3, <1>4, <1>5

-----------------------------------------------------------------------------
(***************************************************************************)
(* Balances.                                                               *)
(***************************************************************************)
\* What getBalance() may answer, without sets.
Found(t, a, h, c) ==
    \/ \E row \in t.balances :
          /\ row.address = a /\ row.height <= h /\ row.coins = c
          /\ \A other \in t.balances :
                other.address = a /\ other.height <= h => other.height <= row.height
    \/ /\ \A row \in t.balances : ~(row.address = a /\ row.height <= h)
       /\ \/ \E row \in t.genesis : row.address = a /\ row.coins = c
          \/ ~HasRow(t, a) /\ c = NoCoins

LEMMA GetBalanceFinds ==
    ASSUME NEW t, NEW a, NEW h, NEW c
    PROVE  c \in GetBalance(t, a, h) <=> Found(t, a, h, c)
<1> DEFINE rows    == {row \in t.balances : row.address = a /\ row.height <= h}
           latest  == {row \in rows : \A other \in rows : other.height <= row.height}
           genesis == {row \in t.genesis : row.address = a}
<1>1. GetBalance(t, a, h) = IF rows # {} THEN {row.coins : row \in latest}
                            ELSE IF genesis # {} THEN {row.coins : row \in genesis}
                            ELSE {NoCoins}
  BY DEF GetBalance
<1>2. genesis = {} <=> ~HasRow(t, a)
  BY DEF HasRow
<1>3. CASE rows # {}
  BY <1>1, <1>3 DEF Found
<1>4. CASE rows = {} /\ genesis # {}
  BY <1>1, <1>2, <1>4 DEF Found
<1>5. CASE rows = {} /\ genesis = {}
  BY <1>1, <1>2, <1>5 DEF Found
<1> QED
  BY <1>3, <1>4, <1>5

\* Whatever is found, what is made of it are amounts.
LEMMA ChangedAmounts ==
    ASSUME NEW e \in Events, NEW balance, IsAmounts(balance)
    PROVE  IsAmounts(Changed(balance, e))
<1>1. /\ DOMAIN e.coins \subseteq Denom /\ \A d \in DOMAIN e.coins : e.coins[d] \in Int
      /\ \A d : Amount(e.coins, d) \in Int /\ Amount(balance, d) \in Int
  BY LedgerAssumption DEF LedgerAssumption, IsCoins, IsAmounts, Amount
<1>2. IsAmounts(Decreased(balance, e.coins))
  <2>1. PICK c : c = Decreased(balance, e.coins)
    OBVIOUS
  <2>2. DOMAIN c = DOMAIN balance \cup DOMAIN e.coins
    BY <2>1 DEF Decreased
  <2>3. ASSUME NEW d \in DOMAIN c
        PROVE  c[d] \in Int
    <3>1. c[d] = IF d \in DOMAIN balance THEN balance[d] - Amount(e.coins, d) ELSE e.coins[d]
      BY <2>1, <2>2 DEF Decreased
    <3>2. CASE d \in DOMAIN balance
      BY <1>1, <3>1, <3>2 DEF IsAmounts
    <3>3. CASE d \notin DOMAIN balance
      BY <1>1, <2>2, <3>1, <3>3
    <3> QED
      BY <3>2, <3>3
  <2> QED
    BY <1>1, <2>1, <2>2, <2>3 DEF IsAmounts
<1>3. IsAmounts(Increased(balance, e.coins))
  <2>1. PICK c : c = Increased(balance, e.coins)
    OBVIOUS
  <2>2. /\ DOMAIN c = DOMAIN balance \cup DOMAIN e.coins
        /\ \A d \in DOMAIN c : c[d] = Amount(balance, d) + Amount(e.coins, d)
    BY <2>1 DEF Increased
  <2>3. \A d \in DOMAIN c : c[d] \in Int
    BY <1>1, <2>2
  <2> QED
    BY <1>1, <2>1, <2>2, <2>3 DEF IsAmounts
<1> QED
  BY <1>2, <1>3 DEF Changed

\* What getBalance() answers are amounts.
LEMMA FoundAmounts ==
    ASSUME NEW t, TablesOK(t), NEW a, NEW h, NEW c \in GetBalance(t, a, h)
    PROVE  IsAmounts(c)
<1>1. Found(t, a, h, c)
  BY GetBalanceFinds
<1>2. \A row \in t.genesis : IsAmounts(row.coins)
  BY DEF TablesOK, IsCoins, IsAmounts
<1>3. IsAmounts(NoCoins)
  BY DEF IsAmounts, NoCoins
<1> QED
  BY <1>1, <1>2, <1>3 DEF Found, TablesOK

\* An event is about one account.
LEMMA OthersStay ==
    ASSUME NEW e \in Events, NEW held \in Holding
    PROVE  \A b \in Account : b # e.address => Moves(held, e)[b] = held[b]
BY LedgerAssumption DEF LedgerAssumption, Moves, Holding

\* The balance of an account, as the events that move coins change it.
LEMMA EventChanges ==
    ASSUME NEW e \in Events, IsMove(e), NEW held \in Holding, Moves(held, e) \in Holding,
           NEW balance, Tells(balance, held[e.address])
    PROVE  Tells(Changed(balance, e), Moves(held, e)[e.address])
<1>1. e.address \in Account /\ IsCoins(e.coins)
  BY LedgerAssumption DEF LedgerAssumption
<1>2. PICK was : was = held[e.address]
  OBVIOUS
<1>3. PICK is : is = Moves(held, e)[e.address]
  OBVIOUS
<1>4. /\ was \in [Denom -> Nat] /\ is \in [Denom -> Nat]
      /\ IsDebit(e) => \A d \in Denom : is[d] = was[d] - Amount(e.coins, d)
      /\ ~IsDebit(e) => \A d \in Denom : is[d] = was[d] + Amount(e.coins, d)
  BY <1>1, <1>2, <1>3 DEF Moves, Holding, IsMove, IsDebit
<1>5. /\ DOMAIN balance \subseteq Denom /\ DOMAIN e.coins \subseteq Denom
      /\ \A d \in DOMAIN balance : balance[d] \in Nat /\ balance[d] = was[d]
      /\ \A d \in Denom \ DOMAIN balance : was[d] = 0
      /\ \A d \in DOMAIN e.coins : e.coins[d] \in Nat
  BY <1>1, <1>2 DEF Tells, IsCoins, Amount
<1>6. CASE IsDebit(e)
  <2>1. PICK c : c = Decreased(balance, e.coins)
    OBVIOUS
  <2>2. DOMAIN c = DOMAIN balance \cup DOMAIN e.coins
    BY <2>1 DEF Decreased
  <2>3. ASSUME NEW d \in DOMAIN c
        PROVE  c[d] = is[d]
    <3>1. c[d] = IF d \in DOMAIN balance THEN balance[d] - Amount(e.coins, d) ELSE e.coins[d]
      BY <2>1, <2>2 DEF Decreased
    <3>2. d \in Denom /\ is[d] = was[d] - Amount(e.coins, d) /\ is[d] \in Nat
      BY <1>4, <1>5, <1>6, <2>2
    <3>3. CASE d \in DOMAIN balance
      BY <1>5, <3>1, <3>2, <3>3
    <3>4. CASE d \notin DOMAIN balance
      <4>1. d \in DOMAIN e.coins /\ Amount(e.coins, d) = e.coins[d] /\ e.coins[d] \in Nat
        BY <1>5, <2>2, <3>4 DEF Amount
      <4>2. was[d] = 0
        BY <1>5, <3>2, <3>4
      <4>3. e.coins[d] = 0 /\ is[d] = 0
        BY <3>2, <4>1, <4>2
      <4> QED
        BY <3>1, <3>4, <4>3
    <3> QED
      BY <3>3, <3>4
  <2>4. ASSUME NEW d \in Denom \ DOMAIN c
        PROVE  is[d] = 0
    <3>1. was[d] = 0 /\ Amount(e.coins, d) = 0
      BY <1>5, <2>2 DEF Amount
    <3> QED
      BY <1>4, <1>6, <3>1
  <2>5. Tells(c, is)
    BY <1>4, <1>5, <2>2, <2>3, <2>4 DEF Tells, IsCoins, Amount
  <2> QED
    BY <1>3, <1>4, <1>6, <2>1, <2>5 DEF Changed
<1>7. CASE ~IsDebit(e)
  <2>1. PICK c : c = Increased(balance, e.coins)
    OBVIOUS
  <2>2. /\ DOMAIN c = DOMAIN balance \cup DOMAIN e.coins
        /\ \A d \in DOMAIN c : c[d] = Amount(balance, d) + Amount(e.coins, d)
    BY <2>1 DEF Increased
  <2>3. \A d \in Denom : Amount(balance, d) = was[d]
    BY <1>5 DEF Amount
  <2>4. \A d \in DOMAIN c : c[d] = is[d]
    BY <1>4, <1>5, <1>7, <2>2, <2>3
  <2>5. ASSUME NEW d \in Denom \ DOMAIN c
        PROVE  is[d] = 0
    <3>1. was[d] = 0 /\ Amount(e.coins, d) = 0
      BY <1>5, <2>2 DEF Amount
    <3> QED
      BY <1>4, <1>7, <3>1
  <2>6. Tells(c, is)
    BY <1>4, <1>5, <2>2, <2>4, <2>5 DEF Tells, IsCoins, Amount
  <2> QED
    BY <1>3, <1>4, <1>7, <2>1, <2>6 DEF Changed
<1> QED
  BY <1>6, <1>7

\* saveBalance() at a height above which there are no rows.
LEMMA SaveBalanceMatches ==
    ASSUME NEW t, IsTables(t), NEW h \in Nat,
           \A row \in t.balances : row.height \in Nat /\ row.height <= h,
           NEW accounts, NEW held, Matches(t, h, held, accounts), NEW a, NEW c, NEW new,
           a \in accounts => Tells(c, new[a]),
           \A b \in accounts : b # a => new[b] = held[b]
    PROVE  Matches(SaveBalance(t, a, c, h), h, new, accounts)
<1>1. PICK row : row = BalanceRow(a, h, c)
  OBVIOUS
<1>2. row.address = a /\ row.height = h /\ row.coins = c
  BY <1>1 DEF BalanceRow
<1>3. PICK u : u = SaveBalance(t, a, c, h)
  OBVIOUS
<1>4. /\ u.balances = {r \in t.balances : ~(r.address = a /\ r.height = h)} \cup {row}
      /\ u.genesis = t.genesis
  BY <1>1, <1>3 DEF IsTables, SaveBalance, AssertAccount
<1>5. ASSUME NEW x, Found(u, a, h, x)
      PROVE  x = c
  BY <1>2, <1>4, <1>5 DEF Found
<1>6. ASSUME NEW b, b # a, NEW x, Found(u, b, h, x)
      PROVE  Found(t, b, h, x)
  BY <1>2, <1>4, <1>6 DEF Found, HasRow
<1>7. ASSUME NEW b \in accounts, NEW x \in GetBalance(u, b, h)
      PROVE  Tells(x, new[b])
  <2>1. Found(u, b, h, x)
    BY GetBalanceFinds
  <2>2. CASE b = a
    BY <1>5, <2>1, <2>2
  <2>3. CASE b # a
    <3>1. x \in GetBalance(t, b, h)
      BY <1>6, <2>1, <2>3, GetBalanceFinds
    <3> QED
      BY <2>3, <3>1 DEF Matches
  <2> QED
    BY <2>2, <2>3
<1> QED
  BY <1>3, <1>7 DEF Matches

-----------------------------------------------------------------------------
(***************************************************************************)
(* The file.                                                               *)
(***************************************************************************)
LEMMA FileFacts ==
    ASSUME file \in Files
    PROVE  /\ IsEntries(file.accounts) /\ IsEntries(file.balances) /\ IsEntries(file.gen_txs)
           /\ \A i, j \in DOMAIN file.balances :
                 file.balances[i].address = file.balances[j].address => i = j
           /\ \A i, j \in DOMAIN file.gen_txs :
                 file.gen_txs[i].address = file.gen_txs[j].address => i = j
           /\ GenesisHeld \in Holding
<1>1. IsGenesis(file)
  BY GenesisAssumption DEF GenesisAssumption
<1>2. /\ Readers[1] = "accounts" /\ Readers[2] = "balances" /\ Readers[3] = "gen_txs"
      /\ 1 .. Len(Readers) = 1 .. 3 /\ 1 \in 1 .. 3 /\ 2 \in 1 .. 3 /\ 3 \in 1 .. 3
  BY DEF Readers
<1>3. \A k \in 1 .. 3 : IsEntries(file[Readers[k]])
  BY <1>1, <1>2 DEF IsGenesis
<1>4. \A k \in 1 .. 3 : \A i, j \in DOMAIN file[Readers[k]] :
        file[Readers[k]][i].address = file[Readers[k]][j].address => i = j
  BY <1>1, <1>2 DEF IsGenesis
<1>5. GenesisHeld \in Holding
  BY <1>1 DEF IsGenesis, GenesisHeld, Holding
<1> QED
  BY <1>2, <1>3, <1>4, <1>5

\* Which array a reader reads.
LEMMA ReaderFacts ==
    ASSUME reader \in 1 .. 3
    PROVE  /\ reader = 1 <=> Readers[reader] = "accounts"
           /\ reader = 2 <=> Readers[reader] = "balances"
           /\ reader = 3 <=> Readers[reader] = "gen_txs"
           /\ Len(Readers) = 3
           /\ reader = 1 => Entries = file.accounts
           /\ reader = 2 => Entries = file.balances
           /\ reader = 3 => Entries = file.gen_txs
<1>1. /\ Readers[1] = "accounts" /\ Readers[2] = "balances" /\ Readers[3] = "gen_txs"
      /\ Len(Readers) = 3
  BY DEF Readers
<1>2. reader = 1 \/ reader = 2 \/ reader = 3
  OBVIOUS
<1> QED
  BY <1>1, <1>2 DEF Entries

LEMMA EntriesArray ==
    ASSUME file \in Files, reader \in 1 .. 3
    PROVE  IsEntries(Entries) /\ Len(Entries) \in Nat /\ DOMAIN Entries = 1 .. Len(Entries)
<1>1. IsEntries(Entries)
  BY FileFacts, ReaderFacts
<1> QED
  BY <1>1 DEF IsEntries

\* An account has what its only entry says.
LEMMA EnteredIs ==
    ASSUME NEW array, NEW i \in DOMAIN array, NEW d,
           \A j, k \in DOMAIN array : array[j].address = array[k].address => j = k
    PROVE  Entered(array, array[i].address, d) = Amount(array[i].coins, d)
<1> DEFINE own == {j \in DOMAIN array : array[j].address = array[i].address}
<1>1. own = {i}
  OBVIOUS
<1>2. (CHOOSE j \in own : TRUE) = i
  BY <1>1
<1> QED
  BY <1>1, <1>2 DEF Entered

LEMMA NothingEntered ==
    ASSUME NEW array, NEW a, \A i \in DOMAIN array : array[i].address # a, NEW d
    PROVE  Entered(array, a, d) = 0
<1>1. {i \in DOMAIN array : array[i].address = a} = {}
  OBVIOUS
<1> QED
  BY <1>1 DEF Entered

LEMMA HeldIs ==
    ASSUME NEW a \in Account \ {BondedPool}, NEW d \in Denom
    PROVE  GenesisHeld[a][d] = Entered(file.balances, a, d) - Entered(file.gen_txs, a, d)
BY DEF GenesisHeld, HeldFirst

-----------------------------------------------------------------------------
(***************************************************************************)
(* The functions that write, field by field.                               *)
(***************************************************************************)
LEMMA AssertAccountIs ==
    ASSUME NEW t, IsTables(t), NEW a, NEW u, u = AssertAccount(t, a)
    PROVE  /\ IsTables(u) /\ u.accounts = t.accounts \cup {a}
           /\ u.blocks = t.blocks /\ u.validators = t.validators
           /\ u.genesis = t.genesis /\ u.balances = t.balances
BY DEF AssertAccount, IsTables

LEMMA InsertGenesisBalanceIs ==
    ASSUME NEW t, IsTables(t), NEW a, NEW c, NEW u, u = InsertGenesisBalance(t, a, c)
    PROVE  /\ IsTables(u) /\ u.accounts = t.accounts \cup {a}
           /\ u.blocks = t.blocks /\ u.validators = t.validators
           /\ u.genesis = t.genesis \cup {GenesisRow(a, c)} /\ u.balances = t.balances
BY DEF InsertGenesisBalance, AssertAccount, IsTables

WithValidator(t, a) == [t EXCEPT !.validators = @ \cup {a}]

LEMMA GenTxIs ==
    ASSUME NEW t, IsTables(t), NEW a, NEW c, NEW u,
           u = SaveGenesisBalance(WithValidator(t, a), a, c)
    PROVE  /\ IsTables(u) /\ u.accounts = t.accounts \cup {a}
           /\ u.blocks = t.blocks /\ u.validators = t.validators \cup {a}
           /\ u.genesis = {row \in t.genesis : row.address # a} \cup {GenesisRow(a, c)}
           /\ u.balances = t.balances
BY DEF SaveGenesisBalance, AssertAccount, WithValidator, IsTables

LEMMA SaveBalanceIs ==
    ASSUME NEW t, IsTables(t), NEW a, NEW c, NEW h, NEW u, u = SaveBalance(t, a, c, h)
    PROVE  /\ IsTables(u) /\ u.accounts = t.accounts \cup {a}
           /\ u.blocks = t.blocks /\ u.validators = t.validators /\ u.genesis = t.genesis
           /\ u.balances = {row \in t.balances : ~(row.address = a /\ row.height = h)}
                           \cup {BalanceRow(a, h, c)}
BY DEF SaveBalance, AssertAccount, IsTables

WithBlock(t, h) == [t EXCEPT !.blocks = @ \cup {h}]

LEMMA WithBlockIs ==
    ASSUME NEW t, IsTables(t), NEW h, NEW u, u = WithBlock(t, h)
    PROVE  /\ IsTables(u) /\ u.blocks = t.blocks \cup {h} /\ u.accounts = t.accounts
           /\ u.validators = t.validators /\ u.genesis = t.genesis /\ u.balances = t.balances
BY DEF WithBlock, IsTables

LEMMA GenesisRowIs ==
    ASSUME NEW a, NEW c
    PROVE  GenesisRow(a, c).address = a /\ GenesisRow(a, c).coins = c
BY DEF GenesisRow

-----------------------------------------------------------------------------
(***************************************************************************)
(* The tables during the import.                                           *)
(***************************************************************************)
LEMMA AccountImported ==
    ASSUME NEW t, IsTables(t), TablesOK(t), NEW n, NEW m, ImportTables(t, n, m), NEW a \in Account,
           NEW u, u = AssertAccount(t, a)
    PROVE  IsTables(u) /\ TablesOK(u) /\ ImportTables(u, n, m)
<1>1. /\ IsTables(u) /\ u.accounts = t.accounts \cup {a}
      /\ u.blocks = t.blocks /\ u.validators = t.validators
      /\ u.genesis = t.genesis /\ u.balances = t.balances
  BY AssertAccountIs
<1>2. TablesOK(u)
  BY <1>1 DEF TablesOK
<1>3. ImportTables(u, n, m)
  BY <1>1 DEF ImportTables, BegunOK, Stored, Netted, Doomed, HasRow
<1> QED
  BY <1>1, <1>2, <1>3

LEMMA BalanceImported ==
    ASSUME file \in Files, NEW t, IsTables(t), TablesOK(t), NEW n \in Nat, n < Len(file.balances),
           ImportTables(t, n, 0),
           NEW e, e = file.balances[n + 1], NEW u, u = InsertGenesisBalance(t, e.address, e.coins)
    PROVE  IsTables(u) /\ TablesOK(u) /\ ImportTables(u, n + 1, 0)
<1>1. n + 1 \in DOMAIN file.balances /\ e.address \in Account \ {BondedPool} /\ IsCoins(e.coins)
  BY FileFacts DEF IsEntries
<1>2. PICK new : new = GenesisRow(e.address, e.coins)
  OBVIOUS
<1>3. new.address = e.address /\ new.coins = e.coins /\ AsInFile(new)
  BY <1>1, <1>2, GenesisRowIs DEF AsInFile
<1>4. /\ IsTables(u) /\ u.accounts = t.accounts \cup {e.address}
      /\ u.blocks = t.blocks /\ u.validators = t.validators
      /\ u.genesis = t.genesis \cup {new} /\ u.balances = t.balances
  BY <1>2, InsertGenesisBalanceIs
<1>5. TablesOK(u)
  BY <1>1, <1>3, <1>4 DEF TablesOK
<1>6. BegunOK(u)
  BY <1>1, <1>3, <1>4 DEF ImportTables, BegunOK
<1>7. Stored(u, n + 1)
  <2>1. \A i \in 1 .. n : HasRow(u, file.balances[i].address)
    BY <1>4 DEF ImportTables, Stored, HasRow
  <2>2. HasRow(u, file.balances[n + 1].address)
    BY <1>3, <1>4 DEF HasRow
  <2> QED
    BY <2>1, <2>2 DEF Stored
<1>8. Netted(u, 0) \/ Doomed(u, 0)
  <2>1. CASE t.validators = {}
    BY <1>4, <2>1 DEF Netted
  <2>2. CASE t.validators # {}
    BY <1>4, <2>2 DEF Doomed
  <2> QED
    BY <2>1, <2>2
<1> QED
  BY <1>4, <1>5, <1>6, <1>7, <1>8 DEF ImportTables

\* The balance of an account whose gen_tx is not netted is that of the file.
LEMMA BalanceAsInFile ==
    ASSUME file \in Files, NEW t, BegunOK(t), Stored(t, Len(file.balances)), NEW a \in Account,
           a \notin t.validators, NEW c \in GetBalance(t, a, 0)
    PROVE  IsCoins(c) /\ \A d \in Denom : Amount(c, d) = Entered(file.balances, a, d)
<1>1. Found(t, a, 0, c)
  BY GetBalanceFinds
<1>2. t.balances = {}
  BY DEF BegunOK
<1>3. /\ DOMAIN file.balances = 1 .. Len(file.balances)
      /\ \A i, j \in DOMAIN file.balances :
            file.balances[i].address = file.balances[j].address => i = j
  BY FileFacts DEF IsEntries
<1>4. CASE HasRow(t, a)
  <2>1. PICK row \in t.genesis : row.address = a /\ row.coins = c
    BY <1>1, <1>2, <1>4 DEF Found
  <2>2. AsInFile(row) /\ IsCoins(c)
    BY <2>1 DEF BegunOK
  <2>3. PICK i \in DOMAIN file.balances : a = file.balances[i].address /\ c = file.balances[i].coins
    BY <2>1, <2>2 DEF AsInFile
  <2>4. \A d : Entered(file.balances, a, d) = Amount(c, d)
    BY <1>3, <2>3, EnteredIs
  <2> QED
    BY <2>2, <2>4
<1>5. CASE ~HasRow(t, a)
  <2>1. c = NoCoins
    BY <1>1, <1>2, <1>5 DEF Found, HasRow
  <2>2. \A i \in DOMAIN file.balances : file.balances[i].address # a
    BY <1>3, <1>5 DEF Stored
  <2>3. \A d : Entered(file.balances, a, d) = 0
    BY <2>2, NothingEntered
  <2>4. IsCoins(c) /\ \A d : Amount(c, d) = 0
    BY <2>1 DEF IsCoins, Amount, NoCoins
  <2> QED
    BY <2>3, <2>4
<1> QED
  BY <1>4, <1>5

LEMMA GenTxImported ==
    ASSUME file \in Files, NEW t, IsTables(t), TablesOK(t), NEW m \in Nat, m < Len(file.gen_txs),
           ImportTables(t, Len(file.balances), m),
           NEW e, e = file.gen_txs[m + 1], e.address \notin t.validators,
           NEW c \in GetBalance(t, e.address, 0),
           NEW u, u = SaveGenesisBalance(WithValidator(t, e.address),
                                         e.address, Decreased(c, e.coins))
    PROVE  IsTables(u) /\ TablesOK(u) /\ ImportTables(u, Len(file.balances), m + 1)
<1>1. /\ DOMAIN file.gen_txs = 1 .. Len(file.gen_txs) /\ m + 1 \in DOMAIN file.gen_txs
      /\ e.address \in Account \ {BondedPool} /\ IsCoins(e.coins)
      /\ \A i, j \in DOMAIN file.gen_txs :
            file.gen_txs[i].address = file.gen_txs[j].address => i = j
  BY FileFacts DEF IsEntries
<1>2. BegunOK(t) /\ Stored(t, Len(file.balances))
  BY DEF ImportTables
<1>3. Netted(t, m)
  <2>1. SUFFICES ASSUME Doomed(t, m) PROVE FALSE
    BY DEF ImportTables
  <2>2. file.gen_txs[1].address \in t.validators
    BY <1>2, <2>1 DEF Doomed, BegunOK
  <2> QED
    BY <2>1, <2>2 DEF Doomed
<1>4. PICK x : x = Decreased(c, e.coins)
  OBVIOUS
<1>5. Tells(x, GenesisHeld[e.address])
  <2>1. IsCoins(c) /\ \A d \in Denom : Amount(c, d) = Entered(file.balances, e.address, d)
    BY <1>1, <1>2, BalanceAsInFile
  <2>2. \A d : Entered(file.gen_txs, e.address, d) = Amount(e.coins, d)
    BY <1>1, EnteredIs
  <2>3. PICK is : is = GenesisHeld[e.address]
    OBVIOUS
  <2>4. is \in [Denom -> Nat]
    BY <1>1, <2>3, FileFacts DEF Holding
  <2>5. \A d \in Denom : is[d] = Amount(c, d) - Amount(e.coins, d)
    BY <1>1, <2>1, <2>2, <2>3, HeldIs
  <2>6. /\ DOMAIN x = DOMAIN c \cup DOMAIN e.coins
        /\ \A d \in DOMAIN x :
              x[d] = IF d \in DOMAIN c THEN c[d] - Amount(e.coins, d) ELSE e.coins[d]
    BY <1>4 DEF Decreased
  <2>7. /\ DOMAIN c \subseteq Denom /\ DOMAIN e.coins \subseteq Denom
        /\ \A d \in DOMAIN c : c[d] \in Nat
        /\ \A d \in DOMAIN e.coins : e.coins[d] \in Nat
    BY <1>1, <2>1 DEF IsCoins
  <2>8. ASSUME NEW d \in DOMAIN x
        PROVE  x[d] = is[d]
    <3>1. d \in Denom /\ is[d] \in Nat /\ is[d] = Amount(c, d) - Amount(e.coins, d)
      BY <2>4, <2>5, <2>6, <2>7
    <3>2. CASE d \in DOMAIN c
      BY <2>6, <3>1, <3>2 DEF Amount
    <3>3. CASE d \notin DOMAIN c
      <4>1. Amount(c, d) = 0 /\ d \in DOMAIN e.coins /\ Amount(e.coins, d) = e.coins[d]
        BY <2>6, <3>3 DEF Amount
      <4>2. e.coins[d] \in Nat /\ is[d] = 0 - e.coins[d]
        BY <2>7, <3>1, <4>1
      <4>3. e.coins[d] = 0 /\ is[d] = 0
        BY <3>1, <4>2
      <4> QED
        BY <2>6, <3>3, <4>3
    <3> QED
      BY <3>2, <3>3
  <2>9. ASSUME NEW d \in Denom \ DOMAIN x
        PROVE  is[d] = 0
    <3>1. Amount(c, d) = 0 /\ Amount(e.coins, d) = 0
      BY <2>6 DEF Amount
    <3> QED
      BY <2>5, <3>1
  <2> QED
    BY <2>3, <2>4, <2>6, <2>7, <2>8, <2>9 DEF Tells, IsCoins, Amount
<1>6. PICK new : new = GenesisRow(e.address, x)
  OBVIOUS
<1>7. new.address = e.address /\ new.coins = x /\ IsCoins(new.coins)
  BY <1>5, <1>6, GenesisRowIs DEF Tells
<1>8. /\ IsTables(u) /\ u.accounts = t.accounts \cup {e.address}
      /\ u.blocks = t.blocks /\ u.validators = t.validators \cup {e.address}
      /\ u.genesis = {row \in t.genesis : row.address # e.address} \cup {new}
      /\ u.balances = t.balances
  BY <1>4, <1>6, GenTxIs
<1>9. TablesOK(u)
  BY <1>1, <1>7, <1>8 DEF TablesOK
<1>10. BegunOK(u)
  <2>1. 1 \in DOMAIN file.gen_txs /\ file.gen_txs[1].address \in u.validators
    <3>1. CASE m = 0
      <4>1. m + 1 = 1
        BY <3>1
      <4> QED
        BY <1>1, <1>8, <4>1
    <3>2. CASE m # 0
      <4>1. 1 \in 1 .. m /\ 1 \in DOMAIN file.gen_txs
        BY <1>1, <3>2
      <4> QED
        BY <1>3, <1>8, <4>1 DEF Netted
    <3> QED
      BY <3>1, <3>2
  <2>2. \A row \in u.genesis : row.address \in Account \ {BondedPool} /\ IsCoins(row.coins)
    BY <1>1, <1>2, <1>7, <1>8 DEF BegunOK
  <2>3. \A row \in u.genesis : row.address \notin u.validators => AsInFile(row)
    BY <1>2, <1>7, <1>8 DEF BegunOK
  <2> QED
    BY <1>2, <1>8, <2>1, <2>2, <2>3 DEF BegunOK
<1>11. \A a : HasRow(t, a) => HasRow(u, a)
  BY <1>7, <1>8 DEF HasRow
<1>12. Stored(u, Len(file.balances))
  BY <1>2, <1>11 DEF Stored
<1>13. Netted(u, m + 1)
  <2>1. ASSUME NEW a \in u.validators
        PROVE  \E i \in 1 .. m + 1 : a = file.gen_txs[i].address
    <3>1. m + 1 \in 1 .. m + 1 /\ \A i \in 1 .. m : i \in 1 .. m + 1
      OBVIOUS
    <3>2. a \in t.validators \/ a = e.address
      BY <1>8
    <3> QED
      BY <1>3, <3>1, <3>2 DEF Netted
  <2>2. ASSUME NEW i \in 1 .. m + 1
        PROVE  file.gen_txs[i].address \in u.validators
    <3>1. i \in 1 .. m \/ i = m + 1
      OBVIOUS
    <3> QED
      BY <1>3, <1>8, <3>1 DEF Netted
  <2>3. ASSUME NEW a \in u.validators
        PROVE  /\ HasRow(u, a)
               /\ \A row \in u.genesis : row.address = a => Tells(row.coins, GenesisHeld[a])
    <3>1. CASE a = e.address
      BY <1>5, <1>7, <1>8, <3>1 DEF HasRow
    <3>2. CASE a # e.address
      BY <1>3, <1>7, <1>8, <1>11, <3>2 DEF Netted
    <3> QED
      BY <3>1, <3>2
  <2> QED
    BY <2>1, <2>2, <2>3 DEF Netted
<1> QED
  BY <1>8, <1>9, <1>10, <1>12, <1>13 DEF ImportTables

LEMMA ImportEnded ==
    ASSUME file \in Files, NEW t,
           ImportTables(t, Len(file.balances), Len(file.gen_txs))
    PROVE  BegunOK(t) /\ GenesisOK(t)
<1>1. /\ DOMAIN file.gen_txs = 1 .. Len(file.gen_txs) /\ Len(file.gen_txs) \in Nat
      /\ GenesisHeld \in Holding
  BY FileFacts DEF IsEntries
<1>2. BegunOK(t) /\ Stored(t, Len(file.balances))
  BY DEF ImportTables
<1>3. Netted(t, Len(file.gen_txs))
  BY <1>1, <1>2 DEF ImportTables, Doomed, BegunOK
<1>4. ASSUME NEW a \in Account \ {BondedPool}, NEW c \in GetBalance(t, a, 0)
      PROVE  Tells(c, GenesisHeld[a])
  <2>1. CASE a \in t.validators
    <3>1. Found(t, a, 0, c)
      BY GetBalanceFinds
    <3>2. HasRow(t, a) /\ t.balances = {}
      BY <1>2, <1>3, <2>1 DEF Netted, BegunOK
    <3>3. PICK row \in t.genesis : row.address = a /\ row.coins = c
      BY <3>1, <3>2 DEF Found
    <3> QED
      BY <1>3, <2>1, <3>3 DEF Netted
  <2>2. CASE a \notin t.validators
    <3>1. IsCoins(c) /\ \A d \in Denom : Amount(c, d) = Entered(file.balances, a, d)
      BY <1>2, <2>2, BalanceAsInFile
    <3>2. \A i \in DOMAIN file.gen_txs : file.gen_txs[i].address # a
      BY <1>1, <1>3, <2>2 DEF Netted
    <3>3. \A d : Entered(file.gen_txs, a, d) = 0
      BY <3>2, NothingEntered
    <3>4. \A d \in Denom : GenesisHeld[a][d] = Amount(c, d) - 0
      BY <3>1, <3>3, HeldIs
    <3>5. \A d \in Denom : Amount(c, d) \in Nat
      BY <3>1 DEF IsCoins, Amount
    <3> QED
      BY <3>1, <3>4, <3>5 DEF Tells
  <2> QED
    BY <2>1, <2>2
<1> QED
  BY <1>2, <1>4 DEF GenesisOK

-----------------------------------------------------------------------------
(***************************************************************************)
(* Block 1, for which the node is asked what the pool holds.               *)
(***************************************************************************)
LEMMA ModuleAccountImported ==
    ASSUME file \in Files, NEW t, IsTables(t), TablesOK(t), BegunOK(t), GenesisOK(t),
           NEW r, r = WithBlock(t, 1),
           NEW held \in [Denom -> Nat], NEW u, u = ImportModuleAccount(r, Answer(held)),
           NEW accounts \in SUBSET Account,
           BondedPool \in accounts => held = GenesisHeld[BondedPool]
    PROVE  /\ IsTables(u) /\ TablesOK(u)
           /\ u.blocks = 1 .. 1 /\ u.balances = {}
           /\ Matches(u, 1, GenesisHeld, accounts)
<1>1. /\ IsTables(r) /\ r.blocks = 1 .. 1 /\ r.accounts = t.accounts
      /\ r.validators = t.validators /\ r.genesis = t.genesis /\ r.balances = {}
      /\ \A row \in t.genesis : row.address # BondedPool
  <2>1. /\ IsTables(r) /\ r.blocks = t.blocks \cup {1} /\ r.accounts = t.accounts
        /\ r.validators = t.validators /\ r.genesis = t.genesis /\ r.balances = t.balances
    BY WithBlockIs
  <2>2. t.blocks = {} /\ t.balances = {} /\ \A row \in t.genesis : row.address # BondedPool
    BY DEF BegunOK
  <2>3. 1 .. 1 = {1}
    OBVIOUS
  <2> QED
    BY <2>1, <2>2, <2>3
<1>2. BondedPool \in Account
  BY GenesisAssumption DEF GenesisAssumption
<1>5. PICK coins : coins = Answer(held)
  OBVIOUS
<1>6. Tells(coins, held)
  BY <1>5 DEF Answer, Tells, IsCoins, Amount
<1>7. u = IF coins = NoCoins THEN AssertAccount(r, BondedPool)
          ELSE InsertGenesisBalance(r, BondedPool, coins)
  BY <1>5 DEF ImportModuleAccount
<1>8. PICK new : new = GenesisRow(BondedPool, coins)
  OBVIOUS
<1>9. new.address = BondedPool /\ new.coins = coins
  BY <1>8, GenesisRowIs
<1>10. /\ IsTables(u) /\ u.accounts = r.accounts \cup {BondedPool} /\ u.blocks = r.blocks
       /\ u.validators = r.validators /\ u.balances = r.balances
       /\ u.genesis = IF coins = NoCoins THEN r.genesis ELSE r.genesis \cup {new}
  <2>1. CASE coins = NoCoins
    <3>1. u = AssertAccount(r, BondedPool)
      BY <1>7, <2>1
    <3>2. /\ IsTables(u) /\ u.accounts = r.accounts \cup {BondedPool}
          /\ u.blocks = r.blocks /\ u.validators = r.validators
          /\ u.genesis = r.genesis /\ u.balances = r.balances
      BY <1>1, <3>1, AssertAccountIs
    <3> QED
      BY <2>1, <3>2
  <2>2. CASE coins # NoCoins
    <3>1. u = InsertGenesisBalance(r, BondedPool, coins)
      BY <1>7, <2>2
    <3>2. /\ IsTables(u) /\ u.accounts = r.accounts \cup {BondedPool}
          /\ u.blocks = r.blocks /\ u.validators = r.validators
          /\ u.genesis = r.genesis \cup {new} /\ u.balances = r.balances
      BY <1>1, <1>8, <3>1, InsertGenesisBalanceIs
    <3> QED
      BY <2>2, <3>2
  <2> QED
    BY <2>1, <2>2
<1>11. TablesOK(u)
  <2>1. u.blocks \subseteq 1 .. LastBlock
    BY <1>1, <1>10, LedgerAssumption DEF LedgerAssumption
  <2>2. \A row \in u.genesis : row.address \in Account /\ IsCoins(row.coins)
    BY <1>1, <1>2, <1>6, <1>9, <1>10 DEF TablesOK, Tells
  <2> QED
    BY <1>1, <1>2, <1>10, <2>1, <2>2 DEF TablesOK
<1>12. ASSUME NEW a \in accounts, NEW c \in GetBalance(u, a, 1)
       PROVE  Tells(c, GenesisHeld[a])
  <2>1. Found(u, a, 1, c)
    BY GetBalanceFinds
  <2>2. CASE a = BondedPool
    <3>1. c = coins
      BY <1>1, <1>9, <1>10, <2>1, <2>2 DEF Found, HasRow
    <3> QED
      BY <1>6, <2>2, <3>1
  <2>3. CASE a # BondedPool
    <3>1. t.balances = {}
      BY DEF BegunOK
    <3>2. Found(t, a, 0, c)
      BY <1>1, <1>9, <1>10, <2>1, <2>3, <3>1 DEF Found, HasRow
    <3>3. c \in GetBalance(t, a, 0)
      BY <3>2, GetBalanceFinds
    <3> QED
      BY <2>3, <3>3 DEF GenesisOK
  <2> QED
    BY <2>2, <2>3
<1> QED
  BY <1>1, <1>10, <1>11, <1>12 DEF Matches

\* A block after the first begins with what is committed.
LEMMA BlockBegun ==
    ASSUME NEW t, IsTables(t), TablesOK(t), NEW n \in Nat \ {0}, n + 1 <= LastBlock, t.blocks = 1 .. n,
           NEW before, NEW accounts \in SUBSET before,
           NEW held, Matches(t, n, held, before), NEW u, u = WithBlock(t, n + 1)
    PROVE  /\ IsTables(u) /\ TablesOK(u)
           /\ u.blocks = 1 .. n + 1 /\ u.balances = t.balances /\ u.genesis = t.genesis
           /\ Matches(u, n + 1, held, accounts)
<1>1. /\ IsTables(u) /\ u.blocks = t.blocks \cup {n + 1} /\ u.accounts = t.accounts
      /\ u.validators = t.validators /\ u.genesis = t.genesis /\ u.balances = t.balances
  BY WithBlockIs
<1>2. u.blocks = 1 .. n + 1
  <2>1. 1 .. n + 1 = (1 .. n) \cup {n + 1}
    OBVIOUS
  <2> QED
    BY <1>1, <2>1
<1>3. \A row \in t.balances : row.height \in Nat /\ row.height <= n
  BY DEF TablesOK
<1>4. TablesOK(u)
  <2>1. u.blocks \subseteq 1 .. LastBlock
    BY <1>2, LedgerAssumption DEF LedgerAssumption
  <2> QED
    BY <1>1, <2>1 DEF TablesOK
<1>5. ASSUME NEW a \in accounts, NEW c \in GetBalance(u, a, n + 1)
      PROVE  Tells(c, held[a])
  <2>1. Found(u, a, n + 1, c)
    BY GetBalanceFinds
  <2>2. \A row \in t.balances : row.height <= n + 1
    BY <1>3
  <2>3. Found(t, a, n, c)
    BY <1>1, <1>3, <2>1, <2>2 DEF Found, HasRow
  <2>4. c \in GetBalance(t, a, n)
    BY <2>3, GetBalanceFinds
  <2> QED
    BY <2>4 DEF Matches
<1> QED
  BY <1>1, <1>2, <1>4, <1>5 DEF Matches

-----------------------------------------------------------------------------
(***************************************************************************)
(* The chain.                                                              *)
(***************************************************************************)
\* What is reported of a block that spends no more than is there.
LEMMA PossibleHoldings ==
    ASSUME NEW held \in Holding, NEW n \in Nat, NEW e \in [1 .. n -> Events], Possible(held, e)
    PROVE  \A i \in 0 .. n : After(held, SubSeq(e, 1, i)) \in Holding
<1>1. e \in Seq(Events) /\ Len(e) = n /\ DOMAIN e = 1 .. n
  OBVIOUS
<1>2. After(held, SubSeq(e, 1, 0)) = held
  BY <1>1, AfterSteps
<1> DEFINE K == {i \in Nat : i <= n => After(held, SubSeq(e, 1, i)) \in Holding}
<1>3. 0 \in K
  BY <1>2
<1>4. ASSUME NEW i \in Nat, i \in K
      PROVE  i + 1 \in K
  <2>1. SUFFICES ASSUME i + 1 <= n
                 PROVE  After(held, SubSeq(e, 1, i + 1)) \in Holding
    OBVIOUS
  <2>2. PICK was : was = After(held, SubSeq(e, 1, i))
    OBVIOUS
  <2>3. PICK is : is = After(held, SubSeq(e, 1, i + 1))
    OBVIOUS
  <2>4. was \in Holding
    BY <1>4, <2>1, <2>2
  <2>5. is = Moves(was, e[i + 1])
    <3>1. \A j \in 0 .. Len(e) - 1 :
             After(held, SubSeq(e, 1, j + 1)) = Moves(After(held, SubSeq(e, 1, j)), e[j + 1])
      BY <1>1, AfterSteps
    <3>2. i \in 0 .. Len(e) - 1
      BY <1>1, <2>1
    <3> QED
      BY <2>2, <2>3, <3>1, <3>2
  <2>6. e[i + 1] \in Events
    BY <2>1
  <2>7. PICK x \in Events : x = e[i + 1]
    BY <2>6
  <2>8. x.address \in Account /\ IsCoins(x.coins)
    BY LedgerAssumption DEF LedgerAssumption
  <2>9. \A d \in Denom : Amount(x.coins, d) \in Nat
    BY <2>8 DEF IsCoins, Amount
  <2>10. PICK moved : moved = [d \in Denom |->
                         IF x.type = "coin_spent" THEN was[x.address][d] - Amount(x.coins, d)
                         ELSE IF x.type = "coin_received"
                              THEN was[x.address][d] + Amount(x.coins, d)
                         ELSE was[x.address][d]]
    OBVIOUS
  <2>11. is = [was EXCEPT ![x.address] = moved]
    BY <2>5, <2>7, <2>10 DEF Moves
  <2>12. moved \in [Denom -> Int]
    BY <2>4, <2>8, <2>9, <2>10 DEF Holding
  <2>13. is \in [Account -> [Denom -> Int]]
    BY <2>4, <2>8, <2>11, <2>12 DEF Holding
  <2>14. \A a \in Account, d \in Denom : is[a][d] >= 0
    BY <1>1, <2>1, <2>3 DEF Possible
  <2> QED
    BY <2>3, <2>13, <2>14 DEF Holding
<1> HIDE DEF K
<1>5. \A i \in Nat : i \in K
  BY <1>3, <1>4, NatSetInduction
<1> QED
  BY <1>5 DEF K

LEMMA HeldHoldings ==
    ASSUME file \in Files, ChainOK, NEW h \in 0 .. Len(chain)
    PROVE  HeldAt(h) \in Holding
<1>1. CASE h = 0
  BY <1>1, FileFacts DEF HeldAt
<1>2. CASE h # 0
  <2>1. h \in 1 .. Len(chain) /\ chain \in Seq(Blocks)
    BY <1>2 DEF ChainOK
  <2>2. chain[h] \in Blocks
    BY <2>1
  <2> QED
    BY <1>2, <2>2 DEF HeldAt, Blocks
<1> QED
  BY <1>1, <1>2

\* Before and after a block, and from event to event.
LEMMA CourseSteps ==
    ASSUME file \in Files, ChainOK, NEW h \in 1 .. Len(chain)
    PROVE  /\ chain[h].events \in Seq(Events) /\ Len(chain[h].events) \in 0 .. MaxEvents
           /\ Course(h, 0) = HeldAt(h - 1)
           /\ Course(h, Len(chain[h].events)) = HeldAt(h)
           /\ \A i \in 0 .. Len(chain[h].events) : Course(h, i) \in Holding
           /\ \A i \in 0 .. Len(chain[h].events) - 1 :
                 Course(h, i + 1) = Moves(Course(h, i), chain[h].events[i + 1])
<1>1. chain \in Seq(Blocks)
  BY DEF ChainOK
<1>2. PICK e \in Seq(Events) : e = chain[h].events
  <2>1. chain[h] \in Blocks
    BY <1>1
  <2> QED
    BY <2>1 DEF Blocks
<1>3. PICK held : held = HeldAt(h - 1)
  OBVIOUS
<1>4. \A i : Course(h, i) = After(held, SubSeq(e, 1, i))
  BY <1>2, <1>3 DEF Course
<1>5. /\ Len(e) <= MaxEvents /\ chain[h].held = After(held, e)
      /\ \A i \in 0 .. Len(e) : After(held, SubSeq(e, 1, i)) \in Holding
  BY <1>2, <1>3 DEF ChainOK, Follows
<1>6. Len(e) \in 0 .. MaxEvents
  BY <1>2, <1>5, LedgerAssumption DEF LedgerAssumption
<1>7. /\ After(held, SubSeq(e, 1, 0)) = held /\ SubSeq(e, 1, Len(e)) = e
      /\ \A i \in 0 .. Len(e) - 1 :
            After(held, SubSeq(e, 1, i + 1)) = Moves(After(held, SubSeq(e, 1, i)), e[i + 1])
  BY AfterSteps
<1>8. HeldAt(h) = chain[h].held
  BY DEF HeldAt
<1>9. Course(h, Len(e)) = HeldAt(h)
  BY <1>4, <1>5, <1>7, <1>8
<1> QED
  BY <1>2, <1>3, <1>4, <1>5, <1>6, <1>7, <1>9

\* One after the last event of the block in work, if there is one.
LEMMA EndedIs ==
    ASSUME file \in Files, ChainOK, height \in 0 .. Len(chain)
    PROVE  Ended \in 1 .. MaxEvents + 1
<1>1. CASE height = 0
  <2>1. BlockEvents = <<>> /\ MaxEvents \in Nat
    BY <1>1, LedgerAssumption DEF BlockEvents, LedgerAssumption
  <2> QED
    BY <2>1 DEF Ended
<1>2. CASE height # 0
  <2>1. PICK h \in 1 .. Len(chain) : h = height
    BY <1>2 DEF ChainOK
  <2>2. Len(chain[h].events) \in 0 .. MaxEvents /\ MaxEvents \in Nat
    BY CourseSteps, LedgerAssumption DEF LedgerAssumption
  <2>3. BlockEvents = chain[h].events
    BY <1>2, <2>1 DEF BlockEvents
  <2> QED
    BY <2>2, <2>3 DEF Ended
<1> QED
  BY <1>1, <1>2

\* A chain only grows.
LEMMA ChainGrows ==
    ASSUME file' = file, chain' = chain \/ \E block \in Blocks : chain' = Append(chain, block),
           chain \in Seq(Blocks)
    PROVE  /\ GenesisHeld' = GenesisHeld
           /\ \A h \in 0 .. Len(chain) : HeldAt(h)' = HeldAt(h)
           /\ \A h \in 1 .. Len(chain) : \A i : Course(h, i)' = Course(h, i)
           /\ \A h \in 0 .. Len(chain) : Exact(h)' = Exact(h)
<1>1. GenesisHeld' = GenesisHeld
  BY DEF GenesisHeld
<1>2. \A h \in 1 .. Len(chain) : chain'[h] = chain[h]
  OBVIOUS
<1>3. ASSUME NEW h \in 0 .. Len(chain)
      PROVE  HeldAt(h)' = HeldAt(h)
  <2>1. CASE h = 0
    BY <1>1, <2>1 DEF HeldAt
  <2>2. CASE h # 0
    BY <1>2, <2>2 DEF HeldAt
  <2> QED
    BY <2>1, <2>2
<1>4. ASSUME NEW h \in 1 .. Len(chain), NEW i
      PROVE  Course(h, i)' = Course(h, i)
  <2>1. PICK g \in 0 .. Len(chain) : g = h - 1
    OBVIOUS
  <2>2. HeldAt(g)' = HeldAt(g)
    BY <1>3
  <2> QED
    BY <1>2, <2>1, <2>2 DEF Course
<1>5. ASSUME NEW h \in 0 .. Len(chain)
      PROVE  Exact(h)' = Exact(h)
  <2>1. \A k \in 1 .. h : chain'[k] = chain[k]
    BY <1>2
  <2> QED
    BY <2>1 DEF Exact
<1> QED
  BY <1>1, <1>3, <1>4, <1>5

\* What a block does not touch is after it as it was before.
LEMMA Untouched ==
    ASSUME NEW block \in Blocks, NEW before, Follows(block, before), NEW a \in Account,
           \A i \in DOMAIN block.events : block.events[i].address # a
    PROVE  block.held[a] = before[a]
<1>1. PICK e : e = block.events
  OBVIOUS
<1>2. e \in Seq(Events) /\ Len(e) \in Nat /\ DOMAIN e = 1 .. Len(e)
  BY <1>1 DEF Blocks
<1> DEFINE C(i) == After(before, SubSeq(e, 1, i))
<1>3. /\ C(0) = before /\ C(Len(e)) = block.held
      /\ \A i \in 0 .. Len(e) : C(i) \in Holding
      /\ \A i \in 0 .. Len(e) - 1 : C(i + 1) = Moves(C(i), e[i + 1])
  <2>1. /\ C(0) = before /\ SubSeq(e, 1, Len(e)) = e
        /\ \A i \in 0 .. Len(e) - 1 : C(i + 1) = Moves(C(i), e[i + 1])
    BY <1>2, AfterSteps
  <2>2. block.held = After(before, e) /\ \A i \in 0 .. Len(e) : C(i) \in Holding
    BY <1>1, <1>2 DEF Follows
  <2> QED
    BY <2>1, <2>2
<1> HIDE DEF C
<1> DEFINE K == {i \in Nat : i <= Len(e) => C(i)[a] = before[a]}
<1>4. 0 \in K
  BY <1>3
<1>5. ASSUME NEW i \in Nat, i \in K
      PROVE  i + 1 \in K
  <2>1. SUFFICES ASSUME i + 1 <= Len(e)
                 PROVE  C(i + 1)[a] = before[a]
    OBVIOUS
  <2>2. i \in 0 .. Len(e) - 1 /\ i \in 0 .. Len(e) /\ i + 1 \in 1 .. Len(e) /\ i <= Len(e)
    BY <1>2, <2>1
  <2>3. e[i + 1] \in Events /\ e[i + 1].address # a
    BY <1>1, <1>2, <2>2
  <2>4. C(i) \in Holding /\ C(i + 1) = Moves(C(i), e[i + 1])
    BY <1>3, <2>2
  <2>5. Moves(C(i), e[i + 1])[a] = C(i)[a]
    BY <2>3, <2>4, OthersStay
  <2> QED
    BY <1>5, <2>2, <2>4, <2>5
<1> HIDE DEF K
<1>6. Len(e) \in K
  BY <1>2, <1>4, <1>5, NatSetInduction
<1> QED
  BY <1>3, <1>6 DEF K

LEMMA ChainKept ==
    ASSUME file' = file, chain' = chain, ChainOK
    PROVE  ChainOK'
<1>1. ASSUME NEW h \in 1 .. Len(chain)
      PROVE  Follows(chain[h], HeldAt(h - 1)')
  <2>1. PICK g \in 0 .. Len(chain) : g = h - 1
    BY DEF ChainOK
  <2>2. HeldAt(g)' = HeldAt(g)
    BY ChainGrows DEF ChainOK
  <2> QED
    BY <2>1, <2>2 DEF ChainOK
<1> QED
  BY <1>1 DEF ChainOK

-----------------------------------------------------------------------------
(***************************************************************************)
(* What a step leaves as it is.                                            *)
(***************************************************************************)
LEMMA SavedKept ==
    ASSUME SavedOK, file' = file, saved' = saved, chain \in Seq(Blocks),
           chain' = chain \/ \E block \in Blocks : chain' = Append(chain, block),
           saved.blocks = {} /\ ~Starting' => ~Starting
    PROVE  SavedOK'
<1>1. /\ GenesisHeld' = GenesisHeld
      /\ \A h \in 0 .. Len(chain) : HeldAt(h)' = HeldAt(h) /\ Exact(h)' = Exact(h)
      /\ Len(chain) \in Nat /\ Len(chain') \in Nat /\ Len(chain) <= Len(chain')
  BY ChainGrows
<1>2. IsTables(saved') /\ TablesOK(saved')
  BY DEF SavedOK
<1>3. saved.blocks = {} => BegunOK(saved)' /\ (~Starting' => GenesisOK(saved)')
  <2>1. saved.blocks = {} => BegunOK(saved)'
    BY DEF SavedOK, BegunOK, AsInFile
  <2>2. saved.blocks = {} /\ ~Starting' => GenesisOK(saved)'
    BY <1>1 DEF SavedOK, GenesisOK
  <2> QED
    BY <2>1, <2>2
<1>4. PICK n \in 0 .. Len(chain) :
         saved.blocks = 1 .. n /\ \A h \in 1 .. n : Matches(saved, h, HeldAt(h), Exact(h))
  BY DEF SavedOK
<1>5. \A h \in 1 .. n : Matches(saved', h, HeldAt(h)', Exact(h)')
  BY <1>1, <1>4
<1>6. n \in 0 .. Len(chain') /\ saved'.blocks = 1 .. n
  BY <1>1, <1>4
<1> QED
  BY <1>2, <1>3, <1>5, <1>6 DEF SavedOK

\* The import being over.
LEMMA ImportKept ==
    ASSUME ImportOK, file' = file, reader' = reader, chunk' = chunk,
           ~Importing', pc' # "boot"
    PROVE  ImportOK'
BY DEF ImportOK, Importing, Entries

LEMMA WorkingKept ==
    ASSUME Working, file' = file, saved' = saved, work' = work, chain' = chain,
           chain \in Seq(Blocks), height' = height, next' = next, job' = job
    PROVE  Working'
<1>1. height \in 1 .. Len(chain)
  BY DEF Working
<1>2. \A i : Course(height, i)' = Course(height, i)
  BY DEF Course, HeldAt, GenesisHeld
<1>3. BlockTables' /\ BlockEvents' = BlockEvents /\ Exact(height)' = Exact(height)
  BY DEF Working, BlockTables, BlockEvents, Exact
<1> QED
  BY <1>1, <1>2, <1>3 DEF Working

\* An import step leaves everything of the blocks.
LEMMA JobKept ==
    ASSUME JobOK, chain' = chain, height' = height, next' = next, job' = job, faults' = faults
    PROVE  /\ JobOK' /\ HandlerDone' = HandlerDone
BY DEF JobOK, HandlerDone, Ended, BlockEvents

\* What a chunk, or a commit, leaves to prove.
LEMMA ImportOn ==
    ASSUME IInv, file' = file, UNCHANGED blockVars, saved' = saved, Importing, Importing',
           reader' \in 1 .. 3, chunk' \in 0 .. Len(Entries'),
           NEW u, u = work', IsTables(u), TablesOK(u),
           NEW n, n = BalancesDone', NEW m, m = GenTxsDone', ImportTables(u, n, m)
    PROVE  IInv'
<1>1. ChainOK'
  BY ChainKept DEF IInv, blockVars
<1>2. SavedOK'
  <2>1. Starting /\ Starting'
    BY DEF Starting
  <2> QED
    BY <2>1, SavedKept DEF IInv, ChainOK, blockVars
<1>3. JobOK' /\ HandlerDone' = HandlerDone
  BY JobKept DEF IInv, blockVars
<1>4. ImportTables(work, BalancesDone, GenTxsDone)'
  <2>1. ImportTables(u, n, m)'
    BY DEF ImportTables, BegunOK, AsInFile, Stored, Netted, Doomed, GenesisHeld
  <2> QED
    BY <2>1 DEF ImportTables, BegunOK, AsInFile, Stored, Netted, Doomed, GenesisHeld
<1>5. ImportOK'
  BY <1>4 DEF IInv, ImportOK, Importing
<1>6. WorkOK'
  BY <1>3 DEF IInv, WorkOK, Importing, Starting
<1> QED
  BY <1>1, <1>2, <1>3, <1>5, <1>6 DEF IInv

-----------------------------------------------------------------------------
(***************************************************************************)
(* The steps of the import.                                                *)
(***************************************************************************)
LEMMA BootStep ==
    ASSUME IInv, ProcessGenesis, Boot, UNCHANGED blockVars
    PROVE  IInv'
<1>1. /\ pc = "boot" /\ UNCHANGED <<file, saved, work, reader, chunk>>
      /\ pc' = IF saved.blocks = {} THEN "import" ELSE "idle"
      /\ reader = 1 /\ chunk = 0 /\ work = saved
  BY DEF Boot, IInv, ImportOK, WorkOK
<1>2. ChainOK'
  BY <1>1, ChainKept DEF IInv, blockVars
<1>3. SavedOK'
  <2>1. saved.blocks = {} => Starting'
    BY <1>1 DEF Starting, Importing
  <2> QED
    BY <1>1, <2>1, SavedKept DEF IInv, ChainOK, blockVars
<1>4. JobOK' /\ HandlerDone'
  BY <1>1, JobKept DEF IInv, WorkOK, Starting, blockVars
<1>5. ImportOK'
  <2>1. file' \in Files /\ reader' \in 1 .. 3 /\ chunk' \in 0 .. Len(Entries') /\ pc' # "boot"
    BY <1>1 DEF IInv, ImportOK, Entries
  <2>2. ASSUME Importing'
        PROVE  saved'.blocks = {} /\ ImportTables(work, BalancesDone, GenTxsDone)'
    <3>1. saved.blocks = {}
      BY <1>1, <2>2 DEF Importing
    <3>2. BegunOK(saved)
      BY <3>1 DEF IInv, SavedOK
    <3>3. BegunOK(work)'
      BY <1>1, <3>2 DEF BegunOK, AsInFile
    <3>4. BalancesDone' = 0 /\ GenTxsDone' = 0
      BY <1>1 DEF BalancesDone, GenTxsDone
    <3>5. Stored(work, BalancesDone)' /\ (Netted(work, GenTxsDone) \/ Doomed(work, GenTxsDone))'
      BY <3>4 DEF Stored, Netted, Doomed
    <3> QED
      BY <1>1, <3>1, <3>3, <3>5 DEF ImportTables
  <2> QED
    BY <2>1, <2>2 DEF ImportOK
<1>6. WorkOK'
  <2>1. IsTables(work') /\ TablesOK(work')
    BY <1>1 DEF IInv, WorkOK
  <2> QED
    BY <1>1, <1>4, <2>1 DEF WorkOK
<1> QED
  BY <1>2, <1>3, <1>4, <1>5, <1>6 DEF IInv

\* A chunk that is handled, in general.
LEMMA ChunkStep ==
    ASSUME IInv, NEW kind, Reads(kind), ChunkDone, UNCHANGED blockVars,
           NEW u, u = work', IsTables(u), TablesOK(u),
           NEW n, n = BalancesDone', NEW m, m = GenTxsDone', ImportTables(u, n, m)
    PROVE  IInv'
<1>1. /\ pc = "import" /\ chunk < Len(Entries) /\ chunk' = chunk + 1
      /\ UNCHANGED <<file, saved, reader>> /\ pc' \in {"commit_chunks", "import"}
  BY DEF Reads, ChunkDone
<1>2. reader \in 1 .. 3 /\ chunk \in 0 .. Len(Entries) /\ file \in Files
  BY DEF IInv, ImportOK
<1>3. Len(Entries) \in Nat
  BY <1>2, EntriesArray
<1>4. Entries' = Entries
  BY <1>1 DEF Entries
<1>5. reader' \in 1 .. 3 /\ chunk' \in 0 .. Len(Entries')
  BY <1>1, <1>2, <1>3, <1>4
<1>6. Importing /\ Importing'
  BY <1>1 DEF Importing
<1> QED
  BY <1>1, <1>5, <1>6, ImportOn

LEMMA ImportAccountStep ==
    ASSUME IInv, ImportAccount, UNCHANGED blockVars
    PROVE  IInv'
<1>1. /\ Reads("accounts") /\ ChunkDone
      /\ pc = "import" /\ Readers[reader] = "accounts" /\ chunk < Len(Entries)
      /\ chunk' = chunk + 1 /\ UNCHANGED <<file, saved, reader>>
  BY DEF ImportAccount, Reads, ChunkDone
<1>2. /\ reader \in 1 .. 3 /\ chunk \in 0 .. Len(Entries) /\ file \in Files
      /\ IsTables(work) /\ TablesOK(work)
      /\ ImportTables(work, BalancesDone, GenTxsDone)
  BY <1>1 DEF IInv, ImportOK, WorkOK, Importing
<1>3. reader = 1
  BY <1>1, <1>2, ReaderFacts
<1>4. Entry.address \in Account
  BY <1>1, <1>2, EntriesArray DEF IsEntries, Entry
<1>5. BalancesDone = 0 /\ GenTxsDone = 0 /\ BalancesDone' = 0 /\ GenTxsDone' = 0
  BY <1>1, <1>3 DEF BalancesDone, GenTxsDone
<1>6. PICK u, a : u = work' /\ a = Entry.address
  OBVIOUS
<1>7. u = AssertAccount(work, a)
  BY <1>6 DEF ImportAccount
<1>8. IsTables(u) /\ TablesOK(u) /\ ImportTables(u, 0, 0)
  BY <1>2, <1>4, <1>5, <1>6, <1>7, AccountImported
<1> QED
  BY <1>1, <1>5, <1>6, <1>8, ChunkStep

LEMMA ImportBalanceStep ==
    ASSUME IInv, ImportBalance, UNCHANGED blockVars
    PROVE  IInv'
<1>1. /\ Reads("balances") /\ ChunkDone
      /\ pc = "import" /\ Readers[reader] = "balances" /\ chunk < Len(Entries)
      /\ chunk' = chunk + 1 /\ UNCHANGED <<file, saved, reader>>
  BY DEF ImportBalance, Reads, ChunkDone
<1>2. /\ reader \in 1 .. 3 /\ chunk \in 0 .. Len(Entries) /\ file \in Files
      /\ IsTables(work) /\ TablesOK(work)
      /\ ImportTables(work, BalancesDone, GenTxsDone)
  BY <1>1 DEF IInv, ImportOK, WorkOK, Importing
<1>3. reader = 2 /\ Entries = file.balances
  BY <1>1, <1>2, ReaderFacts
<1>4. chunk \in Nat /\ chunk < Len(file.balances)
  BY <1>1, <1>2, <1>3, EntriesArray
<1>5. BalancesDone = chunk /\ GenTxsDone = 0 /\ BalancesDone' = chunk + 1 /\ GenTxsDone' = 0
  BY <1>1, <1>3 DEF BalancesDone, GenTxsDone
<1>6. PICK u, e, n : u = work' /\ e = file.balances[chunk + 1] /\ n = chunk
  OBVIOUS
<1>7. u = InsertGenesisBalance(work, e.address, e.coins)
  BY <1>3, <1>6 DEF ImportBalance, Entry
<1>8. IsTables(u) /\ TablesOK(u) /\ ImportTables(u, n + 1, 0)
  BY <1>2, <1>4, <1>5, <1>6, <1>7, BalanceImported
<1> QED
  BY <1>1, <1>5, <1>6, <1>8, ChunkStep

LEMMA ImportGenTxStep ==
    ASSUME IInv, ImportGenTx, UNCHANGED blockVars
    PROVE  IInv'
<1>1. /\ Reads("gen_txs") /\ ChunkDone
      /\ pc = "import" /\ Readers[reader] = "gen_txs" /\ chunk < Len(Entries)
      /\ chunk' = chunk + 1 /\ UNCHANGED <<file, saved, reader>>
  BY DEF ImportGenTx, Reads, ChunkDone
<1>2. /\ reader \in 1 .. 3 /\ chunk \in 0 .. Len(Entries) /\ file \in Files
      /\ IsTables(work) /\ TablesOK(work)
      /\ ImportTables(work, BalancesDone, GenTxsDone)
  BY <1>1 DEF IInv, ImportOK, WorkOK, Importing
<1>3. reader = 3 /\ Entries = file.gen_txs
  BY <1>1, <1>2, ReaderFacts
<1>4. chunk \in Nat /\ chunk < Len(file.gen_txs)
  BY <1>1, <1>2, <1>3, EntriesArray
<1>5. /\ BalancesDone = Len(file.balances) /\ GenTxsDone = chunk
      /\ BalancesDone' = Len(file.balances) /\ GenTxsDone' = chunk + 1
  BY <1>1, <1>3 DEF BalancesDone, GenTxsDone
<1>6. PICK u, t, e, m : u = work' /\ t = work /\ e = file.gen_txs[chunk + 1] /\ m = chunk
  OBVIOUS
<1>7. e = Entry
  BY <1>3, <1>6 DEF Entry
<1>8. e.address \notin t.validators
  BY <1>6, <1>7 DEF ImportGenTx, CanCreate
<1>9. PICK c \in GetBalance(t, e.address, 0) :
         u = SaveGenesisBalance(WithValidator(t, e.address), e.address, Decreased(c, e.coins))
  BY <1>6, <1>7 DEF ImportGenTx, WithValidator
<1>10. IsTables(u) /\ TablesOK(u) /\ ImportTables(u, Len(file.balances), m + 1)
  BY <1>2, <1>4, <1>5, <1>6, <1>8, <1>9, GenTxImported
<1> QED
  BY <1>1, <1>5, <1>6, <1>10, ChunkStep

LEMMA NextReaderStep ==
    ASSUME IInv, NextReader, UNCHANGED blockVars
    PROVE  IInv'
<1>1. /\ pc = "import" /\ chunk = Len(Entries) /\ reader < Len(Readers)
      /\ reader' = reader + 1 /\ chunk' = 0 /\ UNCHANGED <<file, saved, work, pc>>
  BY DEF NextReader
<1>2. /\ reader \in 1 .. 3 /\ file \in Files
      /\ IsTables(work) /\ TablesOK(work)
      /\ ImportTables(work, BalancesDone, GenTxsDone)
  BY <1>1 DEF IInv, ImportOK, WorkOK, Importing
<1>3. reader \in 1 .. 2 /\ reader' \in 1 .. 3
  <2>1. Len(Readers) = 3
    BY <1>2, ReaderFacts
  <2> QED
    BY <1>1, <1>2, <2>1
<1>4. BalancesDone' = BalancesDone /\ GenTxsDone' = GenTxsDone
  <2>1. CASE reader = 1
    BY <1>1, <2>1 DEF BalancesDone, GenTxsDone
  <2>2. CASE reader = 2
    <3>1. Entries = file.balances
      BY <1>2, <2>2, ReaderFacts
    <3> QED
      BY <1>1, <2>2, <3>1 DEF BalancesDone, GenTxsDone
  <2> QED
    BY <1>3, <2>1, <2>2
<1>5. Len(Entries') \in Nat
  <2>1. file.balances = Entries' \/ file.gen_txs = Entries'
    <3>1. CASE reader = 1
      BY <1>1, <3>1 DEF Entries, Readers
    <3>2. CASE reader = 2
      BY <1>1, <3>2 DEF Entries, Readers
    <3> QED
      BY <1>3, <3>1, <3>2
  <2> QED
    BY <1>2, <2>1, FileFacts DEF IsEntries
<1>6. Importing /\ Importing' /\ chunk' \in 0 .. Len(Entries')
  BY <1>1, <1>5 DEF Importing
<1>7. PICK u, n, m : u = work' /\ n = BalancesDone' /\ m = GenTxsDone'
  OBVIOUS
<1>8. IsTables(u) /\ TablesOK(u) /\ ImportTables(u, n, m)
  BY <1>1, <1>2, <1>4, <1>7
<1> QED
  BY <1>1, <1>3, <1>6, <1>7, <1>8, ImportOn

LEMMA CommitChunksStep ==
    ASSUME IInv, CommitChunks, UNCHANGED blockVars
    PROVE  IInv'
<1>1. /\ pc = "commit_chunks" /\ saved' = work /\ pc' = "import"
      /\ UNCHANGED <<file, work, reader, chunk>>
  BY DEF CommitChunks
<1>2. /\ IsTables(work) /\ TablesOK(work) /\ ImportTables(work, BalancesDone, GenTxsDone)
      /\ HandlerDone
  BY <1>1 DEF IInv, ImportOK, WorkOK, Importing, Starting
<1>3. BegunOK(work)
  BY <1>2 DEF ImportTables
<1>4. ChainOK'
  BY <1>1, ChainKept DEF IInv, blockVars
<1>5. SavedOK'
  <2>1. BegunOK(saved)' /\ saved'.blocks = {}
    BY <1>1, <1>3 DEF BegunOK, AsInFile
  <2>2. Starting'
    BY <1>1 DEF Starting, Importing
  <2>3. 0 \in 0 .. Len(chain') /\ 1 .. 0 = {}
    BY DEF IInv, ChainOK, blockVars
  <2> QED
    BY <1>1, <1>2, <2>1, <2>2, <2>3 DEF SavedOK
<1>6. JobOK' /\ HandlerDone'
  BY <1>2, JobKept DEF IInv, blockVars
<1>7. ImportOK'
  <2>1. ImportTables(work, BalancesDone, GenTxsDone)'
    BY <1>1, <1>2 DEF ImportTables, BegunOK, AsInFile, Stored, Netted, Doomed, GenesisHeld,
                      BalancesDone, GenTxsDone
  <2>2. saved'.blocks = {}
    BY <1>1, <1>3 DEF BegunOK
  <2> QED
    BY <1>1, <2>1, <2>2 DEF IInv, ImportOK, Entries
<1>8. WorkOK'
  BY <1>1, <1>2, <1>6 DEF WorkOK
<1> QED
  BY <1>4, <1>5, <1>6, <1>7, <1>8 DEF IInv

LEMMA EndImportStep ==
    ASSUME IInv, EndImport, UNCHANGED blockVars
    PROVE  IInv'
<1>1. /\ pc = "import" /\ chunk = Len(Entries) /\ reader = Len(Readers)
      /\ saved' = work /\ pc' = "idle" /\ UNCHANGED <<file, work, reader, chunk>>
  BY DEF EndImport
<1>2. /\ reader \in 1 .. 3 /\ file \in Files
      /\ IsTables(work) /\ TablesOK(work) /\ ImportTables(work, BalancesDone, GenTxsDone)
      /\ HandlerDone
  BY <1>1 DEF IInv, ImportOK, WorkOK, Importing, Starting
<1>3. reader = 3 /\ Entries = file.gen_txs
  BY <1>1, <1>2, ReaderFacts
<1>4. BalancesDone = Len(file.balances) /\ GenTxsDone = Len(file.gen_txs)
  BY <1>1, <1>3 DEF BalancesDone, GenTxsDone
<1>5. PICK t : t = work
  OBVIOUS
<1>6. BegunOK(t) /\ GenesisOK(t)
  BY <1>2, <1>4, <1>5, ImportEnded
<1>7. ChainOK'
  BY <1>1, ChainKept DEF IInv, blockVars
<1>8. SavedOK'
  <2>1. BegunOK(saved)' /\ GenesisOK(saved)' /\ saved'.blocks = {}
    BY <1>1, <1>5, <1>6 DEF BegunOK, AsInFile, GenesisOK, GenesisHeld
  <2>2. 0 \in 0 .. Len(chain') /\ 1 .. 0 = {}
    BY DEF IInv, ChainOK, blockVars
  <2> QED
    BY <1>1, <1>2, <2>1, <2>2 DEF SavedOK
<1>9. JobOK' /\ HandlerDone'
  BY <1>2, JobKept DEF IInv, blockVars
<1>10. ImportOK'
  BY <1>1 DEF IInv, ImportOK, Importing, Entries
<1>11. WorkOK'
  BY <1>1, <1>2, <1>9 DEF WorkOK, Starting, Importing
<1> QED
  BY <1>7, <1>8, <1>9, <1>10, <1>11 DEF IInv

\* The database refuses a chunk, or the process is killed, anywhere.
LEMMA BackToSaved ==
    ASSUME IInv, file' = file, saved' = saved, chain' = chain, height' = height, work' = saved,
           \/ pc' = "dead" /\ reader' = reader /\ chunk' = chunk
           \/ pc' = "boot" /\ reader' = 1 /\ chunk' = 0,
           HandlerDone', job' = NoJob, next' \in 1 .. Ended, faults' \in 0 .. MaxFaults
    PROVE  IInv'
<1>1. ChainOK'
  BY ChainKept DEF IInv
<1>2. Starting' /\ ~Importing'
  BY DEF Starting, Importing
<1>3. SavedOK'
  BY <1>2, SavedKept DEF IInv, ChainOK
<1>4. ImportOK'
  <2>1. CASE pc' = "dead" /\ reader' = reader /\ chunk' = chunk
    BY <2>1 DEF IInv, ImportOK, Importing, Entries
  <2>2. CASE pc' = "boot" /\ reader' = 1 /\ chunk' = 0
    <3>1. file' \in Files /\ reader' \in 1 .. 3 /\ IsEntries(file'.accounts)
      BY <2>2, FileFacts DEF IInv, ImportOK
    <3>2. Entries' = file'.accounts
      BY <2>2 DEF Entries, Readers
    <3>3. Len(Entries') \in Nat
      BY <3>1, <3>2 DEF IsEntries
    <3> QED
      BY <1>2, <2>2, <3>1, <3>3 DEF ImportOK
  <2> QED
    BY <2>1, <2>2
<1>5. WorkOK'
  <2>1. IsTables(work') /\ TablesOK(work')
    BY DEF IInv, SavedOK
  <2> QED
    BY <2>1 DEF WorkOK
<1>6. JobOK'
  BY DEF IInv, JobOK, Ended, BlockEvents
<1> QED
  BY <1>1, <1>3, <1>4, <1>5, <1>6 DEF IInv

LEMMA ImportRefusedStep ==
    ASSUME IInv, ImportRefused, UNCHANGED blockVars
    PROVE  IInv'
<1>1. /\ pc = "import" /\ work' = saved /\ pc' = "dead" /\ UNCHANGED <<file, saved, reader, chunk>>
  BY DEF ImportRefused, Reads
<1>2. HandlerDone /\ JobOK
  BY <1>1 DEF IInv, WorkOK, Starting, Importing
<1>3. HandlerDone' /\ job' = NoJob /\ next' \in 1 .. Ended /\ faults' \in 0 .. MaxFaults
  BY <1>2 DEF HandlerDone, JobOK, Ended, BlockEvents, blockVars
<1> QED
  BY <1>1, <1>3, BackToSaved DEF blockVars

LEMMA CrashStep ==
    ASSUME IInv, Crash
    PROVE  IInv'
<1>1. /\ work' = saved /\ pc' = "boot" /\ reader' = 1 /\ chunk' = 0 /\ UNCHANGED <<file, saved>>
      /\ job' = NoJob /\ next' = Ended /\ UNCHANGED <<chain, height>>
      /\ faults < MaxFaults /\ faults' = faults + 1
  BY DEF Crash, Restart, Fault
<1>2. HandlerDone'
  BY <1>1 DEF HandlerDone, Ended, BlockEvents
<1>3. next' \in 1 .. Ended
  <2>1. next \in 1 .. Ended /\ Ended \in Nat
    BY EndedIs DEF IInv, JobOK, ImportOK
  <2> QED
    BY <1>1, <2>1
<1>4. faults' \in 0 .. MaxFaults
  BY <1>1, LedgerAssumption DEF IInv, JobOK, LedgerAssumption
<1> QED
  BY <1>1, <1>2, <1>3, <1>4, BackToSaved

-----------------------------------------------------------------------------
(***************************************************************************)
(* The steps of a block.                                                   *)
(***************************************************************************)
LEMMA BlockMade ==
    ASSUME file \in Files, file' = file, ChainOK, NEW n \in 0 .. Len(chain), n + 1 <= LastBlock,
           BlockOnChain(n + 1)
    PROVE  /\ ChainOK' /\ n + 1 \in 1 .. Len(chain')
           /\ chain' = chain \/ \E block \in Blocks : chain' = Append(chain, block)
<1>1. chain \in Seq(Blocks) /\ Len(chain) \in Nat /\ DOMAIN chain = 1 .. Len(chain)
  BY DEF ChainOK
<1>2. CASE n + 1 \in DOMAIN chain
  <2>1. chain' = chain
    BY <1>2 DEF BlockOnChain
  <2> QED
    BY <1>1, <1>2, <2>1, ChainKept
<1>3. CASE n + 1 \notin DOMAIN chain
  <2>1. n = Len(chain)
    <3>1. n + 1 \notin 1 .. Len(chain) /\ Len(chain) \in Nat
      BY <1>1, <1>3
    <3> QED
      BY <3>1
  <2>2. PICK k \in 0 .. MaxEvents : \E events \in [1 .. k -> Events] :
           /\ Possible(HeldAt(n + 1 - 1), events)
           /\ chain' = Append(chain, [events |-> events, held |-> After(HeldAt(n + 1 - 1), events)])
    BY <1>3 DEF BlockOnChain
  <2>3. PICK events \in [1 .. k -> Events] :
           /\ Possible(HeldAt(n), events)
           /\ chain' = Append(chain, [events |-> events, held |-> After(HeldAt(n), events)])
    <3>1. n + 1 - 1 = n
      OBVIOUS
    <3> QED
      BY <2>2, <3>1
  <2>4. PICK held : held = HeldAt(n)
    OBVIOUS
  <2>5. held \in Holding
    BY <2>4, HeldHoldings
  <2>6. k \in Nat /\ events \in Seq(Events) /\ Len(events) = k
    BY LedgerAssumption DEF LedgerAssumption
  <2>7. \A i \in 0 .. k : After(held, SubSeq(events, 1, i)) \in Holding
    BY <2>3, <2>4, <2>5, <2>6, PossibleHoldings
  <2>8. After(held, events) = After(held, SubSeq(events, 1, k)) /\ After(held, events) \in Holding
    <3>1. SubSeq(events, 1, k) = events /\ k \in 0 .. k
      BY <2>6, AfterSteps
    <3> QED
      BY <2>7, <3>1
  <2>9. PICK block : block = [events |-> events, held |-> After(held, events)]
    OBVIOUS
  <2>10. block \in Blocks /\ block.events = events /\ block.held = After(held, events)
    BY <2>6, <2>8, <2>9 DEF Blocks
  <2>11. /\ chain' = Append(chain, block) /\ chain' \in Seq(Blocks) /\ Len(chain') = n + 1
         /\ chain'[n + 1] = block /\ \A h \in 1 .. n : chain'[h] = chain[h]
    BY <1>1, <2>1, <2>3, <2>4, <2>9, <2>10
  <2>12. /\ \A h \in 0 .. Len(chain) : HeldAt(h)' = HeldAt(h)
         /\ \A h \in 1 .. Len(chain) : \A i : Course(h, i)' = Course(h, i)
    BY <1>1, <2>10, <2>11, ChainGrows
  <2>13. Follows(block, held)
    BY <2>6, <2>7, <2>10, LedgerAssumption DEF Follows, LedgerAssumption
  <2>14. ASSUME NEW h \in 1 .. n + 1
         PROVE  Follows(chain'[h], HeldAt(h - 1)')
    <3>1. PICK g \in 0 .. n : g = h - 1
      OBVIOUS
    <3>2. HeldAt(g)' = HeldAt(g)
      BY <2>1, <2>12
    <3>3. CASE h = n + 1
      <4>1. g = n /\ chain'[h] = block
        BY <2>11, <3>1, <3>3
      <4> QED
        BY <2>4, <2>13, <3>1, <3>2, <4>1
    <3>4. CASE h # n + 1
      <4>1. h \in 1 .. Len(chain) /\ chain'[h] = chain[h]
        BY <2>1, <2>11, <3>4
      <4> QED
        BY <3>1, <3>2, <4>1 DEF ChainOK
    <3> QED
      BY <3>3, <3>4
  <2>15. ChainOK'
    BY <2>11, <2>14 DEF ChainOK
  <2>16. n + 1 \in 1 .. Len(chain')
    BY <2>11
  <2> QED
    BY <2>10, <2>11, <2>15, <2>16
<1> QED
  BY <1>2, <1>3

LEMMA StartBlockStep ==
    ASSUME IInv, StartBlock
    PROVE  IInv'
<1> DEFINE coins   == Answer(chain'[height'].held[BondedPool])
           refused == height' = 1 /\ coins # NoCoins /\ ~WellFormed(coins)
<1>1. /\ pc = "idle" /\ HandlerDone /\ saved.blocks # 1 .. LastBlock
      /\ height' = (IF saved.blocks = {} THEN 1 ELSE Max(saved.blocks) + 1)
      /\ BlockOnChain(height')
      /\ work' = IF height' = 1 /\ ~refused
                 THEN ImportModuleAccount(WithBlock(saved, height'), coins)
                 ELSE WithBlock(saved, height')
      /\ pc' = IF refused THEN "rollback" ELSE "block"
      /\ next' = IF refused THEN Len(chain'[height'].events) + 1 ELSE 1
      /\ UNCHANGED <<file, saved, reader, chunk, job, faults>>
  BY DEF StartBlock, WithBlock
<1> HIDE DEF coins, refused
<1>2. ChainOK /\ SavedOK /\ file \in Files /\ JobOK
  BY DEF IInv, ImportOK
<1>3. PICK n \in 0 .. Len(chain) :
         saved.blocks = 1 .. n /\ \A h \in 1 .. n : Matches(saved, h, HeldAt(h), Exact(h))
  BY <1>2 DEF SavedOK
<1>4. n \in Nat /\ n + 1 <= LastBlock
  <2>1. saved.blocks \subseteq 1 .. LastBlock /\ LastBlock \in Nat /\ Len(chain) \in Nat
    BY <1>2, LedgerAssumption DEF SavedOK, TablesOK, ChainOK, LedgerAssumption
  <2>2. n # LastBlock
    BY <1>1, <1>3
  <2>3. n = 0 \/ n \in 1 .. LastBlock
    BY <1>3, <2>1
  <2> QED
    BY <2>1, <2>2, <2>3, LedgerAssumption DEF LedgerAssumption
<1>5. height' = n + 1
  <2>1. CASE n = 0
    BY <1>1, <1>3, <2>1
  <2>2. CASE n # 0
    <3>1. n \in 1 .. n /\ 1 .. n \in SUBSET (1 .. n)
      BY <1>4, <2>2
    <3>2. Max(1 .. n) = n
      BY <1>4, <3>1, MaxOfInterval
    <3> QED
      BY <1>1, <1>3, <3>1, <3>2
  <2> QED
    BY <2>1, <2>2
<1>6. /\ ChainOK' /\ n + 1 \in 1 .. Len(chain')
      /\ chain' = chain \/ \E block \in Blocks : chain' = Append(chain, block)
  BY <1>1, <1>2, <1>3, <1>4, <1>5, BlockMade
<1>7. ~Starting /\ ~Starting' /\ ~Importing' /\ pc' # "boot"
  BY <1>1 DEF Starting, Importing
<1>8. SavedOK'
  BY <1>1, <1>2, <1>6, <1>7, SavedKept DEF ChainOK
<1>9. ImportOK'
  BY <1>1, <1>7, ImportKept DEF IInv
<1>10. /\ job' = NoJob /\ JobOK' /\ Ended' = Len(chain'[n + 1].events) + 1
       /\ refused => HandlerDone'
  <2>1. chain' \in Seq(Blocks)
    BY <1>6 DEF ChainOK
  <2>2. chain'[n + 1] \in Blocks
    BY <1>6, <2>1
  <2>3. Len(chain'[n + 1].events) \in Nat
    BY <2>2 DEF Blocks
  <2>4. BlockEvents' = chain'[n + 1].events
    BY <1>4, <1>5 DEF BlockEvents
  <2>5. Ended' = Len(chain'[n + 1].events) + 1 /\ 1 \in 1 .. Ended' /\ Ended' \in 1 .. Ended'
    BY <2>3, <2>4 DEF Ended
  <2>6. next' = Ended' \/ next' = 1
    BY <1>1, <1>5, <2>5
  <2>7. job' = NoJob /\ job = NoJob /\ faults' \in 0 .. MaxFaults
    BY <1>1, <1>2 DEF JobOK, HandlerDone
  <2>8. refused => next' = Ended'
    BY <1>1, <1>5, <2>5
  <2> QED
    BY <1>5, <1>6, <2>5, <2>6, <2>7, <2>8 DEF JobOK, HandlerDone
<1>11. PICK u, t, h, held : u = work' /\ t = saved /\ h = n + 1 /\ held = HeldAt(n)
  OBVIOUS
<1>12. PICK before, accounts : before = Exact(n) /\ accounts = Exact(h)'
  OBVIOUS
<1>13. /\ before = Exact(n)' /\ accounts \subseteq before /\ before \subseteq Account
       /\ n \in 0 .. Len(chain)
  <2>1. Exact(n)' = Exact(n)
    BY <1>1, <1>2, <1>6, ChainGrows DEF ChainOK
  <2>2. n \in 0 .. h /\ h \in Nat
    BY <1>4, <1>11
  <2>3. (Exact(h) \subseteq Exact(n))'
    BY <2>2 DEF Exact
  <2>4. Exact(n) \subseteq Account
    BY DEF Exact
  <2> QED
    BY <1>12, <2>1, <2>3, <2>4
<1>14. ASSUME ~refused
       PROVE  /\ IsTables(u) /\ TablesOK(u) /\ u.blocks = 1 .. h /\ u.balances = t.balances
              /\ h > 1 => u.genesis = t.genesis
              /\ Matches(u, h, held, accounts)
  <2>1. IsTables(t) /\ TablesOK(t) /\ t.blocks = 1 .. n
    BY <1>2, <1>3, <1>11 DEF SavedOK
  <2>2. CASE n = 0
    <3>1. BegunOK(t) /\ GenesisOK(t) /\ t.balances = {}
      <4>1. saved.blocks = {}
        BY <1>3, <2>2
      <4>2. BegunOK(saved) /\ GenesisOK(saved)
        BY <1>2, <1>7, <4>1 DEF SavedOK
      <4> QED
        BY <1>11, <4>2 DEF BegunOK
    <3>2. PICK amounts : amounts = chain'[1].held[BondedPool]
      OBVIOUS
    <3>3. height' = 1 /\ h = 1 /\ 1 \in 1 .. Len(chain') /\ held = GenesisHeld
      BY <1>5, <1>6, <1>11, <2>2 DEF HeldAt
    <3>4. u = ImportModuleAccount(WithBlock(t, 1), Answer(amounts))
      BY <1>1, <1>11, <1>14, <3>2, <3>3 DEF coins
    <3>5. amounts \in [Denom -> Nat]
      <4>1. chain' \in Seq(Blocks) /\ BondedPool \in Account
        BY <1>6, GenesisAssumption DEF ChainOK, GenesisAssumption
      <4>2. chain'[1] \in Blocks
        BY <3>3, <4>1
      <4> QED
        BY <3>2, <4>1, <4>2 DEF Blocks, Holding
    <3>6. BondedPool \in accounts => amounts = GenesisHeld[BondedPool]
      <4>1. SUFFICES ASSUME BondedPool \in Exact(1)'
                     PROVE  amounts = GenesisHeld[BondedPool]
        BY <1>12, <3>3
      <4>2. PICK block : block = chain'[1]
        OBVIOUS
      <4>3. block \in Blocks /\ Follows(block, GenesisHeld)
        <5>1. chain' \in Seq(Blocks) /\ Follows(chain'[1], HeldAt(1 - 1)')
          BY <1>6, <3>3 DEF ChainOK
        <5>2. HeldAt(1 - 1)' = GenesisHeld
          BY <1>1 DEF HeldAt, GenesisHeld
        <5> QED
          BY <3>3, <4>2, <5>1, <5>2
      <4>4. \A i \in DOMAIN block.events : block.events[i].address # BondedPool
        <5>1. 1 \in 1 .. 1 /\ ~(1 > 1)
          OBVIOUS
        <5> QED
          BY <4>1, <4>2, <5>1 DEF Exact
      <4>5. BondedPool \in Account
        BY GenesisAssumption DEF GenesisAssumption
      <4> QED
        BY <3>2, <4>2, <4>3, <4>4, <4>5, Untouched
    <3>7. accounts \in SUBSET Account
      BY <1>13
    <3>8. PICK r : r = WithBlock(t, 1)
      OBVIOUS
    <3>9. /\ IsTables(u) /\ TablesOK(u) /\ u.blocks = 1 .. 1 /\ u.balances = {}
          /\ Matches(u, 1, GenesisHeld, accounts)
      BY <1>2, <2>1, <3>1, <3>4, <3>5, <3>6, <3>7, <3>8, ModuleAccountImported
    <3> QED
      BY <3>1, <3>3, <3>9
  <2>3. CASE n # 0
    <3>1. u = WithBlock(t, n + 1) /\ n \in Nat \ {0} /\ h > 1
      BY <1>1, <1>4, <1>5, <1>11, <2>3
    <3>2. Matches(t, n, held, before)
      BY <1>3, <1>4, <1>11, <1>12, <2>3
    <3>3. accounts \in SUBSET before
      BY <1>13
    <3> QED
      BY <1>4, <1>11, <2>1, <3>1, <3>2, <3>3, BlockBegun
  <2> QED
    BY <2>2, <2>3
<1>15. IsTables(u) /\ TablesOK(u)
  <2>1. CASE refused
    <3>1. u = WithBlock(t, n + 1) /\ IsTables(t) /\ TablesOK(t) /\ t.blocks = 1 .. n
      BY <1>1, <1>2, <1>3, <1>5, <1>11, <2>1 DEF SavedOK
    <3>2. /\ IsTables(u) /\ u.blocks = t.blocks \cup {n + 1} /\ u.accounts = t.accounts
          /\ u.validators = t.validators /\ u.genesis = t.genesis /\ u.balances = t.balances
      BY <3>1, WithBlockIs
    <3>3. n + 1 \in 1 .. LastBlock
      BY <1>4, LedgerAssumption DEF LedgerAssumption
    <3> QED
      BY <3>1, <3>2, <3>3 DEF TablesOK
  <2>2. CASE ~refused
    BY <1>14, <2>2
  <2> QED
    BY <2>1, <2>2
<1>16. ASSUME ~refused
       PROVE  Working'
  <2>0. next' = 1
    BY <1>1, <1>16
  <2>1. Course(h, 0)' = held
    <3>1. h - 1 = n /\ HeldAt(n)' = HeldAt(n)
      BY <1>1, <1>2, <1>4, <1>6, <1>11, ChainGrows DEF ChainOK
    <3>2. chain' \in Seq(Blocks) /\ h \in 1 .. Len(chain')
      BY <1>6, <1>11 DEF ChainOK
    <3>3. chain'[h] \in Blocks
      BY <3>2
    <3>4. PICK e \in Seq(Events) : e = chain'[h].events
      BY <3>3 DEF Blocks
    <3>5. After(held, SubSeq(e, 1, 0)) = held
      BY AfterSteps
    <3> QED
      BY <1>11, <3>1, <3>4, <3>5 DEF Course
  <2>2. saved'.blocks = 1 .. h - 1 /\ work'.blocks = 1 .. h /\ h - 1 = n
    <3>1. h - 1 = n
      BY <1>4, <1>11
    <3> QED
      BY <1>1, <1>3, <1>11, <1>14, <1>16, <3>1
  <2>3. saved'.balances = {row \in work'.balances : row.height # h}
    <3>1. \A row \in t.balances : row.height # h
      BY <1>2, <1>3, <1>4, <1>11 DEF SavedOK, TablesOK
    <3> QED
      BY <1>1, <1>11, <1>14, <1>16, <3>1
  <2>4. BlockTables'
    BY <1>1, <1>5, <1>11, <1>14, <1>16, <2>2, <2>3 DEF BlockTables
  <2>5. Course(height, next - 1)' = held
    BY <1>1, <1>5, <1>11, <2>0, <2>1 DEF Course, HeldAt, GenesisHeld
  <2>6. Exact(height)' = accounts
    BY <1>5, <1>11, <1>12 DEF Exact
  <2> QED
    BY <1>5, <1>6, <1>10, <1>11, <1>14, <1>16, <2>4, <2>5, <2>6 DEF Working
<1>17. WorkOK'
  <2>1. IsTables(work') /\ TablesOK(work')
    BY <1>11, <1>15
  <2>2. CASE refused
    BY <1>1, <1>7, <1>10, <2>1, <2>2 DEF WorkOK
  <2>3. CASE ~refused
    BY <1>1, <1>7, <1>16, <2>1, <2>3 DEF WorkOK
  <2> QED
    BY <2>2, <2>3
<1> QED
  BY <1>6, <1>8, <1>9, <1>10, <1>17 DEF IInv

\* The event in work, and the holdings before and after it.
LEMMA EventInWork ==
    ASSUME IInv, NEW h \in 1 .. Len(chain), h = height, NEW i \in 1 .. Ended - 1
    PROVE  /\ BlockEvents[i] \in Events
           /\ Course(h, i - 1) \in Holding /\ Course(h, i) \in Holding
           /\ Course(h, i) = Moves(Course(h, i - 1), BlockEvents[i])
<1>1. file \in Files /\ ChainOK /\ h > 0
  BY DEF IInv, ImportOK
<1>2. PICK e : e = chain[h].events
  OBVIOUS
<1>3. BlockEvents = e
  BY <1>1, <1>2 DEF BlockEvents
<1>4. /\ e \in Seq(Events)
      /\ \A j \in 0 .. Len(e) : Course(h, j) \in Holding
      /\ \A j \in 0 .. Len(e) - 1 : Course(h, j + 1) = Moves(Course(h, j), e[j + 1])
  BY <1>1, <1>2, CourseSteps
<1>5. i \in 1 .. Len(e)
  BY <1>3, <1>4 DEF Ended
<1>6. PICK j \in 0 .. Len(e) - 1 : j = i - 1
  BY <1>5
<1>7. j + 1 = i /\ j \in 0 .. Len(e)
  BY <1>5, <1>6
<1> QED
  BY <1>3, <1>4, <1>5, <1>6, <1>7

LEMMA ReadEventStep ==
    ASSUME IInv, ReadEvent
    PROVE  IInv'
<1>1. /\ job = NoJob /\ next # Ended /\ next' = next + 1
      /\ UNCHANGED <<file, saved, work, pc, reader, chunk, chain, height, faults>>
  BY DEF ReadEvent, importVars
<1>2. PICK n, e : n = next /\ e = BlockEvents[next]
  OBVIOUS
<1>3. PICK balance \in GetBalance(work, e.address, height) :
         job' = BalanceRow(e.address, height, Changed(balance, e))
  BY <1>2 DEF ReadEvent
<1>4. /\ job'.address = e.address /\ job'.height = height
      /\ job'.coins = Changed(balance, e)
  BY <1>3 DEF BalanceRow
<1>5. file \in Files /\ ChainOK /\ JobOK /\ WorkOK /\ height \in 0 .. Len(chain)
  BY DEF IInv, ImportOK, JobOK
<1>6. Ended \in Nat /\ n \in 1 .. Ended - 1
  BY <1>1, <1>2, <1>5, EndedIs DEF JobOK
<1>7. height # 0
  <2>1. SUFFICES ASSUME height = 0 PROVE FALSE
    OBVIOUS
  <2>2. Ended = 1
    BY <2>1 DEF Ended, BlockEvents
  <2> QED
    BY <1>6, <2>2
<1>8. PICK h \in 1 .. Len(chain) : h = height
  BY <1>5, <1>7 DEF ChainOK
<1>9. /\ e \in Events
      /\ Course(h, n - 1) \in Holding /\ Course(h, n) \in Holding
      /\ Course(h, n) = Moves(Course(h, n - 1), e)
  BY <1>2, <1>6, <1>8, EventInWork
<1>10. e.address \in Account
  BY <1>9, LedgerAssumption DEF LedgerAssumption
<1>11. job' # NoJob
  BY <1>4, <1>7 DEF NoJob, BalanceRow
<1>12. ~HandlerDone /\ ~Starting /\ ~Starting' /\ ~Importing' /\ pc' # "boot"
  BY <1>1, <1>5 DEF HandlerDone, WorkOK, Starting, Importing
<1>13. ChainOK'
  BY <1>1, <1>5, ChainKept
<1>14. SavedOK'
  BY <1>1, <1>5, <1>12, SavedKept DEF IInv, ChainOK
<1>15. ImportOK'
  BY <1>1, <1>12, ImportKept DEF IInv
<1>16. JobOK'
  <2>1. next' \in 1 .. Ended'
    BY <1>1, <1>2, <1>6 DEF Ended, BlockEvents
  <2>2. IsAmounts(job'.coins)
    <3>1. TablesOK(work)
      BY <1>5 DEF WorkOK
    <3>2. IsAmounts(balance)
      BY <3>1, FoundAmounts
    <3> QED
      BY <1>4, <1>9, <3>2, ChangedAmounts
  <2> QED
    BY <1>1, <1>4, <1>5, <1>8, <1>10, <2>1, <2>2 DEF JobOK
<1>17. ASSUME Working
       PROVE  Working'
  <2>1. next' > 1 /\ n - 1 = next' - 2 /\ n = next' - 1
    BY <1>1, <1>2, <1>6
  <2>2. Matches(work, height, Course(h, n - 1), Exact(h))
    BY <1>1, <1>2, <1>8, <1>17 DEF Working
  <2>3. ASSUME e.address \in Exact(h)
        PROVE  Tells(job'.coins, Course(h, n)[e.address])
    <3>1. Tells(balance, Course(h, n - 1)[e.address])
      BY <1>3, <2>2, <2>3 DEF Matches
    <3>2. IsMove(e)
      <4>1. BlockEvents = chain[h].events
        BY <1>7, <1>8 DEF BlockEvents
      <4>2. chain[h].events \in Seq(Events)
        BY <1>5, CourseSteps
      <4>3. n \in DOMAIN chain[h].events /\ e = chain[h].events[n]
        BY <1>2, <1>6, <4>1, <4>2 DEF Ended
      <4>4. h \in 1 .. h
        BY <1>5 DEF ChainOK
      <4> QED
        BY <2>3, <4>3, <4>4 DEF Exact
    <3> QED
      BY <1>4, <1>9, <3>1, <3>2, EventChanges
  <2>4. Exact(height)' = Exact(h)
    BY <1>1, <1>8 DEF Exact
  <2>5. \A i : Course(height, i)' = Course(h, i)
    BY <1>1, <1>8 DEF Course, HeldAt, GenesisHeld
  <2>6. /\ Course(height, next - 2)' = Course(h, n - 1)
        /\ Course(height, next - 1)' = Course(h, n)
    BY <1>1, <1>8, <2>1 DEF Course, HeldAt, GenesisHeld
  <2>7. job'.address = BlockEvents'[next' - 1].address
    BY <1>1, <1>2, <1>4, <2>1 DEF BlockEvents
  <2>8. BlockTables' /\ height' \in 1 .. Len(chain')
    BY <1>1, <1>8, <1>17 DEF Working, BlockTables
  <2> QED
    BY <1>1, <1>4, <1>8, <1>11, <2>1, <2>2, <2>3, <2>4, <2>6, <2>7, <2>8 DEF Working
<1>18. WorkOK'
  BY <1>1, <1>5, <1>12, <1>17 DEF WorkOK
<1> QED
  BY <1>13, <1>14, <1>15, <1>16, <1>18 DEF IInv

LEMMA BlockFailsStep ==
    ASSUME IInv, BlockFails
    PROVE  IInv'
<1>1. /\ pc = "block" /\ pc' = "rollback" /\ faults < MaxFaults /\ faults' = faults + 1
      /\ UNCHANGED <<file, saved, work, reader, chunk, chain, height>>
      /\ (job' = job /\ next' = next) \/ (job' = NoJob /\ next' = Ended)
  BY DEF BlockFails, Fault
<1>2. file \in Files /\ ChainOK /\ JobOK /\ WorkOK /\ height \in 0 .. Len(chain)
  BY DEF IInv, ImportOK, JobOK
<1>3. ~Starting /\ ~Starting' /\ ~Importing' /\ pc' # "boot"
  BY <1>1 DEF Starting, Importing
<1>4. ChainOK'
  BY <1>1, <1>2, ChainKept
<1>5. SavedOK'
  BY <1>1, <1>2, <1>3, SavedKept DEF IInv, ChainOK
<1>6. ImportOK'
  BY <1>1, <1>3, ImportKept DEF IInv
<1>7. Ended' = Ended /\ Ended \in Nat /\ Ended >= 1
  BY <1>1, <1>2, EndedIs DEF Ended, BlockEvents
<1>8. JobOK'
  <2>1. faults' \in 0 .. MaxFaults
    BY <1>1, <1>2, LedgerAssumption DEF JobOK, LedgerAssumption
  <2>2. next' \in 1 .. Ended'
    BY <1>1, <1>2, <1>7 DEF JobOK
  <2> QED
    BY <1>1, <1>2, <2>1, <2>2 DEF JobOK
<1>9. HandlerDone' \/ Working'
  <2>1. CASE job' = job /\ next' = next
    BY <1>1, <1>2, <2>1, WorkingKept DEF WorkOK, ChainOK
  <2>2. CASE job' = NoJob /\ next' = Ended
    BY <1>7, <2>2 DEF HandlerDone
  <2> QED
    BY <1>1, <2>1, <2>2
<1>10. WorkOK'
  BY <1>1, <1>2, <1>3, <1>9 DEF WorkOK
<1> QED
  BY <1>4, <1>5, <1>6, <1>8, <1>10 DEF IInv

LEMMA RollBackStep ==
    ASSUME IInv, RollBack
    PROVE  IInv'
<1>1. /\ pc = "rollback" /\ pc' = "idle" /\ work' = saved
      /\ UNCHANGED <<file, saved, reader, chunk, chain, height, next, job, faults>>
  BY DEF RollBack, blockVars
<1>2. ChainOK /\ JobOK /\ WorkOK
  BY DEF IInv
<1>3. ~Starting /\ ~Starting' /\ ~Importing' /\ pc' # "boot"
  BY <1>1 DEF Starting, Importing
<1>4. ChainOK'
  BY <1>1, <1>2, ChainKept
<1>5. SavedOK'
  BY <1>1, <1>2, <1>3, SavedKept DEF IInv, ChainOK
<1>6. ImportOK'
  BY <1>1, <1>3, ImportKept DEF IInv
<1>7. JobOK' /\ HandlerDone' = HandlerDone
  BY <1>1, <1>2, JobKept
<1>8. HandlerDone \/ height \notin saved.blocks
  <2>1. ASSUME Working
        PROVE  height \notin saved.blocks
    <3>1. height \in Nat /\ saved.blocks = 1 .. height - 1
      BY <1>2, <2>1 DEF Working, BlockTables, ChainOK
    <3> QED
      BY <3>1
  <2> QED
    BY <1>1, <1>2, <2>1 DEF WorkOK
<1>9. WorkOK'
  <2>1. IsTables(work') /\ TablesOK(work')
    BY <1>1 DEF IInv, SavedOK
  <2> QED
    BY <1>1, <1>3, <1>7, <1>8, <2>1 DEF WorkOK
<1> QED
  BY <1>4, <1>5, <1>6, <1>7, <1>9 DEF IInv

\* The tables of a block that is handled.
LEMMA BlockHandledOK ==
    ASSUME IInv, Working, HandlerDone
    PROVE  /\ height \in 1 .. Len(chain) /\ work.blocks = 1 .. height
           /\ \A h \in 1 .. height : Matches(work, h, HeldAt(h), Exact(h))
<1>1. /\ height \in 1 .. Len(chain) /\ work.blocks = 1 .. height
      /\ saved.blocks = 1 .. height - 1
      /\ saved.balances = {row \in work.balances : row.height # height}
      /\ height > 1 => work.genesis = saved.genesis
  BY DEF Working, BlockTables
<1>2. file \in Files /\ ChainOK /\ TablesOK(work) /\ SavedOK
  BY DEF IInv, ImportOK, WorkOK
<1>3. Matches(work, height, HeldAt(height), Exact(height))
  <2>1. PICK h \in 1 .. Len(chain) : h = height
    BY <1>1
  <2>2. /\ Len(chain[h].events) \in 0 .. MaxEvents
        /\ Course(h, Len(chain[h].events)) = HeldAt(h)
    BY <1>2, CourseSteps
  <2>3. h > 0 /\ MaxEvents \in Nat
    BY LedgerAssumption DEF LedgerAssumption
  <2>4. next - 1 = Len(chain[h].events) /\ job = NoJob
    BY <2>1, <2>2, <2>3 DEF HandlerDone, Ended, BlockEvents
  <2>5. Matches(work, h, Course(h, next - 1), Exact(h))
    BY <2>1, <2>4 DEF Working
  <2> QED
    BY <2>1, <2>2, <2>4, <2>5
<1>4. ASSUME NEW h \in 1 .. height - 1
      PROVE  Matches(work, h, HeldAt(h), Exact(h))
  <2>1. h \in Nat /\ height \in Nat /\ h < height /\ height > 1
    BY <1>1, <1>2 DEF ChainOK
  <2>2. \A row \in work.balances : row.height \in Nat
    BY <1>2, LedgerAssumption DEF TablesOK, LedgerAssumption
  <2>3. PICK n \in 0 .. Len(chain) :
           saved.blocks = 1 .. n /\ \A g \in 1 .. n : Matches(saved, g, HeldAt(g), Exact(g))
    BY <1>2 DEF SavedOK
  <2>4. h \in 1 .. n
    BY <1>1, <2>3
  <2>5. Matches(saved, h, HeldAt(h), Exact(h))
    BY <2>3, <2>4
  <2>6. ASSUME NEW a \in Exact(h), NEW c \in GetBalance(work, a, h)
        PROVE  Tells(c, HeldAt(h)[a])
    <3>1. Found(work, a, h, c)
      BY GetBalanceFinds
    <3>2. \A row : row \in work.balances /\ row.height <= h <=> row \in saved.balances /\ row.height <= h
      BY <1>1, <2>1, <2>2
    <3>3. work.genesis = saved.genesis
      BY <1>1, <2>1
    <3>4. Found(saved, a, h, c)
      BY <3>1, <3>2, <3>3 DEF Found, HasRow
    <3>5. c \in GetBalance(saved, a, h)
      BY <3>4, GetBalanceFinds
    <3> QED
      BY <2>5, <3>5 DEF Matches
  <2> QED
    BY <2>6 DEF Matches
<1>5. \A h \in 1 .. height : h = height \/ h \in 1 .. height - 1
  BY <1>1, <1>2 DEF ChainOK
<1> QED
  BY <1>1, <1>3, <1>4, <1>5

\* A commit, the answer to which is lost or not.
LEMMA CommitStep ==
    ASSUME IInv, CommitBlock \/ CommitLost
    PROVE  IInv'
<1>1. /\ pc = "block" /\ HandlerDone /\ pc' \in {"idle", "rollback"}
      /\ work' = saved' /\ saved' \in {saved, work} /\ faults' \in 0 .. MaxFaults
      /\ UNCHANGED <<file, reader, chunk, chain, height, next, job>>
  <2>1. CASE CommitBlock
    BY <2>1 DEF CommitBlock, BlockHandled, blockVars, IInv, JobOK
  <2>2. CASE CommitLost
    <3>1. faults < MaxFaults /\ faults' = faults + 1
      BY <2>2 DEF CommitLost, Fault
    <3>2. faults' \in 0 .. MaxFaults
      BY <3>1, LedgerAssumption DEF IInv, JobOK, LedgerAssumption
    <3> QED
      BY <2>2, <3>2 DEF CommitLost, BlockHandled
  <2> QED
    BY <2>1, <2>2
<1>2. ChainOK /\ JobOK /\ WorkOK /\ Working
  BY <1>1 DEF IInv, WorkOK
<1>3. ~Starting /\ ~Starting' /\ ~Importing' /\ pc' # "boot"
  BY <1>1 DEF Starting, Importing
<1>4. ChainOK'
  BY <1>1, <1>2, ChainKept
<1>5. SavedOK'
  <2>1. CASE saved' = saved
    BY <1>1, <1>2, <1>3, <2>1, SavedKept DEF IInv, ChainOK
  <2>2. CASE saved' = work
    <3>1. /\ height \in 1 .. Len(chain) /\ work.blocks = 1 .. height
          /\ \A h \in 1 .. height : Matches(work, h, HeldAt(h), Exact(h))
      BY <1>1, <1>2, BlockHandledOK
    <3>2. PICK n \in 1 .. Len(chain) : n = height
      BY <3>1
    <3>3. \A h \in 0 .. Len(chain) : HeldAt(h)' = HeldAt(h) /\ Exact(h)' = Exact(h)
      BY <1>1, <1>2, ChainGrows DEF ChainOK
    <3>4. \A h \in 1 .. n : h \in 0 .. Len(chain)
      BY <1>2 DEF ChainOK
    <3>5. n \in 0 .. Len(chain') /\ saved'.blocks = 1 .. n /\ saved'.blocks # {}
      <4>1. chain' = chain /\ Len(chain) \in Nat
        BY <1>1, <1>2 DEF ChainOK
      <4>2. n \in 0 .. Len(chain) /\ n \in 1 .. n
        BY <4>1, <3>2
      <4>3. saved'.blocks = 1 .. n
        BY <2>2, <3>1, <3>2
      <4> QED
        BY <4>1, <4>2, <4>3
    <3>6. \A h \in 1 .. n : Matches(saved', h, HeldAt(h)', Exact(h)')
      BY <2>2, <3>1, <3>2, <3>3, <3>4
    <3>7. IsTables(saved') /\ TablesOK(saved')
      BY <1>2, <2>2 DEF WorkOK
    <3> QED
      BY <3>5, <3>6, <3>7 DEF SavedOK
  <2> QED
    BY <1>1, <2>1, <2>2
<1>6. ImportOK'
  BY <1>1, <1>3, ImportKept DEF IInv
<1>7. JobOK' /\ HandlerDone'
  BY <1>1, <1>2 DEF JobOK, HandlerDone, Ended, BlockEvents
<1>8. WorkOK'
  <2>1. IsTables(work') /\ TablesOK(work')
    BY <1>1, <1>5 DEF SavedOK
  <2> QED
    BY <1>1, <1>3, <1>7, <2>1 DEF WorkOK
<1> QED
  BY <1>4, <1>5, <1>6, <1>7, <1>8 DEF IInv

LEMMA SameBalances ==
    ASSUME NEW t, NEW u, u.balances = t.balances, u.genesis = t.genesis, NEW a, NEW h
    PROVE  GetBalance(u, a, h) = GetBalance(t, a, h)
BY DEF GetBalance

\* A handler that a rollback left behind finds no block for its row.
LEMMA LateWriteStep ==
    ASSUME IInv, WriteBalance, pc = "idle"
    PROVE  IInv'
<1>1. /\ job # NoJob /\ job' = NoJob
      /\ work' = Written(work) /\ saved' = Written(saved)
      /\ next' = (IF job.height \in work.blocks THEN next ELSE Ended)
      /\ UNCHANGED <<file, pc, reader, chunk, chain, height, faults>>
  BY DEF WriteBalance
<1>2. file \in Files /\ ChainOK /\ JobOK /\ WorkOK /\ SavedOK /\ height \in 0 .. Len(chain)
  BY DEF IInv, ImportOK, JobOK
<1>3. work = saved /\ height \notin saved.blocks /\ job.height = height /\ job.address \in Account
  BY <1>1, <1>2 DEF WorkOK, HandlerDone, JobOK
<1>4. PICK t, u, a : t = saved /\ u = saved' /\ a = job.address
  OBVIOUS
<1>5. u = AssertAccount(t, a)
  BY <1>1, <1>3, <1>4 DEF Written
<1>6. /\ IsTables(u) /\ u.accounts = t.accounts \cup {a}
      /\ u.blocks = t.blocks /\ u.validators = t.validators
      /\ u.genesis = t.genesis /\ u.balances = t.balances
  BY <1>2, <1>4, <1>5, AssertAccountIs DEF SavedOK
<1>7. TablesOK(u) /\ work' = u /\ next' = Ended /\ saved' = u
  BY <1>1, <1>2, <1>3, <1>4, <1>6 DEF SavedOK, TablesOK
<1>8. \A b, h : GetBalance(u, b, h) = GetBalance(t, b, h)
  BY <1>6, SameBalances
<1>9. ChainOK'
  BY <1>1, <1>2, ChainKept
<1>10. ~Starting /\ ~Starting' /\ ~Importing' /\ pc' # "boot"
  BY <1>1 DEF Starting, Importing
<1>11. SavedOK'
  <2>1. t.blocks = {} => BegunOK(t) /\ GenesisOK(t)
    BY <1>2, <1>4, <1>10 DEF SavedOK
  <2>2. t.blocks = {} => BegunOK(saved)'
    BY <1>1, <1>6, <1>7, <2>1 DEF BegunOK, AsInFile
  <2>3. t.blocks = {} => GenesisOK(saved)'
    BY <1>1, <1>7, <1>8, <2>1 DEF GenesisOK, GenesisHeld
  <2>4. PICK n \in 0 .. Len(chain) : t.blocks = 1 .. n /\ \A h \in 1 .. n : Matches(t, h, HeldAt(h), Exact(h))
    BY <1>2, <1>4 DEF SavedOK
  <2>5. \A h \in 0 .. Len(chain) : HeldAt(h)' = HeldAt(h) /\ Exact(h)' = Exact(h)
    BY <1>1, <1>2, ChainGrows DEF ChainOK
  <2>6. \A h \in 1 .. n : h \in 0 .. Len(chain)
    BY <1>2, <2>4 DEF ChainOK
  <2>7. \A h \in 1 .. n : Matches(u, h, HeldAt(h)', Exact(h)')
    BY <1>8, <2>4, <2>5, <2>6 DEF Matches
  <2>8. n \in 0 .. Len(chain')
    BY <1>1
  <2> QED
    BY <1>6, <1>7, <2>2, <2>3, <2>4, <2>7, <2>8 DEF SavedOK
<1>12. ImportOK'
  BY <1>1, <1>10, ImportKept DEF IInv
<1>13. Ended' = Ended /\ Ended \in Nat /\ Ended >= 1
  BY <1>1, <1>2, EndedIs DEF Ended, BlockEvents
<1>14. JobOK' /\ HandlerDone'
  BY <1>1, <1>2, <1>7, <1>13 DEF JobOK, HandlerDone
<1>15. WorkOK'
  BY <1>1, <1>6, <1>7, <1>10, <1>14 DEF WorkOK
<1> QED
  BY <1>9, <1>11, <1>12, <1>14, <1>15 DEF IInv

LEMMA WriteBalanceStep ==
    ASSUME IInv, WriteBalance, pc # "idle"
    PROVE  IInv'
<1>1. /\ job # NoJob /\ job' = NoJob
      /\ work' = Written(work) /\ saved' = saved
      /\ next' = (IF job.height \in work.blocks THEN next ELSE Ended)
      /\ UNCHANGED <<file, pc, reader, chunk, chain, height, faults>>
  BY DEF WriteBalance
<1>2. file \in Files /\ ChainOK /\ JobOK /\ WorkOK /\ SavedOK
  BY DEF IInv, ImportOK
<1>3. ~HandlerDone
  BY <1>1 DEF HandlerDone
<1>4. ~Starting /\ ~Starting' /\ ~Importing' /\ pc' # "boot" /\ pc \in {"block", "rollback"}
  BY <1>1, <1>2, <1>3 DEF WorkOK, Starting, Importing
<1>5. Working
  BY <1>2, <1>3, <1>4 DEF WorkOK
<1>6. PICK h \in 1 .. Len(chain) : h = height
  BY <1>5 DEF Working
<1>7. PICK t, u, a, c, n : t = work /\ u = work' /\ a = job.address /\ c = job.coins /\ n = next
  OBVIOUS
<1>8. h \in Nat \ {0} /\ t.blocks = 1 .. h /\ job.height = h /\ a \in Account
  BY <1>1, <1>2, <1>5, <1>6, <1>7 DEF Working, BlockTables, JobOK, ChainOK
<1>9. u = SaveBalance(t, a, c, h) /\ next' = n
  BY <1>1, <1>7, <1>8 DEF Written
<1>10. IsTables(t) /\ TablesOK(t)
  BY <1>2, <1>7 DEF WorkOK
<1>11. Ended \in Nat /\ n \in 1 .. Ended /\ n > 1
  BY <1>1, <1>2, <1>5, <1>7, EndedIs DEF JobOK, Working
<1>12. PICK i \in 1 .. Ended - 1 : i = n - 1
  BY <1>11
<1>13. i = n - 1 /\ i - 1 = n - 2
  BY <1>11, <1>12
<1>14. PICK e : e = BlockEvents[i]
  OBVIOUS
<1>15. PICK held, new : held = Course(h, i - 1) /\ new = Course(h, i)
  OBVIOUS
<1>16. e \in Events /\ held \in Holding /\ new \in Holding /\ new = Moves(held, e)
  BY <1>6, <1>14, <1>15, EventInWork
<1>17. /\ Matches(t, h, held, Exact(h)) /\ a = e.address
       /\ a \in Exact(h) => Tells(c, new[a])
  BY <1>1, <1>5, <1>6, <1>7, <1>13, <1>14, <1>15 DEF Working
<1>18. \A b \in Exact(h) : b # a => new[b] = held[b]
  <2>1. \A b \in Account : b # e.address => Moves(held, e)[b] = held[b]
    BY <1>16, OthersStay
  <2> QED
    BY <1>16, <1>17, <2>1 DEF Exact
<1>19. \A row \in t.balances : row.height \in Nat /\ row.height <= h
  BY <1>8, <1>10 DEF TablesOK
<1>20. Matches(u, h, new, Exact(h))
  BY <1>8, <1>9, <1>10, <1>17, <1>18, <1>19, SaveBalanceMatches
<1>21. PICK row : row = BalanceRow(a, h, c)
  OBVIOUS
<1>22. row.address = a /\ row.height = h /\ row.coins = c
  BY <1>21 DEF BalanceRow
<1>23. /\ IsTables(u) /\ u.accounts = t.accounts \cup {a}
       /\ u.blocks = t.blocks /\ u.validators = t.validators /\ u.genesis = t.genesis
       /\ u.balances = {r \in t.balances : ~(r.address = a /\ r.height = h)} \cup {row}
  BY <1>9, <1>10, <1>21, SaveBalanceIs
<1>24. TablesOK(u)
  <2>1. IsAmounts(c) /\ h \in t.blocks
    BY <1>1, <1>2, <1>7, <1>8 DEF JobOK
  <2> QED
    BY <1>8, <1>10, <1>22, <1>23, <2>1 DEF TablesOK
<1>25. ChainOK'
  BY <1>1, <1>2, ChainKept
<1>26. SavedOK'
  BY <1>1, <1>2, <1>4, SavedKept DEF ChainOK
<1>27. ImportOK'
  BY <1>1, <1>4, ImportKept DEF IInv
<1>28. JobOK'
  BY <1>1, <1>2, <1>7, <1>9 DEF JobOK, Ended, BlockEvents
<1>29. Working'
  <2>1. Course(height, next - 1)' = new
    BY <1>1, <1>6, <1>7, <1>9, <1>13, <1>15 DEF Course, HeldAt, GenesisHeld
  <2>2. BlockTables'
    <3>1. /\ saved.blocks = 1 .. h - 1 /\ saved.balances = {r \in t.balances : r.height # h}
          /\ h > 1 => t.genesis = saved.genesis
      BY <1>5, <1>6, <1>7 DEF Working, BlockTables
    <3>2. saved.balances = {r \in u.balances : r.height # h}
      BY <1>22, <1>23, <3>1
    <3> QED
      BY <1>1, <1>6, <1>7, <1>8, <1>23, <3>1, <3>2 DEF BlockTables
  <2>3. Exact(height)' = Exact(h)
    BY <1>1, <1>6 DEF Exact
  <2> QED
    BY <1>1, <1>6, <1>7, <1>20, <2>1, <2>2, <2>3 DEF Working
<1>30. WorkOK'
  BY <1>1, <1>4, <1>7, <1>23, <1>24, <1>29 DEF WorkOK
<1> QED
  BY <1>25, <1>26, <1>27, <1>28, <1>30 DEF IInv

-----------------------------------------------------------------------------
(***************************************************************************)
(* The theorems.                                                           *)
(***************************************************************************)
LEMMA InitOK ==
    ASSUME Init
    PROVE  IInv
<1>1. /\ file \in Files /\ saved = EmptyTables /\ work = EmptyTables /\ pc = "boot"
      /\ reader = 1 /\ chunk = 0
      /\ chain = <<>> /\ height = 0 /\ next = 1 /\ job = NoJob /\ faults = 0
  BY DEF Init, ImportInit
<1>2. MaxFaults \in Nat /\ LastBlock \in Nat
  BY LedgerAssumption DEF LedgerAssumption
<1>3. ChainOK
  <2>1. chain \in Seq(Blocks) /\ Len(chain) = 0
    BY <1>1
  <2> QED
    BY <1>2, <2>1 DEF ChainOK
<1>4. IsTables(saved) /\ TablesOK(saved) /\ BegunOK(saved) /\ saved.blocks = {}
  BY <1>1 DEF EmptyTables, IsTables, TablesOK, BegunOK
<1>5. Starting /\ ~Importing
  BY <1>1 DEF Starting, Importing
<1>6. SavedOK
  <2>1. 0 \in 0 .. Len(chain) /\ 1 .. 0 = {}
    BY <1>1
  <2> QED
    BY <1>4, <1>5, <2>1 DEF SavedOK
<1>7. ImportOK
  <2>1. IsEntries(file.accounts) /\ Entries = file.accounts
    BY <1>1, FileFacts DEF Entries, Readers
  <2>2. Len(Entries) \in Nat
    BY <2>1 DEF IsEntries
  <2> QED
    BY <1>1, <1>5, <2>2 DEF ImportOK
<1>8. HandlerDone
  BY <1>1 DEF HandlerDone, Ended, BlockEvents
<1>9. WorkOK
  BY <1>1, <1>4, <1>8 DEF WorkOK
<1>10. JobOK
  BY <1>1, <1>2 DEF JobOK, Ended, BlockEvents
<1> QED
  BY <1>3, <1>6, <1>7, <1>9, <1>10 DEF IInv

LEMMA StepOK ==
    ASSUME ProcessGenesis, IInv, [Next]_vars
    PROVE  IInv'
<1>1. CASE ImportStep /\ UNCHANGED blockVars
  <2>1. CASE Boot
    BY <1>1, <2>1, BootStep
  <2>2. CASE ImportAccount
    BY <1>1, <2>2, ImportAccountStep
  <2>3. CASE ImportBalance
    BY <1>1, <2>3, ImportBalanceStep
  <2>4. CASE ImportGenTx
    BY <1>1, <2>4, ImportGenTxStep
  <2>5. CASE ImportRefused
    BY <1>1, <2>5, ImportRefusedStep
  <2>6. CASE CommitChunks
    BY <1>1, <2>6, CommitChunksStep
  <2>7. CASE NextReader
    BY <1>1, <2>7, NextReaderStep
  <2>8. CASE EndImport
    BY <1>1, <2>8, EndImportStep
  <2> QED
    BY <1>1, <2>1, <2>2, <2>3, <2>4, <2>5, <2>6, <2>7, <2>8 DEF ImportStep
<1>2. CASE BlockStep
  <2>1. CASE StartBlock
    BY <2>1, StartBlockStep
  <2>2. CASE ReadEvent
    BY <2>2, ReadEventStep
  <2>3. CASE WriteBalance
    BY <2>3, WriteBalanceStep, LateWriteStep
  <2>4. CASE BlockFails
    BY <2>4, BlockFailsStep
  <2>5. CASE RollBack
    BY <2>5, RollBackStep
  <2>6. CASE CommitBlock \/ CommitLost
    BY <2>6, CommitStep
  <2> QED
    BY <1>2, <2>1, <2>2, <2>3, <2>4, <2>5, <2>6 DEF BlockStep
<1>3. CASE Crash
  BY <1>3, CrashStep
<1>4. CASE UNCHANGED vars
  <2>1. /\ UNCHANGED <<file, saved, work, pc, reader, chunk>>
        /\ UNCHANGED <<chain, height, next, job, faults>>
    BY <1>4 DEF vars, importVars, blockVars
  <2>2. ChainOK /\ SavedOK /\ ImportOK /\ WorkOK /\ JobOK
    BY DEF IInv
  <2>3. ChainOK'
    BY <2>1, <2>2, ChainKept
  <2>4. Starting' = Starting /\ Importing' = Importing
    BY <2>1 DEF Starting, Importing
  <2>5. SavedOK'
    BY <2>1, <2>2, <2>4, SavedKept DEF ChainOK
  <2>6. ImportOK'
    BY <2>1, <2>2, <2>4 DEF ImportOK, Entries, ImportTables, BegunOK, AsInFile, Stored, Netted,
                            Doomed, GenesisHeld, BalancesDone, GenTxsDone
  <2>7. JobOK' /\ HandlerDone' = HandlerDone
    BY <2>1, <2>2, JobKept
  <2>8. Working => Working'
    BY <2>1, <2>2, WorkingKept DEF ChainOK
  <2>9. WorkOK'
    BY <2>1, <2>2, <2>4, <2>7, <2>8 DEF WorkOK
  <2> QED
    BY <2>3, <2>5, <2>6, <2>7, <2>9 DEF IInv
<1> QED
  BY <1>1, <1>2, <1>3, <1>4 DEF Next

LEMMA Invariance ==
    ASSUME ProcessGenesis
    PROVE  Spec => []IInv
<1>1. Init => IInv
  BY InitOK
<1>2. IInv /\ [Next]_vars => IInv'
  BY StepOK
<1> QED
  BY <1>1, <1>2, PTL DEF Spec

\* The tables hold accounts, heights of stored blocks and amounts, and a handler is
\* about to write no other: whatever eventHandler() has found, and whenever an
\* attempt or an import was cut short.
THEOREM TypeCorrect ==
    ASSUME ProcessGenesis
    PROVE  Spec => []LedgerTypeOK
<1>1. IInv => LedgerTypeOK
  <2>1. SUFFICES ASSUME IInv PROVE LedgerTypeOK
    OBVIOUS
  <2>2. ChainOK /\ SavedOK /\ ImportOK /\ WorkOK /\ JobOK /\ file \in Files
    BY <2>1 DEF IInv, ImportOK
  <2>3. Len(Readers) = 3
    BY DEF Readers
  <2>4. height \in 0 .. Len(chain) /\ Len(chain) \in Nat /\ Len(chain) <= LastBlock
    BY <2>2 DEF JobOK, ChainOK
  <2>5. height \in 0 .. LastBlock
    BY <2>4, LedgerAssumption DEF LedgerAssumption
  <2>6. Ended \in 1 .. MaxEvents + 1 /\ MaxEvents \in Nat
    BY <2>2, <2>4, EndedIs, LedgerAssumption DEF LedgerAssumption
  <2>7. next \in 1 .. MaxEvents + 1
    BY <2>2, <2>6 DEF JobOK
  <2>8. \/ job = NoJob
        \/ job.address \in Account /\ job.height \in 1 .. LastBlock /\ IsAmounts(job.coins)
    BY <2>2, <2>5 DEF JobOK
  <2> QED
    BY <2>2, <2>3, <2>5, <2>7, <2>8 DEF LedgerTypeOK, SavedOK, WorkOK, ImportOK, JobOK
<1> QED
  BY <1>1, Invariance, PTL

\* getBalance() tells of every committed height what an account holds on the chain,
\* unless coins were minted to it or burned from it or it is the module account and
\* was touched in block 1:
\* an import that was interrupted and run again, an attempt that was rolled back, a
\* handler that it left behind and a commit whose answer was lost add nothing to the
\* balances and take nothing from them.
THEOREM BalancesAreRight ==
    ASSUME ProcessGenesis
    PROVE  Spec => []BalancesMatchChain
<1>1. IInv => BalancesMatchChain
  <2>1. SUFFICES ASSUME IInv PROVE BalancesMatchChain
    OBVIOUS
  <2>2. PICK n \in 0 .. Len(chain) :
           saved.blocks = 1 .. n /\ \A h \in 1 .. n : Matches(saved, h, HeldAt(h), Exact(h))
    BY <2>1 DEF IInv, SavedOK
  <2> QED
    BY <2>2 DEF BalancesMatchChain, Matches, Tells
<1> QED
  BY <1>1, Invariance, PTL

\* The rows of a committed block stand: neither the blocks after it nor a handler that
\* runs on beside them writes to its height.
THEOREM HistoryIsKept ==
    ASSUME ProcessGenesis
    PROVE  Spec => HistoryStands
<1> DEFINE Stands == \A h \in saved.blocks :
              {row \in saved'.balances : row.height = h} = {row \in saved.balances : row.height = h}
<1>1. IInv /\ [Next]_vars => Stands \/ UNCHANGED vars
  <2>1. SUFFICES ASSUME IInv, [Next]_vars PROVE Stands \/ UNCHANGED vars
    OBVIOUS
  <2>2. CASE ImportStep
    <3>1. CASE saved' = saved
      BY <3>1
    <3>2. CASE saved' # saved
      <4>1. Importing
        BY <2>2, <3>2 DEF ImportStep, Boot, ImportAccount, ImportBalance, ImportGenTx, ImportRefused,
                          CommitChunks, NextReader, EndImport, ChunkDone, Importing
      <4>2. saved.blocks = {}
        BY <2>1, <4>1 DEF IInv, ImportOK
      <4> QED
        BY <4>2
    <3> QED
      BY <3>1, <3>2
  <2>3. CASE WriteBalance
    <3>1. CASE pc = "idle"
      <4>1. job # NoJob /\ saved' = Written(saved)
        BY <2>3, <3>1 DEF WriteBalance
      <4>2. IsTables(saved) /\ height \notin saved.blocks /\ job.height = height
        BY <2>1, <3>1, <4>1 DEF IInv, SavedOK, WorkOK, HandlerDone, JobOK
      <4>3. saved' = AssertAccount(saved, job.address)
        BY <4>1, <4>2 DEF Written
      <4>4. saved'.balances = saved.balances
        BY <4>2, <4>3, AssertAccountIs
      <4> QED
        BY <4>4
    <3>2. CASE pc # "idle"
      BY <2>3, <3>2 DEF WriteBalance
    <3> QED
      BY <3>1, <3>2
  <2>4. CASE CommitBlock \/ CommitLost
    <3>1. pc = "block" /\ saved' \in {saved, work}
      BY <2>4 DEF CommitBlock, CommitLost, BlockHandled
    <3>2. /\ saved.blocks = 1 .. height - 1 /\ height \in 1 .. Len(chain) /\ Len(chain) \in Nat
          /\ saved.balances = {row \in work.balances : row.height # height}
      BY <2>1, <3>1 DEF IInv, WorkOK, Working, BlockTables, ChainOK
    <3>3. \A h \in saved.blocks : h # height
      BY <3>2
    <3> QED
      BY <3>1, <3>2, <3>3
  <2>5. CASE StartBlock \/ ReadEvent \/ BlockFails \/ RollBack \/ Crash
    <3>1. saved' = saved
      BY <2>5 DEF StartBlock, ReadEvent, BlockFails, RollBack, Crash, Restart, importVars
    <3> QED
      BY <3>1
  <2> QED
    BY <2>1, <2>2, <2>3, <2>4, <2>5 DEF Next, BlockStep
<1> QED
  BY <1>1, Invariance, PTL DEF Spec, HistoryStands
=============================================================================

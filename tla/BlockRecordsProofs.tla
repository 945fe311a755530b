------------------------- MODULE BlockRecordsProofs -------------------------
(***************************************************************************)
(* Proofs about the tables of the blocks modules, for every chain: any     *)
(* transactions and proposers, any times between blocks, any windows, and  *)
(* any number of failures, restarts and changes of the configuration.      *)
(*                                                                         *)
(* The inductive invariant says of the tables, committed and at work, what *)
(* they hold of the chain up to a height: Has(t, n, c, s) that tables t of *)
(* schema s have the first n blocks of the chain c and nothing else, and   *)
(* Averages(t, n, c) that their averages are those of these blocks.  The   *)
(* chain and the schema are parameters, because both grow while the tables *)
(* stay.                                                                   *)
(***************************************************************************)
EXTENDS BlockRecords, Maxima

Block == [time : Nat, txs : Contents \cup {<<>>}, proposer : Proposer]

\* Blocks of the chain c as rows.
RowOf(c, s, h) ==
    IF s = "full"
    THEN [height |-> h, shown |-> Shown(c[h].time), num_txs |-> Len(c[h].txs),
          proposer |-> c[h].proposer]
    ELSE [height |-> h, shown |-> Shown(c[h].time)]

TxsOf(c, h) ==
    {[hash |-> c[h].txs[i].raw, height |-> h, success |-> c[h].txs[i].ok] :
        i \in DOMAIN c[h].txs}

DifferentTxs(b) == \A i, j \in DOMAIN b.txs : b.txs[i].raw = b.txs[j].raw => i = j

Has(t, n, c, s) ==
    /\ t.blocks = {RowOf(c, s, h) : h \in 1 .. n}
    /\ s # "minimal" => /\ t.txs = UNION {TxsOf(c, h) : h \in 1 .. n}
                        /\ \A h \in 1 .. n : DifferentTxs(c[h])

\* The last block that is as old as the window at block h, and the averages that
\* should be there after n blocks.
OldEnough(c, w, h) == {k \in 1 .. h : c[k].time <= c[h].time - Window[w]}

AgoIn(c, w, h) == Max({0} \cup OldEnough(c, w, h))

AverageIn(c, w, h) ==
    [blocks |-> h - AgoIn(c, w, h), time |-> c[h].time - c[AgoIn(c, w, h)].time, height |-> h]

Periodic(c, w, n) == {h \in 1 .. n : h % Interval = 0 /\ AgoIn(c, w, h) > 0}

Averages(t, n, c) ==
    (n > 0 => c[n].time < ClockSetBack) =>
        \A w \in DOMAIN Window :
            t.averages[w] = IF Periodic(c, w, n) = {} THEN {}
                            ELSE {AverageIn(c, w, Max(Periodic(c, w, n)))}

ChainOK ==
    /\ chain \in Seq(Block)
    /\ \A h, k \in 1 .. Len(chain) : h < k => chain[h].time < chain[k].time

\* Tables are a record of three.
IsTables(t) == t = [blocks |-> t.blocks, txs |-> t.txs, averages |-> t.averages]

UpTo(t, n, c, s) ==
    n \in 0 .. Len(c) /\ Has(t, n, c, s) /\ (s # "minimal" => Averages(t, n, c))

\* After a commit without an answer the loop does not know yet whether the tables have
\* one more block than before.
SavedOK ==
    /\ height \in 1 .. Len(chain) + 1
    /\ schema = "none" => pc = "setup" /\ height = 1
    /\ IsTables(saved)
    /\ \E n \in 0 .. Len(chain) : UpTo(saved, n, chain, schema)
    /\ pc # "rollback" => UpTo(saved, height - 1, chain, schema)

WorkOK ==
    /\ pc \in {"setup", "idle", "periodic", "commit", "rollback"}
    /\ pc \in {"setup", "idle"} => work = saved
    /\ pc \in {"periodic", "commit"} =>
          /\ height <= Len(chain)
          /\ IsTables(work)
          /\ Has(work, height, chain, schema)
    /\ pc = "periodic" =>
          schema = "full" /\ height % Interval = 0 /\ work.averages = saved.averages
    /\ pc = "commit" /\ schema # "minimal" => Averages(work, height, chain)

IInv == ChainOK /\ SavedOK /\ WorkOK

ModuleOK == module \in {"full", "minimal"}

-----------------------------------------------------------------------------
(***************************************************************************)
(* The chain.                                                              *)
(***************************************************************************)
LEMMA ConstantFacts ==
    /\ Contents \subseteq Seq([raw : Tx, ok : BOOLEAN])
    /\ Steps \subseteq Nat \ {0} /\ Interval \in Nat \ {0}
    /\ ClockSetBack \in Nat /\ SetBackBy \in Nat
    /\ \A w \in DOMAIN Window : Window[w] \in Nat \ {0}
BY RecordsAssumption DEF RecordsAssumption

LEMMA BlockFacts ==
    ASSUME NEW c \in Seq(Block), NEW h \in 1 .. Len(c)
    PROVE  /\ c[h] \in Block /\ c[h].time \in Nat
           /\ c[h].txs \in Seq([raw : Tx, ok : BOOLEAN])
           /\ DOMAIN c[h].txs = 1 .. Len(c[h].txs) /\ Len(c[h].txs) \in Nat
<1>1. c[h] \in Block
  OBVIOUS
<1>2. c[h].time \in Nat /\ c[h].txs \in Contents \cup {<<>>}
  BY <1>1 DEF Block
<1>3. c[h].txs \in Seq([raw : Tx, ok : BOOLEAN])
  <2>1. c[h].txs = <<>> => c[h].txs \in Seq([raw : Tx, ok : BOOLEAN])
    OBVIOUS
  <2> QED
    BY <1>2, <2>1, ConstantFacts
<1> QED
  BY <1>1, <1>2, <1>3

\* The last block that is old enough, or 0.
LEMMA AgoFacts ==
    ASSUME NEW c \in Seq(Block), NEW h \in 1 .. Len(c), NEW w
    PROVE  /\ AgoIn(c, w, h) \in 0 .. h
           /\ AgoIn(c, w, h) > 0 => AgoIn(c, w, h) \in OldEnough(c, w, h)
           /\ \A k \in OldEnough(c, w, h) : k <= AgoIn(c, w, h)
           /\ AgoIn(c, w, h) = 0 <=> OldEnough(c, w, h) = {}
<1> DEFINE S == {0} \cup OldEnough(c, w, h)
<1>1. OldEnough(c, w, h) \subseteq 1 .. h
  BY DEF OldEnough
<1>2. S \in SUBSET Nat /\ h \in Nat /\ (\A x \in S : x <= h) /\ S # {}
  BY <1>1
<1>3. Max(S) \in S /\ \A x \in S : x <= Max(S)
  <2> HIDE DEF S
  <2> QED
    BY <1>2, MaxOfBounded
<1>4. AgoIn(c, w, h) \in S /\ \A x \in S : x <= AgoIn(c, w, h)
  BY <1>3 DEF AgoIn
<1>5. AgoIn(c, w, h) \in 0 .. h
  BY <1>2, <1>4
<1>6. AgoIn(c, w, h) = 0 => OldEnough(c, w, h) = {}
  BY <1>1, <1>4
<1> QED
  BY <1>1, <1>4, <1>5, <1>6

LEMMA PeriodicFacts ==
    ASSUME NEW c, NEW w, NEW n \in Nat, Periodic(c, w, n) # {}
    PROVE  /\ Max(Periodic(c, w, n)) \in Periodic(c, w, n)
           /\ \A h \in Periodic(c, w, n) : h <= Max(Periodic(c, w, n))
<1>1. Periodic(c, w, n) \in SUBSET Nat /\ \A h \in Periodic(c, w, n) : h <= n
  BY DEF Periodic
<1> QED
  BY <1>1, MaxOfBounded

\* What was said of the first n blocks stays true when blocks are added.
LEMMA ChainGrows ==
    ASSUME NEW c \in Seq(Block), NEW d \in Seq(Block), NEW n \in 0 .. Len(c),
           Len(c) <= Len(d), \A h \in 1 .. n : d[h] = c[h],
           NEW t, NEW s
    PROVE  /\ Has(t, n, c, s) => Has(t, n, d, s)
           /\ Averages(t, n, c) => Averages(t, n, d)
<1>1. \A h \in 1 .. n : RowOf(c, s, h) = RowOf(d, s, h) /\ TxsOf(c, h) = TxsOf(d, h)
  BY DEF RowOf, TxsOf
<1>2. Has(t, n, c, s) => Has(t, n, d, s)
  BY <1>1 DEF Has
<1>3. ASSUME NEW w, NEW h \in 1 .. n
      PROVE  AgoIn(c, w, h) = AgoIn(d, w, h)
  <2>1. \A k \in 1 .. h : k \in 1 .. n
    OBVIOUS
  <2>2. OldEnough(c, w, h) = OldEnough(d, w, h)
    BY <2>1 DEF OldEnough
  <2> QED
    BY <2>2 DEF AgoIn
<1>4. \A w : Periodic(c, w, n) = Periodic(d, w, n)
  BY <1>3 DEF Periodic
<1>5. ASSUME NEW w, NEW h \in Periodic(c, w, n)
      PROVE  AverageIn(c, w, h) = AverageIn(d, w, h)
  <2>1. h \in 1 .. n /\ h \in 1 .. Len(c) /\ AgoIn(c, w, h) > 0
    BY DEF Periodic
  <2>2. AgoIn(c, w, h) \in 1 .. h
    BY <2>1, AgoFacts
  <2>3. AgoIn(c, w, h) \in 1 .. n
    BY <2>1, <2>2
  <2> QED
    BY <1>3, <2>1, <2>3 DEF AverageIn
<1>6. Averages(t, n, c) => Averages(t, n, d)
  <2> SUFFICES ASSUME Averages(t, n, c), n > 0 => d[n].time < ClockSetBack,
                      NEW w \in DOMAIN Window
               PROVE  t.averages[w] = IF Periodic(d, w, n) = {} THEN {}
                                      ELSE {AverageIn(d, w, Max(Periodic(d, w, n)))}
    BY DEF Averages
  <2>1. t.averages[w] = IF Periodic(c, w, n) = {} THEN {}
                        ELSE {AverageIn(c, w, Max(Periodic(c, w, n)))}
    <3>1. n > 0 => c[n].time < ClockSetBack
      OBVIOUS
    <3> QED
      BY <3>1 DEF Averages
  <2>2. CASE Periodic(c, w, n) = {}
    BY <1>4, <2>1, <2>2
  <2>3. CASE Periodic(c, w, n) # {}
    <3>1. Max(Periodic(c, w, n)) \in Periodic(c, w, n)
      BY <2>3, PeriodicFacts
    <3> QED
      BY <1>4, <1>5, <2>1, <2>3, <3>1
  <2> QED
    BY <2>2, <2>3
<1> QED
  BY <1>2, <1>6

\* The loop finds the block it is to process, made now or before.
LEMMA BlockIsThere ==
    ASSUME ChainOK, height \in 1 .. Len(chain) + 1, BlockOnChain
    PROVE  /\ ChainOK' /\ height \in 1 .. Len(chain')
           /\ Len(chain) <= Len(chain')
           /\ \A h \in 1 .. Len(chain) : chain'[h] = chain[h]
<1>1. CASE height \in DOMAIN chain
  <2>1. chain' = chain
    BY <1>1 DEF BlockOnChain
  <2>2. height \in 1 .. Len(chain)
    BY <1>1 DEF ChainOK
  <2> QED
    BY <2>1, <2>2 DEF ChainOK
<1>2. CASE height \notin DOMAIN chain
  <2>1. PICK step \in Steps, p \in Proposer, x \in Contents \cup {<<>>} :
           chain' = Append(chain, [time |-> Time(height - 1) + step, txs |-> x, proposer |-> p])
    BY <1>2 DEF BlockOnChain
  <2>2. chain \in Seq(Block) /\ Len(chain) \in Nat /\ height = Len(chain) + 1
    BY <1>2 DEF ChainOK
  <2>3. /\ Time(height - 1) \in Nat
        /\ height - 1 > 0 => Time(height - 1) = chain[height - 1].time
    BY <2>2, BlockFacts DEF Time
  <2>4. PICK b : b = [time |-> Time(height - 1) + step, txs |-> x, proposer |-> p]
    OBVIOUS
  <2>5. b \in Block /\ b.time > Time(height - 1)
    BY <2>3, <2>4, ConstantFacts DEF Block
  <2>6. /\ chain' \in Seq(Block) /\ Len(chain') = Len(chain) + 1
        /\ chain'[height] = b
        /\ \A h \in 1 .. Len(chain) : chain'[h] = chain[h]
    BY <2>1, <2>2, <2>4, <2>5
  <2>7. ASSUME NEW h \in 1 .. Len(chain'), NEW k \in 1 .. Len(chain'), h < k
        PROVE  chain'[h].time < chain'[k].time
    <3>1. CASE k \in 1 .. Len(chain)
      <4>1. h \in 1 .. Len(chain)
        BY <2>2, <2>7, <3>1
      <4> QED
        BY <2>6, <2>7, <3>1, <4>1 DEF ChainOK
    <3>2. CASE k = height
      <4>1. h \in 1 .. Len(chain) /\ height - 1 \in 1 .. Len(chain)
        BY <2>2, <2>7, <3>2
      <4>2. h = height - 1 \/ h < height - 1
        BY <2>2, <4>1
      <4>3. chain[h].time = chain[height - 1].time \/ chain[h].time < chain[height - 1].time
        BY <4>1, <4>2 DEF ChainOK
      <4>4. chain[h].time \in Nat /\ chain[height - 1].time \in Nat
        BY <2>2, <4>1, BlockFacts
      <4>5. chain[height - 1].time < b.time /\ b.time \in Nat
        BY <2>2, <2>3, <2>5, <4>1 DEF Block
      <4> QED
        BY <2>6, <3>2, <4>1, <4>3, <4>4, <4>5
    <3> QED
      BY <2>2, <2>6, <3>1, <3>2
  <2> QED
    BY <2>2, <2>6, <2>7 DEF ChainOK
<1> QED
  BY <1>1, <1>2

-----------------------------------------------------------------------------
(***************************************************************************)
(* The tables.                                                             *)
(***************************************************************************)
\* getNextHeight() answers the successor of the last block in the table.
LEMMA NextHeightIs ==
    ASSUME NEW c, NEW s, NEW n \in Nat, Has(saved, n, c, s)
    PROVE  NextHeight = n + 1 /\ Committed = 1 .. n
<1>1. \A h : RowOf(c, s, h).height = h
  BY DEF RowOf
<1>2. Committed = 1 .. n
  BY <1>1 DEF Committed, Has
<1>3. NextHeight = Max(0 .. n) + 1
  <2>1. Committed \cup {0} = 0 .. n
    BY <1>2
  <2> QED
    BY <2>1 DEF NextHeight, Committed
<1>4. PICK m : m = Max(0 .. n)
  OBVIOUS
<1>5. m \in 0 .. n /\ \A x \in 0 .. n : x <= m
  <2>1. 0 .. n \in SUBSET Nat /\ (\A x \in 0 .. n : x <= n) /\ 0 .. n # {}
    OBVIOUS
  <2> QED
    BY <1>4, <2>1, MaxOfBounded
<1>6. m = n
  BY <1>5
<1> QED
  BY <1>2, <1>3, <1>4, <1>6

\* Before the clock is set back, it was not set back before.
LEMMA Earlier ==
    ASSUME NEW c \in Seq(Block), NEW n \in 1 .. Len(c),
           \A h, k \in 1 .. Len(c) : h < k => c[h].time < c[k].time,
           c[n].time < ClockSetBack
    PROVE  n - 1 > 0 => c[n - 1].time < ClockSetBack
<1> SUFFICES ASSUME n - 1 > 0
             PROVE  c[n - 1].time < ClockSetBack
  OBVIOUS
<1>1. n - 1 \in 1 .. Len(c) /\ n - 1 < n
  OBVIOUS
<1>2. c[n - 1].time < c[n].time /\ c[n - 1].time \in Nat /\ c[n].time \in Nat
  BY <1>1, BlockFacts
<1> QED
  BY <1>2, ConstantFacts

\* Averages that are not due stay right when a block is added.
LEMMA NotDue ==
    ASSUME NEW c \in Seq(Block), NEW n \in 1 .. Len(c), NEW t, NEW u,
           \A h, k \in 1 .. Len(c) : h < k => c[h].time < c[k].time,
           Averages(t, n - 1, c), u.averages = t.averages,
           \A w \in DOMAIN Window : ~(n % Interval = 0 /\ AgoIn(c, w, n) > 0)
    PROVE  Averages(u, n, c)
<1>0. n > 0 /\ n \in Nat
  OBVIOUS
<1> SUFFICES ASSUME c[n].time < ClockSetBack, NEW w \in DOMAIN Window
             PROVE  u.averages[w] = IF Periodic(c, w, n) = {} THEN {}
                                    ELSE {AverageIn(c, w, Max(Periodic(c, w, n)))}
  BY <1>0 DEF Averages
<1>1. n - 1 > 0 => c[n - 1].time < ClockSetBack
  BY Earlier
<1>2. Periodic(c, w, n) = Periodic(c, w, n - 1)
  <2>1. 1 .. n = (1 .. n - 1) \cup {n}
    OBVIOUS
  <2> QED
    BY <2>1 DEF Periodic
<1> QED
  BY <1>1, <1>2 DEF Averages

\* A block is added to the tables with its row and its transactions.
LEMMA OneMore ==
    ASSUME NEW c, NEW s, NEW n \in Nat \ {0}, NEW t, NEW u,
           Has(t, n - 1, c, s),
           u.blocks = t.blocks \cup {RowOf(c, s, n)},
           s # "minimal" => u.txs = t.txs \cup TxsOf(c, n) /\ DifferentTxs(c[n])
    PROVE  Has(u, n, c, s)
<1>1. 1 .. n = (1 .. n - 1) \cup {n}
  OBVIOUS
<1>2. u.blocks = {RowOf(c, s, h) : h \in 1 .. n}
  BY <1>1 DEF Has
<1>3. s # "minimal" => u.txs = UNION {TxsOf(c, h) : h \in 1 .. n}
  BY <1>1 DEF Has
<1>4. s # "minimal" => \A h \in 1 .. n : DifferentTxs(c[h])
  BY <1>1 DEF Has
<1> QED
  BY <1>2, <1>3, <1>4 DEF Has

LEMMA SaveBlockOK ==
    ASSUME IInv, SaveBlock
    PROVE  IInv'
<1>1. /\ pc = "idle" /\ BlockOnChain /\ height' = height /\ saved' = saved /\ schema' = schema
      /\ SaveFullBlock \/ SaveMinimalBlock
  BY DEF SaveBlock
<1>2. /\ ChainOK /\ UpTo(saved, height - 1, chain, schema) /\ work = saved /\ schema # "none"
      /\ height \in 1 .. Len(chain) + 1 /\ IsTables(saved)
  BY <1>1 DEF IInv, SavedOK, WorkOK
<1>3. /\ ChainOK' /\ height \in 1 .. Len(chain')
      /\ Len(chain) <= Len(chain')
      /\ \A h \in 1 .. Len(chain) : chain'[h] = chain[h]
  BY <1>1, <1>2, BlockIsThere
<1>4. /\ chain \in Seq(Block) /\ chain' \in Seq(Block) /\ height - 1 \in 0 .. Len(chain)
      /\ Len(chain) \in Nat /\ Len(chain') \in Nat
      /\ \A h \in 1 .. height - 1 : chain'[h] = chain[h]
  BY <1>2, <1>3 DEF ChainOK
<1>5. /\ Has(saved, height - 1, chain', schema)
      /\ schema # "minimal" => Averages(saved, height - 1, chain')
  BY <1>2, <1>3, <1>4, ChainGrows DEF UpTo
<1>6. SavedOK'
  <2>1. height - 1 \in 0 .. Len(chain')
    BY <1>3, <1>4
  <2>2. UpTo(saved', height' - 1, chain', schema')
    BY <1>1, <1>5, <2>1 DEF UpTo
  <2> QED
    BY <1>1, <1>2, <1>3, <1>4, <2>1, <2>2 DEF SavedOK, IsTables
<1>7. CASE pc' = "rollback"
  BY <1>3, <1>6, <1>7 DEF IInv, WorkOK
<1>8. CASE SaveFullBlock /\ pc' # "rollback"
  <2>1. PICK b : b = chain'[height]
    OBVIOUS
  <2>2. /\ Storable(b)
        /\ work' = [work EXCEPT !.blocks = @ \cup {FullRow(b)}, !.txs = @ \cup TxRows(b)]
        /\ pc' = IF height % Interval = 0 THEN "periodic" ELSE "commit"
    BY <1>8, <2>1 DEF SaveFullBlock, Refused
  <2>3. /\ work' = [blocks |-> saved.blocks \cup {FullRow(b)}, txs |-> saved.txs \cup TxRows(b),
                    averages |-> saved.averages]
    BY <1>2, <2>2 DEF IsTables
  <2>4. schema = "full" /\ DifferentTxs(b)
    BY <2>2 DEF Storable, UniqueTx, DifferentTxs
  <2>5. FullRow(b) = RowOf(chain', schema, height) /\ TxRows(b) = TxsOf(chain', height)
    BY <2>1, <2>4 DEF FullRow, RowOf, TxRows, TxsOf, TxRow
  <2>6. Has(work', height, chain', schema)
    <3>1. PICK u : u = work'
      OBVIOUS
    <3>2. u.blocks = saved.blocks \cup {RowOf(chain', schema, height)}
      BY <2>3, <2>5, <3>1
    <3>3. u.txs = saved.txs \cup TxsOf(chain', height) /\ DifferentTxs(chain'[height])
      BY <2>1, <2>3, <2>4, <2>5, <3>1
    <3>4. height \in Nat \ {0}
      BY <1>3
    <3> QED
      BY <1>5, <3>1, <3>2, <3>3, <3>4, OneMore
  <2>7. work'.averages = saved.averages /\ IsTables(work)'
    BY <2>3 DEF IsTables
  <2>8. pc' = "commit" => Averages(work', height, chain')
    <3>1. SUFFICES ASSUME pc' = "commit"
                   PROVE  Averages(work', height, chain')
      OBVIOUS
    <3>2. ~(height % Interval = 0)
      BY <2>2, <3>1
    <3>3. PICK u : u = work'
      OBVIOUS
    <3>4. \A h, k \in 1 .. Len(chain') : h < k => chain'[h].time < chain'[k].time
      BY <1>3 DEF ChainOK
    <3>5. Averages(u, height, chain')
      BY <1>3, <1>4, <1>5, <2>4, <2>7, <3>2, <3>3, <3>4, NotDue
    <3> QED
      BY <3>3, <3>5
  <2>9. WorkOK'
    BY <1>1, <1>3, <2>2, <2>4, <2>6, <2>7, <2>8 DEF WorkOK
  <2> QED
    BY <1>3, <1>6, <2>9 DEF IInv
<1>9. CASE SaveMinimalBlock /\ pc' # "rollback"
  <2>1. /\ schema = "minimal" /\ pc' = "commit"
        /\ work' = [work EXCEPT !.blocks = @ \cup {MinimalRow(chain'[height])}]
    BY <1>9 DEF SaveMinimalBlock, Refused
  <2>2. work' = [blocks |-> saved.blocks \cup {MinimalRow(chain'[height])}, txs |-> saved.txs,
                 averages |-> saved.averages]
    BY <1>2, <2>1 DEF IsTables
  <2>3. MinimalRow(chain'[height]) = RowOf(chain', schema, height)
    BY <2>1 DEF MinimalRow, RowOf
  <2>4. Has(work', height, chain', schema)
    <3>1. PICK u : u = work'
      OBVIOUS
    <3>2. u.blocks = saved.blocks \cup {RowOf(chain', schema, height)}
      BY <2>2, <2>3, <3>1
    <3>3. height \in Nat \ {0}
      BY <1>3
    <3> QED
      BY <1>5, <2>1, <3>1, <3>2, <3>3, OneMore
  <2>5. IsTables(work)'
    BY <2>2 DEF IsTables
  <2>6. WorkOK'
    BY <1>1, <1>3, <2>1, <2>4, <2>5 DEF WorkOK
  <2> QED
    BY <1>3, <1>6, <2>6 DEF IInv
<1> QED
  BY <1>1, <1>7, <1>8, <1>9

-----------------------------------------------------------------------------
(***************************************************************************)
(* The averages.                                                           *)
(***************************************************************************)
\* While the clock has not been set back, the row getBlockHeightTime() finds is that
\* of the last block that is old enough.
LEMMA RowOfAgo ==
    ASSUME ChainOK, height \in 1 .. Len(chain), Has(work, height, chain, "full"),
           chain[height].time < ClockSetBack, NEW w \in DOMAIN Window
    PROVE  BlockAt(Time(height) - Window[w]) =
              {RowOf(chain, "full", k) : k \in {AgoIn(chain, w, height)} \ {0}}
<1> DEFINE t == Time(height) - Window[w]
           ago == AgoIn(chain, w, height)
           Row(k) == RowOf(chain, "full", k)
<1>1. /\ chain \in Seq(Block) /\ chain[height].time \in Nat /\ ClockSetBack \in Nat
      /\ Window[w] \in Nat \ {0} /\ height \in Nat \ {0}
  BY BlockFacts, ConstantFacts DEF ChainOK
<1>2. t = chain[height].time - Window[w] /\ t \in Int /\ t < ClockSetBack /\ Shown(t) = t
  BY <1>1 DEF Time, Shown
<1>3. ASSUME NEW k \in 1 .. height
      PROVE  Row(k).shown = chain[k].time /\ chain[k].time \in Nat
  <2>1. k \in 1 .. Len(chain) /\ chain[k].time \in Nat
    BY <1>1, BlockFacts
  <2>2. k = height \/ k < height
    BY <1>1
  <2>3. chain[k].time <= chain[height].time
    BY <1>1, <2>1, <2>2 DEF ChainOK
  <2>4. chain[k].time < ClockSetBack
    BY <1>1, <2>1, <2>3
  <2> QED
    BY <2>1, <2>4 DEF RowOf, Shown
<1>4. PICK rows : rows = {row \in work.blocks : row.shown <= Shown(t)}
  OBVIOUS
<1>5. rows = {Row(k) : k \in OldEnough(chain, w, height)}
  <2>1. work.blocks = {Row(k) : k \in 1 .. height}
    BY DEF Has
  <2>2. \A k \in 1 .. height : Row(k).shown <= Shown(t) <=> k \in OldEnough(chain, w, height)
    BY <1>2, <1>3 DEF OldEnough
  <2>3. OldEnough(chain, w, height) \subseteq 1 .. height
    BY DEF OldEnough
  <2> HIDE DEF Row, t
  <2> QED
    BY <1>4, <2>1, <2>2, <2>3
<1>6. BlockAt(t) = {row \in rows : \A other \in rows : other.shown <= row.shown}
  BY <1>4 DEF BlockAt
<1>7. /\ ago \in 0 .. height
      /\ ago > 0 => ago \in OldEnough(chain, w, height)
      /\ \A k \in OldEnough(chain, w, height) : k <= ago
      /\ ago = 0 <=> OldEnough(chain, w, height) = {}
  BY <1>1, AgoFacts
<1>8. CASE ago = 0
  BY <1>5, <1>6, <1>7, <1>8
<1>9. CASE ago > 0
  <2>1. ago \in OldEnough(chain, w, height) /\ ago \in 1 .. height
    BY <1>7, <1>9
  <2>2. ASSUME NEW k \in OldEnough(chain, w, height)
        PROVE  /\ Row(k).shown <= Row(ago).shown
               /\ Row(ago).shown <= Row(k).shown => k = ago
    <3>1. k \in 1 .. height /\ k <= ago
      BY <1>7 DEF OldEnough
    <3>2. k = ago \/ k < ago
      BY <1>1, <2>1, <3>1
    <3>3. k = ago \/ chain[k].time < chain[ago].time
      <4>1. k \in 1 .. Len(chain) /\ ago \in 1 .. Len(chain)
        BY <1>1, <2>1, <3>1
      <4> QED
        BY <3>2, <4>1 DEF ChainOK
    <3>4. /\ Row(k).shown = chain[k].time /\ chain[k].time \in Nat
          /\ Row(ago).shown = chain[ago].time /\ chain[ago].time \in Nat
      BY <1>3, <2>1, <3>1
    <3> HIDE DEF Row, ago
    <3> QED
      BY <3>3, <3>4
  <2>3. BlockAt(t) = {Row(ago)}
    <3> HIDE DEF Row, ago, t
    <3> QED
      BY <1>5, <1>6, <2>1, <2>2
  <2>4. {ago} \ {0} = {ago}
    BY <1>9
  <2> QED
    BY <2>3, <2>4
<1> QED
  BY <1>1, <1>7, <1>8, <1>9

LEMMA SaveAveragesOK ==
    ASSUME IInv, SaveAverages
    PROVE  IInv'
<1>1. /\ pc = "periodic" /\ pc' = "commit" /\ schema' = schema /\ chain' = chain
      /\ saved' = saved /\ height' = height
  BY DEF SaveAverages
<1>2. PICK averages :
         /\ \A w \in DOMAIN Window : averages[w] \in Updated(w)
         /\ work' = [work EXCEPT !.averages = averages]
  BY DEF SaveAverages
<1>3. /\ ChainOK /\ SavedOK /\ IsTables(work) /\ Has(work, height, chain, schema)
      /\ UpTo(saved, height - 1, chain, schema) /\ schema = "full" /\ height % Interval = 0 /\ work.averages = saved.averages
      /\ height \in 1 .. Len(chain)
  BY <1>1 DEF IInv, WorkOK, SavedOK
<1>4. work' = [blocks |-> work.blocks, txs |-> work.txs, averages |-> averages]
  BY <1>2, <1>3 DEF IsTables
<1>5. ChainOK' /\ SavedOK'
  BY <1>1, <1>3 DEF ChainOK, SavedOK, UpTo, IsTables
<1>6. IsTables(work)' /\ Has(work', height, chain, schema)
  BY <1>3, <1>4 DEF IsTables, Has
<1>7. ASSUME chain[height].time < ClockSetBack, NEW w \in DOMAIN Window
      PROVE  averages[w] = IF Periodic(chain, w, height) = {} THEN {}
                           ELSE {AverageIn(chain, w, Max(Periodic(chain, w, height)))}
  <2>1. PICK ago : ago = AgoIn(chain, w, height)
    OBVIOUS
  <2>2. /\ chain \in Seq(Block) /\ ago \in 0 .. height /\ height \in Nat \ {0}
        /\ Len(chain) \in Nat
    BY <1>3, <2>1, AgoFacts DEF ChainOK
  <2>3. BlockAt(Time(height) - Window[w]) = {RowOf(chain, "full", k) : k \in {ago} \ {0}}
    BY <1>3, <1>7, <2>1, RowOfAgo
  <2>4. 1 .. height = (1 .. height - 1) \cup {height}
    BY <2>2
  <2>5. saved.averages[w] = IF Periodic(chain, w, height - 1) = {} THEN {}
                            ELSE {AverageIn(chain, w, Max(Periodic(chain, w, height - 1)))}
    <3>1. height - 1 > 0 => chain[height - 1].time < ClockSetBack
      BY <1>3, <1>7, Earlier DEF ChainOK
    <3> QED
      BY <1>3, <3>1 DEF UpTo, Averages
  <2>6. CASE ago = 0
    <3>1. BlockAt(Time(height) - Window[w]) = {}
      BY <2>3, <2>6
    <3>2. averages[w] = saved.averages[w]
      BY <1>2, <1>3, <3>1 DEF Updated
    <3>3. ~(AgoIn(chain, w, height) > 0)
      BY <2>1, <2>6
    <3>4. Periodic(chain, w, height) = Periodic(chain, w, height - 1)
      BY <2>4, <3>3 DEF Periodic
    <3> QED
      BY <2>5, <3>2, <3>4
  <2>7. CASE ago > 0
    <3>1. PICK row : row = RowOf(chain, "full", ago)
      OBVIOUS
    <3>2. BlockAt(Time(height) - Window[w]) = {row}
      BY <2>2, <2>3, <2>7, <3>1
    <3>3. averages[w] = Upserted(saved.averages[w], Since(row))
      BY <1>2, <1>3, <3>2 DEF Updated
    <3>4. Since(row) = AverageIn(chain, w, height)
      <4>1. chain[ago].time \in Nat /\ chain[height].time \in Nat /\ ago \in 1 .. Len(chain)
        BY <1>3, <2>2, <2>7, BlockFacts
      <4>2. ago = height \/ ago < height
        BY <2>2
      <4>3. chain[ago].time <= chain[height].time
        BY <1>3, <4>1, <4>2 DEF ChainOK
      <4>4. chain[ago].time < ClockSetBack
        BY <1>7, <4>1, <4>3, ConstantFacts
      <4>5. row.height = ago /\ row.shown = chain[ago].time
        BY <3>1, <4>4 DEF RowOf, Shown
      <4>6. Parsed(row.shown) = chain[ago].time /\ Time(height) = chain[height].time
        BY <2>2, <4>4, <4>5 DEF Parsed, Time
      <4> QED
        BY <2>1, <4>5, <4>6 DEF Since, AverageIn
    <3>5. height \in Periodic(chain, w, height)
      BY <1>3, <2>1, <2>2, <2>7 DEF Periodic
    <3>6. Max(Periodic(chain, w, height)) = height
      <4>1. PICK m : m = Max(Periodic(chain, w, height))
        OBVIOUS
      <4>2. m \in Periodic(chain, w, height) /\ height <= m
        BY <2>2, <3>5, <4>1, PeriodicFacts
      <4>3. m \in 1 .. height
        BY <4>2 DEF Periodic
      <4> QED
        BY <2>2, <4>1, <4>2, <4>3
    <3>7. \A old \in saved.averages[w] : old.height <= height
      <4>1. ASSUME Periodic(chain, w, height - 1) # {}
            PROVE  Max(Periodic(chain, w, height - 1)) \in 1 .. height - 1
        <5>1. height - 1 \in Nat
          BY <2>2
        <5> QED
          BY <4>1, <5>1, PeriodicFacts DEF Periodic
      <4>2. \A h : AverageIn(chain, w, h).height = h
        BY DEF AverageIn
      <4> QED
        BY <2>2, <2>5, <4>1, <4>2
    <3>8. Since(row).height = height
      BY DEF Since
    <3>9. averages[w] = {AverageIn(chain, w, height)}
      BY <3>3, <3>4, <3>7, <3>8 DEF Upserted
    <3> QED
      BY <3>5, <3>6, <3>9
  <2> QED
    BY <2>2, <2>6, <2>7
<1>8. Averages(work', height, chain)
  <2>1. PICK u : u = work'
    OBVIOUS
  <2>2. u.averages = averages /\ height > 0
    BY <1>3, <1>4, <2>1
  <2>3. Averages(u, height, chain)
    BY <1>7, <2>2 DEF Averages
  <2> QED
    BY <2>1, <2>3
<1>9. WorkOK'
  BY <1>1, <1>3, <1>6, <1>8 DEF WorkOK
<1> QED
  BY <1>5, <1>9 DEF IInv

-----------------------------------------------------------------------------
(***************************************************************************)
(* The other steps.                                                        *)
(***************************************************************************)
\* A step that leaves the committed tables alone.
LEMMA SavedStays ==
    ASSUME ChainOK, SavedOK, UNCHANGED <<chain, saved, schema, height>>,
           schema = "none" => pc' = "setup", pc' # "rollback" => pc # "rollback"
    PROVE  ChainOK' /\ SavedOK'
<1>1. ChainOK' /\ IsTables(saved)'
  BY DEF ChainOK, SavedOK, IsTables
<1> QED
  BY <1>1 DEF SavedOK

\* getNextHeight() answers the block after the last one that is saved.
LEMMA NextIsThere ==
    ASSUME ChainOK, SavedOK
    PROVE  /\ NextHeight \in 1 .. Len(chain) + 1
           /\ UpTo(saved, NextHeight - 1, chain, schema)
           /\ pc # "rollback" => NextHeight = height
<1>1. Len(chain) \in Nat /\ height \in 1 .. Len(chain) + 1
  BY DEF ChainOK, SavedOK
<1>2. ASSUME NEW n \in Nat, UpTo(saved, n, chain, schema)
      PROVE  NextHeight = n + 1
  BY <1>2, NextHeightIs DEF UpTo
<1>3. PICK n \in 0 .. Len(chain) : UpTo(saved, n, chain, schema)
  BY DEF SavedOK
<1>4. NextHeight = n + 1
  BY <1>2, <1>3
<1>5. NextHeight - 1 = n /\ NextHeight \in 1 .. Len(chain) + 1
  BY <1>1, <1>3, <1>4
<1>6. pc # "rollback" => NextHeight = height
  <2>1. SUFFICES ASSUME pc # "rollback"
                 PROVE  NextHeight = height
    OBVIOUS
  <2>2. UpTo(saved, height - 1, chain, schema) /\ height - 1 \in Nat
    BY <1>1, <2>1 DEF SavedOK
  <2>3. NextHeight = (height - 1) + 1
    BY <1>2, <2>2
  <2> QED
    BY <1>1, <2>3
<1> QED
  BY <1>3, <1>5, <1>6

\* A step after which the loop asks for the next height.
LEMMA AsksNext ==
    ASSUME ChainOK, SavedOK, UNCHANGED <<chain, saved, schema>>, height' = NextHeight,
           schema = "none" => pc = "setup" /\ pc' = "setup"
    PROVE  ChainOK' /\ SavedOK'
<1>1. ChainOK' /\ IsTables(saved)'
  BY DEF ChainOK, SavedOK, IsTables
<1>2. height' \in 1 .. Len(chain) + 1 /\ UpTo(saved, height' - 1, chain, schema)
  BY NextIsThere
<1>3. height' - 1 \in 0 .. Len(chain)
  BY <1>2 DEF UpTo
<1>4. schema = "none" => height' = 1
  BY NextIsThere DEF SavedOK
<1> QED
  BY <1>1, <1>2, <1>3, <1>4 DEF SavedOK

\* Tables without rows record no block.
LEMMA EmptyTables ==
    ASSUME NEW t, NEW c, NEW s, t.blocks = {}, t.txs = {}
    PROVE  Has(t, 0, c, s)
<1>1. 1 .. 0 = {}
  OBVIOUS
<1>2. {RowOf(c, s, h) : h \in 1 .. 0} = {}
  BY <1>1
<1>3. UNION {TxsOf(c, h) : h \in 1 .. 0} = {}
  BY <1>1
<1>4. \A h \in 1 .. 0 : DifferentTxs(c[h])
  BY <1>1
<1> QED
  BY <1>2, <1>3, <1>4 DEF Has

LEMMA SetupOK ==
    ASSUME IInv, ModuleOK, Setup
    PROVE  IInv'
<1>1. /\ pc = "setup" /\ pc' = "idle" /\ UNCHANGED <<chain, saved, work, height>>
      /\ schema' = IF schema = "none" THEN module ELSE schema
      /\ ChainOK /\ SavedOK /\ work = saved
  BY DEF Setup, IInv, WorkOK
<1>2. WorkOK'
  BY <1>1 DEF WorkOK
<1>3. CASE schema # "none"
  BY <1>1, <1>2, <1>3, SavedStays DEF IInv
<1>4. CASE schema = "none"
  <2>1. height = 1 /\ height - 1 = 0 /\ 1 .. 0 = {} /\ UpTo(saved, height - 1, chain, schema)
    BY <1>1, <1>4 DEF SavedOK
  <2>2. UpTo(saved, 0, chain, schema)
    BY <2>1
  <2>3. saved.blocks = {} /\ saved.txs = {}
    BY <1>4, <2>1, <2>2 DEF UpTo, Has
  <2>4. UpTo(saved, 0, chain, schema')
    BY <1>4, <2>2, <2>3, EmptyTables DEF UpTo
  <2>5. UpTo(saved', height' - 1, chain', schema') /\ 0 \in 0 .. Len(chain')
    BY <1>1, <2>1, <2>4 DEF UpTo
  <2>6. \E n \in 0 .. Len(chain') : UpTo(saved', n, chain', schema')
    BY <1>1, <2>4, <2>5
  <2>7. schema' # "none"
    BY <1>1, <1>4 DEF ModuleOK
  <2>8. height' \in 1 .. Len(chain') + 1 /\ IsTables(saved)' /\ ChainOK'
    BY <1>1 DEF SavedOK, ChainOK, IsTables
  <2> QED
    BY <1>2, <2>5, <2>6, <2>7, <2>8 DEF IInv, SavedOK
<1> QED
  BY <1>3, <1>4

\* What a commit leaves, whether its answer comes or not.
LEMMA Committing ==
    ASSUME IInv, pc = "commit", saved' = work, UNCHANGED <<chain, schema>>
    PROVE  /\ ChainOK' /\ IsTables(saved)' /\ schema # "none"
           /\ height \in 1 .. Len(chain) /\ Len(chain) \in Nat
           /\ UpTo(saved', height, chain', schema')
<1>1. /\ height \in 1 .. Len(chain) /\ IsTables(work) /\ Has(work, height, chain, schema)
      /\ schema # "minimal" => Averages(work, height, chain)
      /\ Len(chain) \in Nat /\ schema # "none" /\ ChainOK
  BY DEF IInv, SavedOK, WorkOK, ChainOK
<1>2. height \in 0 .. Len(chain)
  BY <1>1
<1> QED
  BY <1>1, <1>2 DEF UpTo, IsTables, ChainOK

LEMMA CommitBlockOK ==
    ASSUME IInv, CommitBlock
    PROVE  IInv'
<1>1. /\ pc = "commit" /\ pc' = "idle" /\ saved' = work /\ work' = work
      /\ height' = height + 1 /\ UNCHANGED <<chain, schema>>
  BY DEF CommitBlock
<1>2. /\ ChainOK' /\ IsTables(saved)' /\ schema # "none"
      /\ height \in 1 .. Len(chain) /\ Len(chain) \in Nat
      /\ UpTo(saved', height, chain', schema')
  BY <1>1, Committing
<1>3. height' \in 1 .. Len(chain) + 1 /\ height' - 1 = height /\ height \in 0 .. Len(chain)
  BY <1>1, <1>2
<1>4. SavedOK'
  BY <1>1, <1>2, <1>3 DEF SavedOK
<1> QED
  BY <1>1, <1>2, <1>4 DEF IInv, WorkOK

LEMMA CommitLostOK ==
    ASSUME IInv, CommitLost
    PROVE  IInv'
<1>1. /\ pc = "commit" /\ pc' = "rollback" /\ saved' \in {saved, work}
      /\ UNCHANGED <<chain, schema, height>>
  BY DEF CommitLost
<1>2. ChainOK /\ SavedOK /\ schema # "none"
  BY <1>1 DEF IInv, SavedOK
<1>3. WorkOK'
  BY <1>1 DEF WorkOK
<1>4. CASE saved' = saved
  BY <1>1, <1>2, <1>3, <1>4, SavedStays DEF IInv
<1>5. CASE saved' = work
  <2>1. /\ ChainOK' /\ IsTables(saved)'
        /\ height \in 1 .. Len(chain) /\ Len(chain) \in Nat
        /\ UpTo(saved', height, chain', schema')
    BY <1>1, <1>5, Committing
  <2>2. height \in 0 .. Len(chain) /\ height' \in 1 .. Len(chain) + 1
    BY <1>1, <2>1
  <2>3. SavedOK'
    BY <1>1, <1>2, <2>1, <2>2 DEF SavedOK
  <2> QED
    BY <1>3, <2>1, <2>3 DEF IInv
<1> QED
  BY <1>1, <1>4, <1>5

LEMMA HandlerFailsOK ==
    ASSUME IInv, HandlerFails
    PROVE  IInv'
<1>1. /\ pc \in {"periodic", "commit"} /\ pc' = "rollback"
      /\ UNCHANGED <<chain, saved, work, schema, height>>
  BY DEF HandlerFails
<1>2. schema # "none"
  BY <1>1 DEF IInv, SavedOK
<1> QED
  BY <1>1, <1>2, SavedStays DEF IInv, WorkOK

LEMMA RollBackOK ==
    ASSUME IInv, RollBack
    PROVE  IInv'
<1>1. /\ pc = "rollback" /\ pc' = "idle" /\ work' = saved /\ height' = NextHeight
      /\ UNCHANGED <<chain, saved, schema>>
  BY DEF RollBack
<1>2. schema # "none"
  BY <1>1 DEF IInv, SavedOK
<1> QED
  BY <1>1, <1>2, AsksNext DEF IInv, WorkOK

LEMMA CrashOK ==
    ASSUME IInv, Crash
    PROVE  IInv'
<1>1. /\ pc' = "setup" /\ work' = saved /\ height' = NextHeight
      /\ UNCHANGED <<chain, saved, schema>>
  BY DEF Crash
<1>2. ChainOK' /\ SavedOK'
  BY <1>1, AsksNext DEF IInv, SavedOK
<1> QED
  BY <1>1, <1>2 DEF IInv, WorkOK

LEMMA InitOK ==
    ASSUME Init
    PROVE  IInv
<1>1. /\ chain = <<>> /\ work = saved /\ pc = "setup" /\ height = 1
      /\ saved = [blocks |-> {}, txs |-> {}, averages |-> [w \in DOMAIN Window |-> {}]]
  BY DEF Init
<1>2. chain \in Seq(Block) /\ Len(chain) = 0 /\ 1 .. 0 = {} /\ height - 1 = 0
  BY <1>1
<1>3. ChainOK
  BY <1>2 DEF ChainOK
<1>4. Has(saved, 0, chain, schema)
  BY <1>1, <1>2 DEF Has
<1>5. Averages(saved, 0, chain)
  <2>1. \A w : Periodic(chain, w, 0) = {}
    BY <1>2 DEF Periodic
  <2> QED
    BY <1>1, <2>1 DEF Averages
<1>6. SavedOK
  <2>1. UpTo(saved, 0, chain, schema) /\ 0 \in 0 .. Len(chain)
    BY <1>2, <1>4, <1>5 DEF UpTo
  <2>2. UpTo(saved, height - 1, chain, schema)
    BY <1>2, <2>1
  <2> QED
    BY <1>1, <1>2, <2>1, <2>2 DEF SavedOK, IsTables
<1>7. WorkOK
  BY <1>1 DEF WorkOK
<1> QED
  BY <1>3, <1>6, <1>7 DEF IInv

LEMMA StepOK ==
    ASSUME IInv, ModuleOK, [Next]_vars
    PROVE  IInv'
<1>1. CASE UNCHANGED vars
  <2>1. UNCHANGED <<schema, chain, saved, work, pc, height>>
    BY <1>1 DEF vars
  <2>2. ChainOK' /\ SavedOK'
    BY <2>1, SavedStays DEF IInv, SavedOK
  <2> QED
    BY <2>1, <2>2 DEF IInv, WorkOK, IsTables
<1> QED
  BY <1>1, SetupOK, SaveBlockOK, SaveAveragesOK, CommitBlockOK, CommitLostOK, HandlerFailsOK, RollBackOK,
     CrashOK DEF Next

LEMMA ModuleKept == Spec => []ModuleOK
<1>1. Init => ModuleOK
  BY DEF Init, ModuleOK
<1>2. ASSUME ModuleOK, [Next]_vars
      PROVE  ModuleOK'
  BY <1>2 DEF ModuleOK, Next, vars, Setup, SaveBlock, SaveFullBlock, SaveMinimalBlock, BlockOnChain,
              SaveAverages, CommitBlock, CommitLost, HandlerFails, RollBack, Crash
<1> QED
  BY <1>1, <1>2, PTL DEF Spec

LEMMA Invariance == Spec => []IInv
BY InitOK, StepOK, ModuleKept, PTL DEF Spec

-----------------------------------------------------------------------------
\* A set of n things numbered one to one has n of them.
LEMMA CountOf ==
    ASSUME NEW n \in Nat, NEW T, NEW f \in [1 .. n -> T],
           \A x \in T : \E h \in 1 .. n : x = f[h],
           \A h, k \in 1 .. n : f[h] = f[k] => h = k
    PROVE  Cardinality(T) = n
<1>1. f \in Bijection(1 .. n, T)
  BY DEF Bijection, Injection, Surjection, IsInjective
<1>2. IsFiniteSet(1 .. n) /\ Cardinality(1 .. n) = n
  BY FS_Interval
<1> QED
  BY <1>1, <1>2, FS_Bijection DEF ExistsBijection

\* The tables have the blocks of the chain from the first one on, each once and with
\* its transactions and their outcome, whatever was rolled back, restarted or
\* configured anew.
THEOREM TablesMatchChain == Spec => []RecordsMatchChain
<1>1. ASSUME IInv
      PROVE  RecordsMatchChain
  <2>1. PICK n \in Nat : n <= Len(chain) /\ UpTo(saved, n, chain, schema)
    BY <1>1 DEF IInv, ChainOK, SavedOK
  <2>2. /\ chain \in Seq(Block) /\ n <= Len(chain) /\ Len(chain) \in Nat
        /\ Has(saved, n, chain, schema)
        /\ saved.blocks = {RowOf(chain, schema, h) : h \in 1 .. n}
        /\ schema = "full" => /\ saved.txs = UNION {TxsOf(chain, h) : h \in 1 .. n}
                              /\ \A h \in 1 .. n : DifferentTxs(chain[h])
    BY <1>1, <2>1 DEF IInv, ChainOK, UpTo, Has
  <2>3. NextHeight - 1 = n /\ Committed = 1 .. n
    BY <2>2, NextHeightIs
  <2>4. Cardinality(saved.blocks) = n
    <3> DEFINE f == [h \in 1 .. n |-> RowOf(chain, schema, h)]
    <3>1. \A h \in 1 .. n : f[h].height = h
      BY DEF RowOf
    <3>2. f \in [1 .. n -> saved.blocks] /\ \A row \in saved.blocks : \E h \in 1 .. n : row = f[h]
      BY <2>2
    <3>3. \A h, k \in 1 .. n : f[h] = f[k] => h = k
      BY <3>1
    <3> HIDE DEF f
    <3> QED
      BY <3>2, <3>3, CountOf
  <2>5. ASSUME schema = "full", NEW h \in 1 .. n
        PROVE  /\ {tx \in saved.txs : tx.height = h} = TxsOf(chain, h)
               /\ Cardinality(TxsOf(chain, h)) = Len(chain[h].txs)
    <3>1. \A k : \A tx \in TxsOf(chain, k) : tx.height = k
      BY DEF TxsOf
    <3>2. {tx \in saved.txs : tx.height = h} = TxsOf(chain, h)
      BY <2>2, <2>5, <3>1
    <3>3. DOMAIN chain[h].txs = 1 .. Len(chain[h].txs) /\ Len(chain[h].txs) \in Nat
      BY <2>2, BlockFacts
    <3>4. DifferentTxs(chain[h])
      BY <2>2, <2>5
    <3> DEFINE f == [i \in 1 .. Len(chain[h].txs) |->
                        [hash |-> chain[h].txs[i].raw, height |-> h, success |-> chain[h].txs[i].ok]]
    <3>5. \A i \in 1 .. Len(chain[h].txs) : f[i].hash = chain[h].txs[i].raw
      OBVIOUS
    <3>6. /\ f \in [1 .. Len(chain[h].txs) -> TxsOf(chain, h)]
          /\ \A tx \in TxsOf(chain, h) : \E i \in 1 .. Len(chain[h].txs) : tx = f[i]
      BY <3>3 DEF TxsOf
    <3> HIDE DEF f
    <3>7. \A i, j \in 1 .. Len(chain[h].txs) : f[i] = f[j] => i = j
      BY <3>3, <3>4, <3>5 DEF DifferentTxs
    <3>8. Cardinality(TxsOf(chain, h)) = Len(chain[h].txs)
      BY <3>3, <3>6, <3>7, CountOf
    <3> QED
      BY <3>2, <3>8
  <2>6. ASSUME schema = "full", NEW row \in saved.blocks
        PROVE  row.num_txs = Cardinality({tx \in saved.txs : tx.height = row.height})
    <3>1. PICK h \in 1 .. n : row = RowOf(chain, schema, h)
      BY <2>2
    <3>2. row.height = h /\ row.num_txs = Len(chain[h].txs)
      BY <2>6, <3>1 DEF RowOf
    <3> QED
      BY <2>5, <2>6, <3>2
  <2> QED
    BY <2>2, <2>3, <2>4, <2>6 DEF RecordsMatchChain, TxsOf
<1> QED
  BY <1>1, Invariance, PTL

\* The averages are those over the last minute, hour and day, up to the last block that
\* was due, as long as the clock of the indexer has not been set back.
THEOREM AveragesAreRight == Spec => []AveragesMatchChain
<1>1. ASSUME IInv
      PROVE  AveragesMatchChain
  <2>1. PICK n \in Nat : UpTo(saved, n, chain, schema)
    BY <1>1 DEF IInv, ChainOK, SavedOK
  <2>2. /\ Has(saved, n, chain, schema)
        /\ schema = "full" => Averages(saved, n, chain)
    BY <2>1 DEF UpTo
  <2>3. NextHeight - 1 = n /\ Committed = 1 .. n
    BY <2>2, NextHeightIs
  <2>4. SUFFICES ASSUME schema = "full", Time(n) < ClockSetBack, NEW w \in DOMAIN Window
                 PROVE  LET P == {h \in 1 .. n : h % Interval = 0 /\ Ago(w, h) > 0}
                            h == Max(P)
                        IN  saved.averages[w] =
                              IF P = {} THEN {}
                              ELSE {[blocks |-> h - Ago(w, h),
                                     time |-> chain[h].time - chain[Ago(w, h)].time,
                                     height |-> h]}
    BY <2>3 DEF AveragesMatchChain
  <2>5. \A h : Ago(w, h) = AgoIn(chain, w, h)
    BY DEF Ago, AgoIn, OldEnough
  <2>6. n > 0 => chain[n].time < ClockSetBack
    BY <2>4 DEF Time
  <2>7. saved.averages[w] = IF Periodic(chain, w, n) = {} THEN {}
                            ELSE {AverageIn(chain, w, Max(Periodic(chain, w, n)))}
    BY <2>2, <2>4, <2>6 DEF Averages
  <2>8. Periodic(chain, w, n) = {h \in 1 .. n : h % Interval = 0 /\ Ago(w, h) > 0}
    BY <2>5 DEF Periodic
  <2> QED
    BY <2>5, <2>7, <2>8 DEF AverageIn
<1> QED
  BY <1>1, Invariance, PTL

\* A block that is to be indexed has left nothing in the tables.
LEMMA NothingLeft ==
    ASSUME IInv, pc = "idle"
    PROVE  /\ \A row \in work.blocks : row.height # height
           /\ schema # "minimal" => \A row \in work.txs : row.height # height
<1>1. /\ work = saved /\ Has(saved, height - 1, chain, schema) /\ height \in Nat
  BY DEF IInv, ChainOK, SavedOK, UpTo, WorkOK
<1>2. \A h \in 1 .. height - 1 : h # height
  BY <1>1
<1>3. \A h : RowOf(chain, schema, h).height = h /\ \A row \in TxsOf(chain, h) : row.height = h
  BY DEF RowOf, TxsOf
<1>4. \A row \in saved.blocks : row.height # height
  BY <1>1, <1>2, <1>3 DEF Has
<1>5. schema # "minimal" => \A row \in saved.txs : row.height # height
  BY <1>1, <1>2, <1>3 DEF Has
<1> QED
  BY <1>1, <1>4, <1>5

\* The listener of `block' refuses a block for what it has in it or for tables of the
\* other module, never for the rows that attempts, lost commits and restarts have left.
THEOREM RefusalsAreFinal == Spec => OnlyDoomedBlocksRefused
<1>1. ASSUME IInv, [Next]_vars
      PROVE  [SaveBlock /\ pc' = "rollback" => Doomed(chain'[height])]_vars
  <2>1. SUFFICES ASSUME SaveBlock, pc' = "rollback"
                 PROVE  Doomed(chain'[height])
    OBVIOUS
  <2>2. /\ PrimaryKey
        /\ schema # "minimal" => \A row \in work.txs : row.height # height
    BY <1>1, <2>1, NothingLeft DEF SaveBlock, PrimaryKey
  <2>3. CASE SaveFullBlock
    <3>1. module = "full" /\ ~Storable(chain'[height])
      BY <2>1, <2>3 DEF SaveFullBlock
    <3>2. PICK b : b = chain'[height]
      OBVIOUS
    <3>3. schema = "full" /\ ~UniqueTx(b) =>
             \E i, j \in DOMAIN b.txs : i # j /\ b.txs[i].raw = b.txs[j].raw
      BY <2>2 DEF UniqueTx
    <3> QED
      BY <2>2, <3>1, <3>2, <3>3 DEF Storable, Doomed
  <2>4. CASE SaveMinimalBlock
    BY <2>1, <2>2, <2>4 DEF SaveMinimalBlock, Doomed
  <2> QED
    BY <2>1, <2>3, <2>4 DEF SaveBlock
<1> QED
  BY <1>1, Invariance, PTL DEF Spec, OnlyDoomedBlocksRefused
=============================================================================

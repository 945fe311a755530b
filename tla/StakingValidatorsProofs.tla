---------------------- MODULE StakingValidatorsProofs ----------------------
(***************************************************************************)
(* Proofs about the validators of the staking module, for every chain: any *)
(* validators, reports and blocks that create them, and any number of      *)
(* failures and restarts.                                                  *)
(*                                                                         *)
(* What a table says of a validator last is found by its order of heights. *)
(* It means something because a table has one row of a validator and a     *)
(* height (RowsOK), which holds because a validator is checked once in a   *)
(* block and the heights of a transaction are above those committed.       *)
(***************************************************************************)
EXTENDS StakingValidators, Maxima

RowsOK(rows, blocks) ==
    /\ \A row \in rows : row.height \in blocks
    /\ \A row, other \in rows :
          row.validator = other.validator /\ row.height = other.height => row = other

IsLast(rows, v, row) ==
    /\ row \in rows /\ row.validator = v
    /\ \A other \in rows : other.validator = v => other.height <= row.height

\* The last rows of v have the status and the tokens of r.
TellReport(t, v, r) ==
    /\ \E row : IsLast(t.status, v, row) /\ row.value = r.status
    /\ \E row : IsLast(t.power, v, row) /\ row.value.tokens = r.power.tokens

\* Rows that say what the node said of the validator and the height.
Reported(rows) ==
    \A row \in rows :
        row.height \in DOMAIN chain /\ row.value = chain[row.height][row.validator].power

IsTables(t) ==
    t = [blocks |-> t.blocks, infos |-> t.infos, status |-> t.status, power |-> t.power]

TablesOK(t) ==
    /\ IsTables(t) /\ RowsOK(t.status, t.blocks) /\ RowsOK(t.power, t.blocks)
    /\ \A row \in t.status : row.validator \in Validator

\* No row of the block in work is about v.
Unchecked(rows, v) == \A row \in rows : row.validator = v => row.height # height

\* A row of v with the value x is added, or nothing is.
MaySave(rows, new, v, x) == new = rows \cup {Row(v, x)} \/ new = rows

\* What that leaves as it was.
SavedFor(rows, new, v) ==
    /\ \A w, row : w # v /\ IsLast(rows, w, row) => IsLast(new, w, row)
    /\ \A w : w # v /\ Unchecked(rows, w) => Unchecked(new, w)
    /\ \A row \in new : row \in rows \/ row.validator = v

\* Heights are made one after the other, and validators stay.
ChainOK ==
    /\ DOMAIN chain \subseteq Nat \ {0} /\ 1 .. height - 1 \subseteq DOMAIN chain
    /\ \A k \in DOMAIN chain : 1 .. k \subseteq DOMAIN chain
    /\ \A k \in DOMAIN chain : DOMAIN chain[k] \subseteq Validator
    /\ \A h, k \in DOMAIN chain \cup {0} : h <= k => Existing(h) \subseteq Existing(k)

\* Who was created in a block before the one in work has a row.
SavedOK ==
    /\ height \in 1 .. LastBlock + 1
    /\ saved.blocks \subseteq 1 .. height - 1
    /\ TablesOK(saved) /\ Reported(saved.power)
    /\ Existing(height - 1) \subseteq saved.infos

InBlock == pc \in {"check", "messages"}

WorkOK ==
    /\ pc \in {"idle", "check", "messages", "rollback"}
    /\ pc = "idle" => work = saved /\ ~aborted
    /\ InBlock =>
          /\ height \in DOMAIN chain /\ height <= LastBlock
          /\ TablesOK(work) /\ Reported(work.power)
          /\ work.blocks = saved.blocks \cup {height} /\ saved.infos \subseteq work.infos
    /\ pc = "check" =>
          /\ work.infos = saved.infos
          /\ \A v \in todo : Unchecked(work.status, v) /\ Unchecked(work.power, v)
    /\ InBlock /\ aborted => work.infos = saved.infos
    /\ pc = "messages" => Existing(height) \subseteq work.infos \cup todo

\* The caches of a process that has rolled nothing back, and how far it is with the
\* validators of the block in work.
CachesOK ==
    ~spoiled /\ ~aborted /\ pc # "rollback" =>
        /\ addressCache = work.infos
        /\ \A v \in Validator : IsCached(v) => TellReport(work, v, validatorCache[Consensus(v)])
        /\ InBlock => \A v \in Existing(height - 1) :
              \/ pc = "check" /\ v \in todo
              \/ IsCached(v) /\ validatorCache[Consensus(v)] = chain[height][v]

IInv == ChainOK /\ SavedOK /\ WorkOK /\ CachesOK

-----------------------------------------------------------------------------
(***************************************************************************)
(* Tables.                                                                 *)
(***************************************************************************)
\* Where the last row of v is unique, Latest finds it.
LEMMA LatestTells ==
    ASSUME NEW rows, NEW blocks, RowsOK(rows, blocks), NEW n \in Nat, blocks \subseteq 1 .. n,
           NEW v, NEW row, IsLast(rows, v, row)
    PROVE  row \in rows /\ row.validator = v /\ row.height <= n /\ Latest(rows, v, n) = row
<1>1. \A other \in rows : other.height \in 1 .. n
  BY DEF RowsOK
<1>2. /\ row \in rows /\ row.validator = v
      /\ \A other \in rows : other.validator = v => other.height <= row.height
  BY DEF IsLast
<1>3. \E l \in rows :
        /\ l.validator = v /\ l.height <= n
        /\ \A other \in rows : other.validator = v /\ other.height <= n => other.height <= l.height
  BY <1>1, <1>2
<1>4. PICK l : l = Latest(rows, v, n)
  OBVIOUS
<1>5. /\ l \in rows /\ l.validator = v
      /\ \A other \in rows : other.validator = v /\ other.height <= n => other.height <= l.height
  BY <1>3, <1>4 DEF Latest
<1>6. l.height = row.height
  BY <1>1, <1>2, <1>5
<1>7. l = row
  BY <1>2, <1>5, <1>6 DEF RowsOK
<1> QED
  BY <1>1, <1>2, <1>4, <1>7

\* Rows of blocks before the one in work leave all validators unchecked.
LEMMA OlderRows ==
    ASSUME NEW rows, NEW blocks, RowsOK(rows, blocks), NEW n \in Nat, blocks \subseteq 1 .. n - 1
    PROVE  \A v : \A row \in rows : row.validator = v => row.height # n
BY DEF RowsOK

\* getNextHeight() answers a height above all in the table.
LEMMA NextHeightIs ==
    ASSUME NEW n \in Nat, saved.blocks \subseteq 1 .. n - 1, n > 0
    PROVE  NextHeight \in 1 .. n /\ saved.blocks \subseteq 1 .. NextHeight - 1
<1>1. CASE saved.blocks = {}
  BY <1>1 DEF NextHeight
<1>2. CASE saved.blocks # {}
  <2>1. PICK m : m = Max(saved.blocks)
    OBVIOUS
  <2>2. saved.blocks \in SUBSET Nat /\ \A x \in saved.blocks : x <= n - 1
    OBVIOUS
  <2>3. n - 1 \in Nat
    OBVIOUS
  <2>4. m \in saved.blocks /\ \A x \in saved.blocks : x <= m
    BY <1>2, <2>1, <2>2, <2>3, MaxOfBounded
  <2>5. NextHeight = m + 1
    BY <1>2, <2>1 DEF NextHeight
  <2> QED
    BY <2>4, <2>5
<1> QED
  BY <1>1, <1>2

LEMMA ConstantFacts ==
    /\ \A v \in Validator : Consensus(v) \notin Validator
    /\ Genesis \subseteq Validator /\ LastBlock \in Nat \ {0}
BY StakingAssumption DEF StakingAssumption

\* Validators of a block are validators.
LEMMA ExistingValidators ==
    ASSUME ChainOK, NEW h \in DOMAIN chain \cup {0}
    PROVE  Existing(h) \subseteq Validator
BY ConstantFacts DEF ChainOK, Existing

\* Consensus addresses differ where validators do.
LEMMA ConsensusInjective ==
    ASSUME NEW v, NEW w, Consensus(v) = Consensus(w)
    PROVE  v = w
BY DEF Consensus

-----------------------------------------------------------------------------
(***************************************************************************)
(* The steps.                                                              *)
(***************************************************************************)
\* A block may be made; those before it stay.
LEMMA BlockOnChainOK ==
    ASSUME ChainOK, height \in Nat \ {0}, BlockOnChain, height' = height
    PROVE  /\ ChainOK' /\ height \in DOMAIN chain'
           /\ \A h \in 0 .. height - 1 : Existing(h)' = Existing(h)
           /\ \A h \in DOMAIN chain : h \in DOMAIN chain' /\ chain'[h] = chain[h]
<1>1. CASE height \in DOMAIN chain
  <2>1. chain' = chain
    BY <1>1 DEF BlockOnChain
  <2> QED
    BY <1>1, <2>1 DEF ChainOK, Existing
<1>2. CASE height \notin DOMAIN chain
  <2>1. DOMAIN chain = 1 .. height - 1
    <3>1. \A k \in DOMAIN chain : k \in Nat \ {0} /\ 1 .. k \subseteq DOMAIN chain
      BY DEF ChainOK
    <3>2. \A k \in DOMAIN chain : k < height
      BY <1>2, <3>1
    <3>3. DOMAIN chain \subseteq 1 .. height - 1
      BY <3>1, <3>2
    <3> QED
      BY <3>3 DEF ChainOK
  <2>2. PICK new \in SUBSET Validator :
          \E reports \in [Existing(height - 1) \cup new -> Report] :
             chain' = [h \in 1 .. height |-> IF h = height THEN reports ELSE chain[h]]
    BY <1>2 DEF BlockOnChain
  <2>3. PICK reports \in [Existing(height - 1) \cup new -> Report] :
          chain' = [h \in 1 .. height |-> IF h = height THEN reports ELSE chain[h]]
    BY <2>2
  <2>4. height - 1 \in DOMAIN chain \cup {0} /\ height # 0 /\ height \in 1 .. height
    BY <2>1
  <2>5. DOMAIN reports = Existing(height - 1) \cup new /\ DOMAIN reports \subseteq Validator
    <3>1. Existing(height - 1) \subseteq Validator
      BY <2>4, ExistingValidators
    <3> QED
      BY <2>2, <3>1
  <2> DEFINE made == [h \in 1 .. height |-> IF h = height THEN reports ELSE chain[h]]
  <2>6. /\ DOMAIN made = 1 .. height /\ made[height] = reports
        /\ \A k \in 1 .. height - 1 : made[k] = chain[k]
    <3>1. \A k \in 1 .. height - 1 : k \in 1 .. height /\ k # height
      OBVIOUS
    <3> QED
      BY <2>4, <3>1
  <2>7. chain' = made
    BY <2>3
  <2> HIDE DEF made
  <2>8. \A h \in 0 .. height - 1 : Existing(h)' = Existing(h)
    <3>1. \A h \in 0 .. height - 1 : h = 0 \/ h \in 1 .. height - 1
      OBVIOUS
    <3> QED
      BY <2>6, <2>7, <3>1 DEF Existing
  <2>9. Existing(height)' = DOMAIN reports
    BY <2>4, <2>6, <2>7 DEF Existing
  <2>10. \A h, k \in 0 .. height : h <= k => Existing(h)' \subseteq Existing(k)'
    <3>1. TAKE h, k \in 0 .. height
    <3>2. HAVE h <= k
    <3>3. CASE k < height
      <4>1. h \in DOMAIN chain \cup {0} /\ k \in DOMAIN chain \cup {0}
        BY <2>1, <3>2, <3>3
      <4>2. Existing(h) \subseteq Existing(k)
        BY <3>2, <4>1 DEF ChainOK
      <4> QED
        BY <2>8, <3>2, <3>3, <4>2
    <3>4. CASE k = height /\ h < height
      <4>1. h \in DOMAIN chain \cup {0} /\ h <= height - 1
        BY <2>1, <3>4
      <4>2. Existing(h) \subseteq Existing(height - 1)
        BY <2>4, <4>1 DEF ChainOK
      <4>3. Existing(h)' = Existing(h)
        BY <2>8, <3>4
      <4> QED
        BY <2>5, <2>9, <3>4, <4>2, <4>3
    <3> QED
      BY <3>2, <3>3, <3>4
  <2>11. \A k \in DOMAIN made : DOMAIN made[k] \subseteq Validator
    <3>1. \A k \in 1 .. height - 1 : DOMAIN chain[k] \subseteq Validator
      BY <2>1 DEF ChainOK
    <3> QED
      BY <2>5, <2>6, <3>1
  <2>12. ChainOK'
    <3>1. DOMAIN made \cup {0} = 0 .. height
      BY <2>6
    <3> QED
      BY <2>6, <2>7, <2>10, <2>11, <3>1 DEF ChainOK
  <2>13. \A h \in DOMAIN chain : h \in DOMAIN made /\ made[h] = chain[h]
    BY <2>1, <2>6
  <2> QED
    BY <2>6, <2>7, <2>8, <2>12, <2>13
<1> QED
  BY <1>1, <1>2

LEMMA StartBlockOK ==
    ASSUME IInv, StartBlock
    PROVE  IInv'
<1>1. /\ pc = "idle" /\ height <= LastBlock /\ BlockOnChain
      /\ work' = [saved EXCEPT !.blocks = @ \cup {height}]
      /\ pc' = "check" /\ todo' = DOMAIN chain'[height]
      /\ saved' = saved /\ aborted' = aborted /\ height' = height /\ spoiled' = spoiled
      /\ addressCache' = addressCache /\ validatorCache' = validatorCache
  BY DEF StartBlock, cacheVars
<1>2. /\ height \in Nat \ {0} /\ ChainOK /\ SavedOK /\ work = saved /\ ~aborted
      /\ height - 1 \in 0 .. height - 1
  BY <1>1, ConstantFacts DEF IInv, SavedOK, WorkOK
<1>3. /\ ChainOK' /\ height \in DOMAIN chain'
      /\ \A h \in 0 .. height - 1 : Existing(h)' = Existing(h)
      /\ Reported(saved.power)'
  <2>1. \A h \in DOMAIN chain : h \in DOMAIN chain' /\ chain'[h] = chain[h]
    BY <1>1, <1>2, BlockOnChainOK
  <2>2. Reported(saved.power)'
    BY <1>1, <1>2, <2>1 DEF SavedOK, Reported
  <2> QED
    BY <1>1, <1>2, <2>2, BlockOnChainOK
<1>4. Existing(height - 1)' = Existing(height - 1)
  <2>1. PICK n : n = height - 1 /\ n \in 0 .. height - 1
    BY <1>2
  <2>2. Existing(n)' = Existing(n)
    BY <1>3, <2>1
  <2>3. n = height' - 1
    BY <1>1, <2>1
  <2> QED
    BY <2>1, <2>2, <2>3 DEF Existing
<1>5. SavedOK'
  BY <1>1, <1>2, <1>3, <1>4 DEF SavedOK, TablesOK, IsTables
<1>6. PICK w : w = work'
  OBVIOUS
<1>7. /\ w.blocks = saved.blocks \cup {height} /\ w.infos = saved.infos
      /\ w.status = saved.status /\ w.power = saved.power /\ IsTables(w)
  BY <1>1, <1>2, <1>6 DEF SavedOK, TablesOK, IsTables
<1>8. TablesOK(w)
  BY <1>2, <1>7 DEF SavedOK, TablesOK, RowsOK
<1>9. \A v : Unchecked(w.status, v) /\ Unchecked(w.power, v)
  BY <1>2, <1>7, OlderRows DEF SavedOK, TablesOK, Unchecked
<1>10. WorkOK'
  <2>1. \A v \in todo' : Unchecked(w.status, v)' /\ Unchecked(w.power, v)'
    BY <1>1, <1>9 DEF Unchecked
  <2>2. Reported(work.power)'
    BY <1>1, <1>3, <1>6, <1>7 DEF Reported
  <2> QED
    BY <1>1, <1>2, <1>3, <1>6, <1>7, <1>8, <2>1, <2>2
       DEF WorkOK, InBlock, TablesOK, IsTables, Unchecked
<1>11. CachesOK'
  <2>1. SUFFICES ASSUME ~spoiled
                 PROVE  CachesOK'
    BY <1>1 DEF CachesOK
  <2>2. /\ addressCache = saved.infos
        /\ \A v \in Validator : IsCached(v) => TellReport(saved, v, validatorCache[Consensus(v)])
    BY <1>1, <1>2, <2>1 DEF IInv, CachesOK
  <2>3. \A v \in Validator : IsCached(v) => TellReport(w, v, validatorCache[Consensus(v)])
    BY <1>7, <2>2 DEF TellReport
  <2>4. Existing(height - 1) \subseteq todo'
    <3>1. height \in DOMAIN chain' \cup {0} /\ height - 1 \in DOMAIN chain' \cup {0}
      BY <1>1, <1>2, <1>3 DEF ChainOK
    <3>2. Existing(height - 1)' \subseteq Existing(height)'
      BY <1>1, <1>2, <1>3, <3>1 DEF ChainOK
    <3>3. Existing(height)' = todo'
      BY <1>1, <1>2 DEF Existing
    <3> QED
      BY <1>4, <3>2, <3>3
  <2> QED
    BY <1>1, <1>4, <1>6, <1>7, <2>2, <2>3, <2>4 DEF CachesOK, IsCached, TellReport, IsLast
<1> QED
  BY <1>3, <1>5, <1>10, <1>11 DEF IInv

\* A transaction that was aborted is no block, and no validator of it is missing.
LEMMA CommitBlockOK ==
    ASSUME IInv, CommitBlock
    PROVE  IInv'
<1>1. /\ pc = "messages" /\ todo = {} /\ InBlock
      /\ saved' = IF aborted THEN saved ELSE work
      /\ work' = saved' /\ spoiled' = (spoiled \/ aborted) /\ ~aborted'
      /\ height' = height + 1 /\ pc' = "idle" /\ chain' = chain /\ todo' = todo
      /\ addressCache' = addressCache /\ validatorCache' = validatorCache
  BY DEF CommitBlock, cacheVars, InBlock
<1>2. /\ height \in Nat \ {0} /\ height <= LastBlock /\ LastBlock \in Nat
      /\ height' - 1 = height /\ height' \in 1 .. LastBlock + 1
      /\ 1 .. height - 1 \subseteq 1 .. height /\ height \in 1 .. height
  BY <1>1, ConstantFacts DEF IInv, SavedOK, WorkOK
<1>3. /\ height \in DOMAIN chain /\ TablesOK(saved) /\ TablesOK(work)
      /\ saved.blocks \subseteq 1 .. height - 1 /\ work.blocks = saved.blocks \cup {height}
      /\ Existing(height) \subseteq work.infos
      /\ aborted => work.infos = saved.infos
      /\ Reported(saved.power) /\ Reported(work.power)
  BY <1>1 DEF IInv, SavedOK, WorkOK
<1>4. ChainOK'
  <2>1. 1 .. height \subseteq DOMAIN chain
    BY <1>3 DEF IInv, ChainOK
  <2> QED
    BY <1>1, <1>2, <2>1 DEF IInv, ChainOK, Existing
<1>5. SavedOK'
  <2>1. TablesOK(saved)' /\ saved'.blocks \subseteq 1 .. height
    BY <1>1, <1>2, <1>3 DEF TablesOK, IsTables
  <2>2. Existing(height) \subseteq saved'.infos
    BY <1>1, <1>3
  <2>3. Existing(height - 1)' = Existing(height)
    BY <1>1, <1>2 DEF Existing
  <2>4. Reported(saved.power)'
    BY <1>1, <1>3 DEF Reported
  <2> QED
    BY <1>2, <2>1, <2>2, <2>3, <2>4 DEF SavedOK
<1>6. WorkOK'
  BY <1>1 DEF WorkOK, InBlock
<1>7. CachesOK'
  <2>1. SUFFICES ASSUME ~spoiled /\ ~aborted
                 PROVE  CachesOK'
    BY <1>1 DEF CachesOK
  <2>2. /\ work' = work /\ addressCache = work.infos
        /\ \A v \in Validator : IsCached(v) => TellReport(work, v, validatorCache[Consensus(v)])
    BY <1>1, <2>1 DEF IInv, CachesOK
  <2> QED
    BY <1>1, <2>2 DEF CachesOK, IsCached, TellReport, IsLast, InBlock
<1> QED
  BY <1>4, <1>5, <1>6, <1>7 DEF IInv

\* The loop starts over behind the last block in the table.
LEMMA StartsOver ==
    ASSUME ChainOK, SavedOK, UNCHANGED <<chain, saved>>, height' = NextHeight
    PROVE  ChainOK' /\ SavedOK'
<1>1. height \in Nat /\ height > 0 /\ height \in 1 .. LastBlock + 1 /\ LastBlock \in Nat
  BY ConstantFacts DEF SavedOK
<1>2. PICK n : n = height'
  OBVIOUS
<1>3. n \in 1 .. height /\ saved.blocks \subseteq 1 .. n - 1
  BY <1>1, <1>2, NextHeightIs DEF SavedOK
<1>4. /\ 1 .. n - 1 \subseteq DOMAIN chain /\ n \in 1 .. LastBlock + 1
      /\ n - 1 \in DOMAIN chain \cup {0} /\ height - 1 \in DOMAIN chain \cup {0}
  <2>1. /\ 1 .. n - 1 \subseteq 1 .. height - 1 /\ n \in 1 .. LastBlock + 1
        /\ n - 1 \in 1 .. height - 1 \cup {0} /\ height - 1 \in 1 .. height - 1 \cup {0}
    BY <1>1, <1>3
  <2> QED
    BY <2>1 DEF ChainOK
<1>5. ChainOK'
  BY <1>2, <1>4 DEF ChainOK, Existing
<1>6. Existing(n - 1) \subseteq saved.infos
  <2>1. Existing(n - 1) \subseteq Existing(height - 1)
    <3>1. n - 1 <= height - 1
      BY <1>1, <1>3
    <3> QED
      BY <1>4, <3>1 DEF ChainOK
  <2> QED
    BY <2>1 DEF SavedOK
<1>7. SavedOK'
  BY <1>2, <1>3, <1>4, <1>6 DEF SavedOK, TablesOK, IsTables, Existing, Reported
<1> QED
  BY <1>5, <1>7

LEMMA RollBackOK ==
    ASSUME IInv, RollBack
    PROVE  IInv'
<1>1. /\ work' = saved /\ ~aborted' /\ spoiled' /\ height' = NextHeight /\ pc' = "idle"
      /\ UNCHANGED <<chain, saved>>
  BY DEF RollBack
<1> QED
  BY <1>1, StartsOver DEF IInv, WorkOK, CachesOK, InBlock

\* A new process has no data of a validator where it looks for them.
LEMMA CrashOK ==
    ASSUME IInv, Crash
    PROVE  IInv'
<1>1. /\ work' = saved /\ ~aborted' /\ height' = NextHeight /\ pc' = "idle"
      /\ addressCache' = saved.infos /\ DOMAIN validatorCache' = WithStatus
      /\ UNCHANGED <<chain, saved>>
  BY DEF Crash
<1>2. ChainOK' /\ SavedOK'
  BY <1>1, StartsOver DEF IInv
<1>3. WithStatus \subseteq Validator
  BY DEF IInv, SavedOK, TablesOK, WithStatus
<1>4. \A v \in Validator : ~IsCached(v)'
  BY <1>1, <1>3, ConstantFacts DEF IsCached, Consensus
<1> QED
  BY <1>1, <1>2, <1>4 DEF IInv, WorkOK, CachesOK, InBlock

-----------------------------------------------------------------------------
(***************************************************************************)
(* The steps of checkAndSaveValidators() and the messages.                 *)
(***************************************************************************)
\* A step within a block that leaves the committed tables alone.
LEMMA BlockGoesOn ==
    ASSUME ChainOK, SavedOK, UNCHANGED <<chain, saved, height>>
    PROVE  ChainOK' /\ SavedOK'
BY DEF ChainOK, SavedOK, TablesOK, IsTables, Existing, Reported

\* Who has a row of validator_infos is not skipped.
LEMMA SkipUnknownOK ==
    ASSUME IInv, NEW v \in Validator, SkipUnknown(v)
    PROVE  IInv'
<1>1. /\ pc = "check" /\ v \in todo /\ v \notin addressCache /\ todo' = todo \ {v} /\ pc' = pc
      /\ UNCHANGED <<chain, saved, height, work, aborted, addressCache, validatorCache, spoiled>>
  BY DEF SkipUnknown, Checks
<1>2. ChainOK' /\ SavedOK'
  BY <1>1, BlockGoesOn DEF IInv
<1>3. WorkOK'
  BY <1>1 DEF IInv, WorkOK, InBlock, TablesOK, IsTables, Unchecked, Existing, Reported
<1>4. CachesOK'
  <2>1. SUFFICES ASSUME ~spoiled, ~aborted
                 PROVE  CachesOK'
    BY <1>1 DEF CachesOK
  <2>2. /\ addressCache = work.infos
        /\ \A w \in Validator : IsCached(w) => TellReport(work, w, validatorCache[Consensus(w)])
        /\ \A w \in Existing(height - 1) :
              w \in todo \/ (IsCached(w) /\ validatorCache[Consensus(w)] = chain[height][w])
    BY <1>1, <2>1 DEF IInv, CachesOK, InBlock
  <2>3. v \notin Existing(height - 1)
    BY <1>1, <2>2 DEF IInv, SavedOK, WorkOK
  <2>4. \A w \in Existing(height - 1) :
          w \in todo' \/ (IsCached(w) /\ validatorCache[Consensus(w)] = chain[height][w])
    BY <1>1, <2>2, <2>3
  <2> QED
    BY <1>1, <2>2, <2>4 DEF CachesOK, IsCached, TellReport, IsLast, Existing
<1> QED
  BY <1>2, <1>3, <1>4 DEF IInv

\* One table, which has no row of v and the block in work: one may be added.
LEMMA RowsSaved ==
    ASSUME NEW rows, NEW blocks, RowsOK(rows, blocks), height \in Nat, height \in blocks,
           blocks \subseteq 1 .. height, NEW v, Unchecked(rows, v), NEW x,
           NEW new, MaySave(rows, new, v, x)
    PROVE  /\ RowsOK(new, blocks) /\ SavedFor(rows, new, v)
           /\ new # rows => IsLast(new, v, Row(v, x))
<1>1. CASE new = rows
  BY <1>1 DEF SavedFor
<1>2. CASE new = rows \cup {Row(v, x)}
  <2>1. PICK row : row = Row(v, x)
    OBVIOUS
  <2>2. row.validator = v /\ row.value = x /\ row.height = height /\ new = rows \cup {row}
    BY <1>2, <2>1 DEF Row
  <2>3. \A other \in rows : other.height \in 1 .. height
    BY DEF RowsOK
  <2>4. RowsOK(new, blocks)
    <3>1. \A other \in rows : other.validator = v => other.height # height
      BY DEF Unchecked
    <3> QED
      BY <2>2, <3>1 DEF RowsOK
  <2>5. IsLast(new, v, row)
    <3>1. \A other \in new : other.height <= row.height
      BY <2>2, <2>3
    <3> QED
      BY <2>2, <3>1 DEF IsLast
  <2>6. \A w, old : w # v /\ IsLast(rows, w, old) => IsLast(new, w, old)
    BY <2>2 DEF IsLast
  <2>7. \A w : w # v /\ Unchecked(rows, w) => Unchecked(new, w)
    BY <2>2 DEF Unchecked
  <2> QED
    BY <2>1, <2>2, <2>4, <2>5, <2>6, <2>7 DEF SavedFor
<1> QED
  BY <1>1, <1>2 DEF MaySave

LEMMA RowIsNew ==
    ASSUME NEW rows, NEW v, Unchecked(rows, v), NEW x
    PROVE  Row(v, x) \notin rows
<1>1. Row(v, x).validator = v /\ Row(v, x).height = height
  BY DEF Row
<1> QED
  BY <1>1 DEF Unchecked

LEMMA SaveValidatorOK ==
    ASSUME IInv, NEW v \in Validator, SaveValidator(v)
    PROVE  IInv'
<1>1. PICK r : r = chain[height][v]
  OBVIOUS
<1>2. /\ pc = "check" /\ v \in todo /\ todo' = todo \ {v} /\ pc' = pc
      /\ work' = WithRows(v, r)
      /\ validatorCache' = CacheSet(validatorCache, Consensus(v), r)
      /\ UNCHANGED <<chain, saved, height, aborted, addressCache, spoiled>>
  BY <1>1 DEF SaveValidator, Checks
<1>3. PICK w : w = work'
  OBVIOUS
<1>4. /\ height \in Nat /\ TablesOK(work) /\ work.blocks = saved.blocks \cup {height}
      /\ height \in work.blocks /\ work.blocks \subseteq 1 .. height
      /\ Unchecked(work.status, v) /\ Unchecked(work.power, v)
  <2>1. height \in Nat \ {0}
    BY ConstantFacts DEF IInv, SavedOK
  <2>2. saved.blocks \subseteq 1 .. height
    BY <2>1 DEF IInv, SavedOK
  <2> QED
    BY <1>2, <2>1, <2>2 DEF IInv, WorkOK, InBlock
<1>5. /\ IsTables(w) /\ w.blocks = work.blocks /\ w.infos = work.infos
      /\ w.status = IF NeedsStatus(v, r) THEN work.status \cup {Row(v, r.status)} ELSE work.status
      /\ w.power = IF NeedsPower(v, r) THEN work.power \cup {Row(v, r.power)} ELSE work.power
  <2>1. work = [blocks |-> work.blocks, infos |-> work.infos, status |-> work.status,
                power |-> work.power]
    BY <1>4 DEF TablesOK, IsTables
  <2> QED
    BY <1>2, <1>3, <2>1 DEF WithRows, IsTables
<1>6. /\ MaySave(work.status, w.status, v, r.status) /\ MaySave(work.power, w.power, v, r.power)
      /\ RowsOK(work.status, work.blocks) /\ RowsOK(work.power, work.blocks)
  BY <1>4, <1>5 DEF TablesOK, MaySave
<1>7. /\ RowsOK(w.status, w.blocks) /\ SavedFor(work.status, w.status, v)
      /\ w.status # work.status => IsLast(w.status, v, Row(v, r.status))
  BY <1>4, <1>5, <1>6, RowsSaved
<1>8. /\ RowsOK(w.power, w.blocks) /\ SavedFor(work.power, w.power, v)
      /\ w.power # work.power => IsLast(w.power, v, Row(v, r.power))
  BY <1>4, <1>5, <1>6, RowsSaved
<1>9. ChainOK' /\ SavedOK'
  BY <1>2, BlockGoesOn DEF IInv
<1>10. WorkOK'
  <2>1. TablesOK(w)
    BY <1>4, <1>5, <1>7, <1>8 DEF TablesOK, SavedFor
  <2>2. \A u \in todo' : Unchecked(w.status, u) /\ Unchecked(w.power, u)
    BY <1>2, <1>7, <1>8 DEF IInv, WorkOK, SavedFor
  <2>3. Reported(w.power)
    <3>1. Reported(work.power) /\ height \in DOMAIN chain
      BY <1>2 DEF IInv, WorkOK, InBlock
    <3>2. /\ Row(v, r.power).height = height /\ Row(v, r.power).validator = v
          /\ Row(v, r.power).value = r.power
      BY DEF Row
    <3> QED
      BY <1>1, <1>6, <3>1, <3>2 DEF Reported, MaySave
  <2> QED
    BY <1>2, <1>3, <1>5, <2>1, <2>2, <2>3
       DEF IInv, WorkOK, InBlock, TablesOK, IsTables, Unchecked, Reported
<1>11. CachesOK'
  <2>1. SUFFICES ASSUME ~spoiled, ~aborted
                 PROVE  CachesOK'
    BY <1>2 DEF CachesOK
  <2>2. /\ addressCache = work.infos
        /\ \A u \in Validator : IsCached(u) => TellReport(work, u, validatorCache[Consensus(u)])
        /\ \A u \in Existing(height - 1) :
              u \in todo \/ (IsCached(u) /\ validatorCache[Consensus(u)] = chain[height][u])
    BY <1>2, <2>1 DEF IInv, CachesOK, InBlock
  <2>3. TellReport(w, v, r)
    <3>1. Row(v, r.status).value = r.status /\ Row(v, r.power).value = r.power
      BY DEF Row
    <3>2. \E row : IsLast(w.status, v, row) /\ row.value = r.status
      <4>1. CASE NeedsStatus(v, r)
        <5>1. Row(v, r.status) \notin work.status
          BY <1>4, RowIsNew
        <5> QED
          BY <1>5, <1>7, <3>1, <4>1, <5>1
      <4>2. CASE ~NeedsStatus(v, r)
        <5>1. w.status = work.status
          BY <1>5, <4>2
        <5> QED
          BY <2>2, <4>2, <5>1 DEF NeedsStatus, TellReport
      <4> QED
        BY <4>1, <4>2
    <3>3. \E row : IsLast(w.power, v, row) /\ row.value.tokens = r.power.tokens
      <4>1. CASE NeedsPower(v, r)
        <5>1. Row(v, r.power) \notin work.power
          BY <1>4, RowIsNew
        <5> QED
          BY <1>5, <1>8, <3>1, <4>1, <5>1
      <4>2. CASE ~NeedsPower(v, r)
        <5>1. w.power = work.power
          BY <1>5, <4>2
        <5> QED
          BY <2>2, <4>2, <5>1 DEF NeedsPower, TellReport
      <4> QED
        BY <4>1, <4>2
    <3> QED
      BY <3>2, <3>3 DEF TellReport
  <2>4. PICK c : c = validatorCache'
    OBVIOUS
  <2>5. /\ DOMAIN c = DOMAIN validatorCache \cup {Consensus(v)} /\ c[Consensus(v)] = r
        /\ \A a \in DOMAIN validatorCache : a # Consensus(v) => c[a] = validatorCache[a]
    BY <1>2, <2>4 DEF CacheSet
  <2>6. \A u \in Validator : Consensus(u) \in DOMAIN c => TellReport(w, u, c[Consensus(u)])
    <3>1. TAKE u \in Validator
    <3>2. HAVE Consensus(u) \in DOMAIN c
    <3>3. CASE u = v
      BY <2>3, <2>5, <3>3
    <3>4. CASE u # v
      <4>1. Consensus(u) # Consensus(v)
        BY <3>4, ConsensusInjective
      <4>2. IsCached(u) /\ c[Consensus(u)] = validatorCache[Consensus(u)]
        BY <2>5, <3>2, <4>1 DEF IsCached
      <4>3. TellReport(work, u, c[Consensus(u)])
        BY <2>2, <4>2
      <4> QED
        BY <1>7, <1>8, <3>4, <4>3 DEF TellReport, SavedFor
    <3> QED
      BY <3>3, <3>4
  <2>7. \A u \in Existing(height - 1) :
          u \in todo' \/ (Consensus(u) \in DOMAIN c /\ c[Consensus(u)] = chain[height][u])
    <3>1. TAKE u \in Existing(height - 1)
    <3>2. CASE u = v
      BY <1>1, <2>5, <3>2
    <3>3. CASE u # v
      <4>1. Consensus(u) # Consensus(v)
        BY <3>3, ConsensusInjective
      <4> QED
        BY <1>2, <2>2, <2>5, <3>3, <4>1 DEF IsCached
    <3> QED
      BY <3>2, <3>3
  <2> QED
    BY <1>2, <1>3, <1>5, <2>2, <2>4, <2>6, <2>7 DEF CachesOK, IsCached, TellReport, IsLast, Existing
<1> QED
  BY <1>9, <1>10, <1>11 DEF IInv

LEMMA SaveFailsOK ==
    ASSUME IInv, NEW v \in Validator, SaveFails(v)
    PROVE  IInv'
<1>1. /\ pc = "check" /\ todo' = todo \ {v} /\ pc' = pc /\ aborted'
      /\ UNCHANGED <<chain, saved, height, work>>
  BY DEF SaveFails, Checks
<1>2. ChainOK' /\ SavedOK'
  BY <1>1, BlockGoesOn DEF IInv
<1>3. WorkOK'
  BY <1>1 DEF IInv, WorkOK, InBlock, TablesOK, IsTables, Unchecked, Existing, Reported
<1> QED
  BY <1>1, <1>2, <1>3 DEF IInv, CachesOK

LEMMA AllCheckedOK ==
    ASSUME IInv, AllChecked
    PROVE  IInv'
<1>1. /\ pc = "check" /\ todo = {} /\ pc' = "messages" /\ todo' = Created
      /\ UNCHANGED <<chain, saved, height, work, aborted, addressCache, validatorCache, spoiled>>
  BY DEF AllChecked, tableVars, cacheVars
<1>2. ChainOK' /\ SavedOK'
  BY <1>1, BlockGoesOn DEF IInv
<1>3. Existing(height) \subseteq work.infos \cup Created
  BY <1>1 DEF IInv, WorkOK, SavedOK, Created
<1>4. WorkOK'
  BY <1>1, <1>3 DEF IInv, WorkOK, InBlock, TablesOK, IsTables, Existing, Reported
<1>5. CachesOK'
  BY <1>1 DEF IInv, CachesOK, InBlock, IsCached, TellReport, Existing
<1> QED
  BY <1>2, <1>4, <1>5 DEF IInv

LEMMA CreateValidatorOK ==
    ASSUME IInv, NEW v \in Validator, CreateValidator(v)
    PROVE  IInv'
<1>1. /\ pc = "messages" /\ ~aborted /\ pc' = pc /\ todo' = todo \ {v}
      /\ work' = [work EXCEPT !.infos = @ \cup {v}] /\ addressCache' = addressCache \cup {v}
      /\ UNCHANGED <<chain, saved, height, aborted, validatorCache, spoiled>>
  BY DEF CreateValidator
<1>2. ChainOK' /\ SavedOK'
  BY <1>1, BlockGoesOn DEF IInv
<1>3. PICK w : w = work'
  OBVIOUS
<1>4. /\ IsTables(w) /\ w.blocks = work.blocks /\ w.infos = work.infos \cup {v}
      /\ w.status = work.status /\ w.power = work.power
  <2>1. work = [blocks |-> work.blocks, infos |-> work.infos, status |-> work.status,
                power |-> work.power]
    BY <1>1 DEF IInv, WorkOK, InBlock, TablesOK, IsTables
  <2> QED
    BY <1>1, <1>3, <2>1 DEF IsTables
<1>5. WorkOK'
  <2>1. TablesOK(w)
    BY <1>1, <1>4 DEF IInv, WorkOK, InBlock, TablesOK
  <2> QED
    BY <1>1, <1>3, <1>4, <2>1 DEF IInv, WorkOK, InBlock, TablesOK, IsTables, Existing, Reported
<1>6. CachesOK'
  BY <1>1, <1>3, <1>4 DEF IInv, CachesOK, InBlock, IsCached, TellReport, Existing
<1> QED
  BY <1>2, <1>5, <1>6 DEF IInv

\* A message that is refused, or a handler that fails: the loop rolls back.
LEMMA BlockEndsOK ==
    ASSUME IInv, QueryRefused \/ HandlerFails
    PROVE  IInv'
<1>1. pc' = "rollback" /\ UNCHANGED <<chain, saved, height>>
  BY DEF QueryRefused, HandlerFails, tableVars
<1>2. ChainOK' /\ SavedOK'
  BY <1>1, BlockGoesOn DEF IInv
<1> QED
  BY <1>1, <1>2 DEF IInv, WorkOK, CachesOK, InBlock

LEMMA InitOK ==
    ASSUME Init
    PROVE  IInv
<1>1. /\ chain = <<>> /\ work = saved /\ aborted = FALSE /\ addressCache = Genesis
      /\ saved = [blocks |-> {}, infos |-> Genesis, status |-> {}, power |-> {}]
      /\ validatorCache = <<>> /\ pc = "idle" /\ height = 1
  BY DEF Init
<1>2. DOMAIN chain = {} /\ DOMAIN validatorCache = {} /\ height - 1 = 0 /\ 1 .. 0 = {}
  BY <1>1
<1>3. ChainOK
  BY <1>1, <1>2 DEF ChainOK
<1>4. SavedOK
  <2>1. 1 \in 1 .. LastBlock + 1
    BY ConstantFacts
  <2> QED
    BY <1>1, <1>2, <2>1 DEF SavedOK, TablesOK, IsTables, RowsOK, Existing, Reported
<1>5. WorkOK
  BY <1>1 DEF WorkOK, InBlock
<1>6. CachesOK
  BY <1>1, <1>2 DEF CachesOK, InBlock, IsCached
<1> QED
  BY <1>3, <1>4, <1>5, <1>6 DEF IInv

LEMMA StepOK ==
    ASSUME IInv, [Next]_vars
    PROVE  IInv'
<1>1. CASE UNCHANGED vars
  <2>1. UNCHANGED <<chain, saved, height, work, aborted, addressCache, validatorCache, spoiled, pc,
                    todo>>
    BY <1>1 DEF vars, tableVars, cacheVars
  <2>2. ChainOK' /\ SavedOK'
    BY <2>1, BlockGoesOn DEF IInv
  <2>3. WorkOK'
    BY <2>1 DEF IInv, WorkOK, InBlock, TablesOK, IsTables, Unchecked, Existing, Reported
  <2>4. CachesOK'
    BY <2>1 DEF IInv, CachesOK, InBlock, IsCached, TellReport, Existing
  <2> QED
    BY <2>2, <2>3, <2>4 DEF IInv
<1>2. CASE CheckStep
  BY <1>2, SkipUnknownOK, SaveValidatorOK, SaveFailsOK DEF CheckStep
<1>3. CASE \E v \in Validator : CreateValidator(v)
  BY <1>3, CreateValidatorOK
<1> QED
  BY <1>1, <1>2, <1>3, StartBlockOK, CommitBlockOK, RollBackOK, AllCheckedOK, BlockEndsOK, CrashOK
     DEF Next, LoopStep

LEMMA Invariance == Spec => []IInv
BY InitOK, StepOK, PTL DEF Spec

-----------------------------------------------------------------------------
(***************************************************************************)
(* What it gives.                                                          *)
(***************************************************************************)
\* Until a process rolls a block back, validatorAddressCache has the validators with
\* a row, and validatorCache the status and the tokens that their last rows say.
THEOREM CachesAgree == Spec => []CachesMirrorTables
<1>1. ASSUME IInv
      PROVE  CachesMirrorTables
  <2>1. SUFFICES ASSUME ~spoiled, ~aborted, pc # "rollback"
                 PROVE  /\ addressCache = work.infos
                        /\ \A v \in Validator : IsCached(v) =>
                              /\ Latest(work.status, v, LastBlock).value
                                    = validatorCache[Consensus(v)].status
                              /\ Latest(work.power, v, LastBlock).value.tokens
                                    = validatorCache[Consensus(v)].power.tokens
    BY DEF CachesMirrorTables
  <2>2. /\ addressCache = work.infos
        /\ \A v \in Validator : IsCached(v) => TellReport(work, v, validatorCache[Consensus(v)])
    BY <1>1, <2>1 DEF IInv, CachesOK
  <2>3. TablesOK(work) /\ work.blocks \subseteq 1 .. LastBlock /\ LastBlock \in Nat
    <3>1. /\ height \in Nat \ {0} /\ height - 1 <= LastBlock /\ LastBlock \in Nat
          /\ saved.blocks \subseteq 1 .. height - 1
      BY <1>1, ConstantFacts DEF IInv, SavedOK
    <3>2. saved.blocks \subseteq 1 .. LastBlock
      BY <3>1
    <3>3. CASE pc = "idle"
      BY <1>1, <3>1, <3>2, <3>3 DEF IInv, WorkOK, SavedOK
    <3>4. CASE InBlock
      BY <1>1, <3>1, <3>2, <3>4 DEF IInv, WorkOK
    <3> QED
      BY <1>1, <2>1, <3>3, <3>4 DEF IInv, WorkOK, InBlock
  <2> QED
    BY <2>2, <2>3, LatestTells DEF TablesOK, TellReport
<1> QED
  BY <1>1, Invariance, PTL

\* A process that has rolled nothing back commits no block with a status or tokens
\* that the last rows do not have, and every row of tokens and shares says what the
\* node reported at its height.
THEOREM RecordsAreSound == Spec => SoundProcessRecords
<1>1. ASSUME IInv, [Next]_vars
      PROVE  [saved'.blocks # saved.blocks /\ ~spoiled => BlockRecorded(saved', height)]_vars
  <2>1. SUFFICES ASSUME saved'.blocks # saved.blocks, ~spoiled
                 PROVE  BlockRecorded(saved', height)
    OBVIOUS
  <2>2. CommitBlock
    BY <1>1, <2>1 DEF Next, LoopStep, StartBlock, RollBack, CheckStep, SkipUnknown, SaveValidator,
                      SaveFails, Checks, AllChecked, CreateValidator, QueryRefused, HandlerFails,
                      Crash, tableVars, vars
  <2>3. /\ ~aborted /\ saved' = work /\ chain' = chain /\ pc = "messages" /\ InBlock
    BY <2>1, <2>2 DEF CommitBlock, InBlock
  <2>4. /\ TablesOK(work) /\ height \in DOMAIN chain /\ height \in Nat \ {0}
        /\ work.blocks = saved.blocks \cup {height} /\ saved.blocks \subseteq 1 .. height - 1
        /\ height - 1 \in DOMAIN chain \cup {0}
    <3>1. /\ TablesOK(work) /\ height \in DOMAIN chain /\ height \in Nat \ {0}
          /\ work.blocks = saved.blocks \cup {height} /\ saved.blocks \subseteq 1 .. height - 1
      BY <1>1, <2>3, ConstantFacts DEF IInv, WorkOK, SavedOK
    <3>2. height - 1 \in 1 .. height - 1 \cup {0}
      BY <3>1
    <3> QED
      BY <1>1, <3>1, <3>2 DEF IInv, ChainOK
  <2>5. work.blocks \subseteq 1 .. height
    BY <2>4
  <2>6. ASSUME NEW v \in Existing(height - 1)
        PROVE  RowsMatch(work, v, height)
    <3>1. v \in Validator
      BY <1>1, <2>4, ExistingValidators DEF IInv
    <3>2. IsCached(v) /\ validatorCache[Consensus(v)] = chain[height][v]
      BY <1>1, <2>1, <2>3 DEF IInv, CachesOK
    <3>3. TellReport(work, v, chain[height][v])
      BY <1>1, <2>1, <2>3, <3>1, <3>2 DEF IInv, CachesOK
    <3>4. PICK r : r = chain[height][v]
      OBVIOUS
    <3>5. /\ \E row \in work.status : row.validator = v /\ row.height <= height
          /\ Latest(work.status, v, height).value = r.status
      BY <2>4, <2>5, <3>3, <3>4, LatestTells DEF TablesOK, TellReport
    <3>6. PICK row : IsLast(work.power, v, row) /\ row.value.tokens = r.power.tokens
      BY <3>3, <3>4 DEF TellReport
    <3>7. /\ row \in work.power /\ row.validator = v /\ row.height <= height
          /\ Latest(work.power, v, height) = row
      BY <2>4, <2>5, <3>6, LatestTells DEF TablesOK
    <3>8. row.value = chain[row.height][v].power
      BY <1>1, <2>3, <3>7 DEF IInv, WorkOK, Reported
    <3> QED
      BY <3>4, <3>5, <3>6, <3>7, <3>8 DEF RowsMatch
  <2> QED
    BY <2>3, <2>6 DEF BlockRecorded, RowsMatch
<1> QED
  BY <1>1, Invariance, PTL DEF Spec, SoundProcessRecords
=============================================================================

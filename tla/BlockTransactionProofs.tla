----------------------- MODULE BlockTransactionProofs -----------------------
(***************************************************************************)
(* Proofs about the transaction of a block, for every sequence of events,  *)
(* every set of listeners of each, and whichever of them wait for the node *)
(* or swallow errors.                                                      *)
(*                                                                         *)
(* The inductive invariant has four parts besides the completeness of the  *)
(* blocks: SessionOK says when the server has an open transaction, RunsOK  *)
(* whose listeners are at work, CountOK that the answers outstanding are   *)
(* those of the listeners at work, WrittenOK what the transaction holds.   *)
(*                                                                         *)
(* That the loop goes on with the next block needs that the blocks in the  *)
(* table lie below the block in work (BelowOK); that what a listener does  *)
(* is stored once, what is left of a failed attempt (LeftoversOK) and in   *)
(* the table (TableOK) by those who do not linger.                         *)
(***************************************************************************)
EXTENDS BlockTransaction, Maxima

\* The loop is inside of a block's transaction.
InBlock == pc \in {"emit", "await", "commit"}

SessionOK ==
    /\ client \in [open : BOOLEAN, watched : BOOLEAN]
    /\ instanceConnected \in BOOLEAN
    /\ tx \in {"none", "open", "aborted"}
    /\ tx # "none" => client.open /\ (InBlock \/ pc = "rollback")
    /\ tx = "none" => pending = {}
    /\ InBlock /\ client.open => tx # "none"
    /\ FlagIsTruthful

RunsOK ==
    /\ attempt \in Nat
    /\ event \in Nat \ {0}
    /\ \A w \in running :
          /\ w.attempt \in Nat /\ w.attempt <= attempt
          /\ w.attempt = attempt /\ InBlock =>
                pc = "await" /\ w = Run(w.listener) /\ w.listener \in Listens[event]
          /\ IsBlockRow(w) => pc = "await" /\ w.attempt = attempt

Working == {l \in Listens[event] : Run(l) \in running}

CountOK ==
    /\ pc = "await" =>
          /\ event <= Len(Listens)
          /\ answered \in Nat
          /\ answered + Cardinality(Working) = Cardinality(Listens[event])
    /\ pc = "commit" => event > Len(Listens)

\* The write of listener l for event e in the attempt in work.
Write(e, l) ==
    [height |-> height, event |-> e, listener |-> l, attempt |-> attempt]

WrittenOK ==
    tx = "open" /\ InBlock =>
        /\ \A e \in 1 .. event - 1 : \A l \in Listens[e] : Write(e, l) \in pending
        /\ pc = "await" => \A l \in Listens[event] : Run(l) \in running \cup pending
        /\ \A w \in pending : IsBlockRow(w) => w.height = height

IInv == SessionOK /\ RunsOK /\ CountOK /\ WrittenOK /\ CommittedBlocksAreComplete

-----------------------------------------------------------------------------
LEMMA ListensFacts ==
    /\ Len(Listens) \in Nat \ {0}
    /\ DOMAIN Listens = 1 .. Len(Listens)
    /\ Listens[1] = {BlockModule}
    /\ \A e \in DOMAIN Listens : IsFiniteSet(Listens[e])
BY ListensAssumption DEF ListensAssumption

\* What is new in the database besides block rows harms no block.
LEMMA DurableGrows ==
    ASSUME CommittedBlocksAreComplete, durable \subseteq durable',
           \A w \in durable' \ durable : ~IsBlockRow(w)
    PROVE  CommittedBlocksAreComplete'
<1>1. IndexedBlocks' = IndexedBlocks
  BY DEF IndexedBlocks, IsBlockRow
<1> QED
  BY <1>1 DEF CommittedBlocksAreComplete

\* A COMMIT, where the loop makes it, adds a whole block or nothing.
LEMMA CommitKeepsComplete ==
    ASSUME IInv, pc = "commit", CommitTransaction
    PROVE  CommittedBlocksAreComplete'
<1>1. CASE tx # "open"
  BY <1>1, DurableGrows DEF IInv, CommitTransaction
<1>2. CASE tx = "open"
  <2>1. durable' = durable \cup pending
    BY <1>2 DEF CommitTransaction
  <2>2. \A w \in pending : IsBlockRow(w) => w.height = height
    BY <1>2 DEF IInv, WrittenOK, InBlock
  <2>3. \A e \in DOMAIN Listens : \A l \in Listens[e] : Write(e, l) \in pending
    <3>1. event > Len(Listens) /\ event \in Nat
      BY DEF IInv, CountOK, RunsOK
    <3>2. DOMAIN Listens \subseteq 1 .. event - 1
      BY <3>1, ListensFacts
    <3> QED
      BY <1>2, <3>2 DEF IInv, WrittenOK, InBlock
  <2>4. SUFFICES ASSUME NEW h \in IndexedBlocks', NEW e \in DOMAIN Listens, NEW l \in Listens[e]
                 PROVE  \E w \in durable' : w.height = h /\ w.event = e /\ w.listener = l
    BY DEF CommittedBlocksAreComplete
  <2>5. CASE h \in IndexedBlocks
    BY <2>1, <2>5 DEF IInv, CommittedBlocksAreComplete
  <2>6. CASE h \notin IndexedBlocks
    <3>1. h = height
      BY <2>1, <2>2, <2>6 DEF IndexedBlocks, IsBlockRow
    <3>2. /\ Write(e, l).height = height
          /\ Write(e, l).event = e
          /\ Write(e, l).listener = l
      BY DEF Write, Run
    <3> QED
      BY <2>1, <2>3, <3>1, <3>2
  <2> QED
    BY <2>5, <2>6
<1> QED
  BY <1>1, <1>2

-----------------------------------------------------------------------------
(***************************************************************************)
(* The listeners.                                                          *)
(***************************************************************************)
\* A listener whose answer is awaited works on the event in work.
LEMMA AwaitedRun ==
    ASSUME RunsOK, CountOK, NEW w \in running, Awaited(w)
    PROVE  /\ w = Run(w.listener) /\ w.listener \in Working
           /\ event \in DOMAIN Listens /\ IsFiniteSet(Working)
           /\ Cardinality(Listens[event]) \in Nat /\ Cardinality(Working) \in Nat
           /\ \A u \in running : IsBlockRow(u) => u = w
<1>1. pc = "await" /\ w.attempt = attempt /\ InBlock
  BY DEF Awaited, InBlock
<1>2. w = Run(w.listener) /\ w.listener \in Listens[event]
  BY <1>1 DEF RunsOK
<1>3. event \in DOMAIN Listens
  BY <1>1, ListensFacts DEF RunsOK, CountOK
<1>4. IsFiniteSet(Listens[event]) /\ Working \subseteq Listens[event]
  BY <1>3, ListensFacts DEF Working
<1>5. IsFiniteSet(Working)
  BY <1>4, FS_Subset
<1>6. ASSUME NEW u \in running, IsBlockRow(u)
      PROVE  u = w
  <2>1. u = Run(u.listener) /\ u.listener = BlockModule /\ u.event = 1
    BY <1>1, <1>6 DEF RunsOK, IsBlockRow
  <2>2. event = 1
    BY <2>1 DEF Run
  <2> QED
    BY <1>2, <2>1, <2>2, ListensFacts
<1> QED
  BY <1>2, <1>3, <1>4, <1>5, <1>6, FS_CardinalityType DEF Working

\* When one answer is outstanding, one listener of the event is at work.
LEMMA LastAnswer ==
    ASSUME RunsOK, CountOK, NEW w \in running, Awaited(w),
           answered + 1 = Cardinality(Listens[event])
    PROVE  Working = {w.listener}
<1>1. w.listener \in Working /\ IsFiniteSet(Working) /\ Cardinality(Working) \in Nat
  BY AwaitedRun
<1>2. Cardinality(Working) = 1
  BY <1>1 DEF CountOK, Awaited
<1>3. PICK x : Working = {x}
  BY <1>1, <1>2, FS_Singleton
<1> QED
  BY <1>1, <1>3

\* An answer leaves the block or goes on with it.
LEMMA AnswerPc ==
    ASSUME NEW w, NEW ok, Answer(w, ok)
    PROVE  /\ InBlock' => InBlock
           /\ InBlock => InBlock' \/ pc' = "rollback"
           /\ pc = "rollback" => pc' = "rollback"
           /\ pc' = "dead" <=> pc = "dead"
BY DEF Answer, Awaited, InBlock

LEMMA AnswerKeeps ==
    ASSUME RunsOK, CountOK, NEW w \in running, NEW ok \in BOOLEAN, Answer(w, ok)
    PROVE  RunsOK' /\ CountOK'
<1>0. /\ running' = running \ {w} /\ attempt' = attempt /\ height' = height
      /\ attempt \in Nat /\ event \in Nat \ {0}
  BY DEF Answer, RunsOK
<1>1. CASE ~Awaited(w)
  <2>1. pc' = pc /\ event' = event /\ answered' = answered
    BY <1>1 DEF Answer
  <2>2. RunsOK'
    BY <1>0, <2>1 DEF RunsOK, InBlock, Run, IsBlockRow
  <2>3. ASSUME pc = "await"
        PROVE  Working' = Working
    <3>1. w.attempt # attempt
      BY <1>1, <2>3 DEF Awaited
    <3>2. \A l : Run(l) # w
      BY <3>1 DEF Run
    <3> QED
      BY <1>0, <2>1, <3>2 DEF Working, Run
  <2> QED
    BY <2>1, <2>2, <2>3 DEF CountOK
<1>2. CASE Awaited(w)
  <2>1. /\ w = Run(w.listener) /\ w.listener \in Working
        /\ event \in DOMAIN Listens /\ IsFiniteSet(Working)
        /\ Cardinality(Listens[event]) \in Nat /\ Cardinality(Working) \in Nat
    BY <1>2, AwaitedRun
  <2>2. \A u \in running' : ~IsBlockRow(u)
    BY <1>0, <1>2, AwaitedRun
  <2>3. pc = "await" /\ InBlock
    BY <1>2 DEF Awaited, InBlock
  <2>4. CASE ~ok
    <3>1. pc' = "rollback" /\ event' = event /\ answered' = answered
      BY <1>2, <2>4 DEF Answer
    <3> QED
      BY <1>0, <2>2, <3>1 DEF RunsOK, CountOK, InBlock, IsBlockRow
  <2>5. CASE ok /\ answered + 1 = Cardinality(Listens[event])
    <3>1. pc' = "emit" /\ event' = event + 1
      BY <1>2, <2>5 DEF Answer
    <3>2. Working = {w.listener}
      BY <1>2, <2>5, LastAnswer
    <3>3. \A u \in running' : u.attempt # attempt
      <4>1. SUFFICES ASSUME NEW u \in running', u.attempt = attempt
                     PROVE  FALSE
        OBVIOUS
      <4>2. u = Run(u.listener) /\ u.listener \in Working
        BY <1>0, <2>3, <4>1 DEF RunsOK, Working
      <4> QED
        BY <1>0, <2>1, <3>2, <4>1, <4>2
    <3> QED
      BY <1>0, <2>2, <3>1, <3>3 DEF RunsOK, CountOK, IsBlockRow
  <2>6. CASE ok /\ answered + 1 # Cardinality(Listens[event])
    <3>1. pc' = pc /\ event' = event /\ answered' = answered + 1
      BY <1>2, <2>6 DEF Answer
    <3>2. Working' = Working \ {w.listener}
      <4>1. \A l : Run(l)' = Run(l)
        BY <1>0, <3>1 DEF Run
      <4>2. \A l : Run(l) = w <=> l = w.listener
        BY <2>1 DEF Run
      <4> QED
        BY <1>0, <3>1, <4>1, <4>2 DEF Working
    <3>3. Cardinality(Working') = Cardinality(Working) - 1
      BY <2>1, <3>2, FS_RemoveElement
    <3>4. RunsOK'
      BY <1>0, <2>2, <3>1 DEF RunsOK, InBlock, Run, IsBlockRow
    <3>5. CountOK'
      BY <2>1, <2>3, <3>1, <3>3 DEF CountOK
    <3> QED
      BY <3>4, <3>5
  <2> QED
    BY <2>4, <2>5, <2>6
<1> QED
  BY <1>1, <1>2

\* A step of a listener keeps the session in order when it keeps the client and
\* what it does to the transaction is a query's doing.
LEMMA AnswerKeepsSession ==
    ASSUME SessionOK, NEW w, NEW ok, Answer(w, ok), UNCHANGED clientVars,
           tx' \in {tx, "aborted"}, tx = "none" <=> tx' = "none",
           tx = "none" => pending' = pending
    PROVE  SessionOK'
<1>1. client' = client /\ instanceConnected' = instanceConnected
  BY DEF clientVars
<1> QED
  BY <1>1, AnswerPc DEF SessionOK, FlagIsTruthful

LEMMA WriteOK ==
    ASSUME IInv, NEW w \in running, ListenerWrites(w)
    PROVE  IInv'
<1>0. Stores(w) /\ Answer(w, TRUE) /\ UNCHANGED clientVars
  BY DEF ListenerWrites
<1>1. RunsOK' /\ CountOK'
  BY <1>0, AnswerKeeps DEF IInv
<1>2. SessionOK'
  BY <1>0, AnswerKeepsSession DEF IInv, Stores
<1>3. IsBlockRow(w) => Awaited(w)
  BY DEF IInv, RunsOK, Awaited
<1>4. CommittedBlocksAreComplete'
  <2>1. durable' # durable => ~IsBlockRow(w)
    <3>1. SUFFICES ASSUME durable' # durable, IsBlockRow(w)
                   PROVE  FALSE
      OBVIOUS
    <3>2. tx = "none" /\ client.open
      BY <1>0, <3>1 DEF Stores, IInv, SessionOK
    <3>3. InBlock
      BY <1>3, <3>1 DEF Awaited, InBlock
    <3> QED
      BY <3>2, <3>3 DEF IInv, SessionOK
  <2>2. durable \subseteq durable' /\ durable' \subseteq durable \cup {w}
    BY <1>0 DEF Stores
  <2> QED
    BY <2>1, <2>2, DurableGrows DEF IInv
<1>5. WrittenOK'
  <2>1. SUFFICES ASSUME tx' = "open", InBlock'
                 PROVE  WrittenOK'
    BY DEF WrittenOK
  <2>2. /\ tx = "open" /\ InBlock /\ pending' = pending \cup {w}
        /\ running' = running \ {w} /\ height' = height /\ attempt' = attempt
    BY <1>0, <2>1, AnswerPc DEF Stores, Answer
  <2>3. /\ \A e \in 1 .. event - 1 : \A l \in Listens[e] : Write(e, l) \in pending
        /\ pc = "await" => \A l \in Listens[event] : Run(l) \in running \cup pending
        /\ \A u \in pending : IsBlockRow(u) => u.height = height
    BY <2>2 DEF IInv, WrittenOK
  <2>4. \A e, l : Write(e, l)' = Write(e, l)
    BY <2>2 DEF Write
  <2>5. CASE ~Awaited(w)
    <3>1. pc' = pc /\ event' = event
      BY <1>0, <2>5 DEF Answer
    <3>2. \A l : Run(l)' = Run(l)
      BY <2>2, <3>1 DEF Run
    <3> QED
      BY <1>3, <2>2, <2>3, <2>4, <2>5, <3>1, <3>2 DEF WrittenOK, IsBlockRow
  <2>6. CASE Awaited(w)
    <3>1. w = Run(w.listener) /\ pc = "await" /\ event \in Nat \ {0}
      BY <2>6, AwaitedRun DEF IInv, Awaited, RunsOK
    <3>2. w = Write(event, w.listener) /\ w.height = height
      BY <3>1 DEF Run, Write
    <3>3. CASE answered + 1 = Cardinality(Listens[event])
      <4>1. pc' = "emit" /\ event' = event + 1
        BY <1>0, <2>6, <3>3 DEF Answer
      <4>2. Working = {w.listener}
        BY <2>6, <3>3, LastAnswer DEF IInv
      <4>3. \A l \in Listens[event] : Write(event, l) \in pending'
        BY <2>2, <2>3, <3>1, <3>2, <4>2 DEF Working, Run, Write
      <4>4. \A e \in 1 .. event' - 1 : \A l \in Listens[e] : Write(e, l)' \in pending'
        BY <2>2, <2>3, <2>4, <3>1, <4>1, <4>3
      <4> QED
        BY <2>2, <2>3, <3>2, <4>1, <4>4 DEF WrittenOK, IsBlockRow
    <3>4. CASE answered + 1 # Cardinality(Listens[event])
      <4>1. pc' = pc /\ event' = event
        BY <1>0, <2>6, <3>4 DEF Answer
      <4>2. \A l : Run(l)' = Run(l)
        BY <2>2, <4>1 DEF Run
      <4> QED
        BY <2>2, <2>3, <2>4, <3>2, <4>1, <4>2 DEF WrittenOK, IsBlockRow
    <3> QED
      BY <3>3, <3>4
  <2> QED
    BY <2>5, <2>6
<1> QED
  BY <1>1, <1>2, <1>4, <1>5 DEF IInv

LEMMA QueryFailsOK ==
    ASSUME IInv, NEW w \in running, QueryFails(w)
    PROVE  IInv'
<1>0. /\ Aborts /\ Answer(w, w.listener \in Swallows) /\ UNCHANGED clientVars
      /\ (w.listener \in Swallows) \in BOOLEAN
  BY DEF QueryFails, Refuses
<1>1. RunsOK' /\ CountOK'
  BY <1>0, AnswerKeeps DEF IInv
<1>2. tx' # "open" /\ durable' = durable
  BY <1>0 DEF Aborts, IInv, SessionOK
<1>3. SessionOK'
  BY <1>0, AnswerKeepsSession DEF IInv, SessionOK, Aborts
<1>4. WrittenOK'
  BY <1>2 DEF WrittenOK
<1>5. CommittedBlocksAreComplete'
  BY <1>2, DurableGrows DEF IInv
<1> QED
  BY <1>1, <1>3, <1>4, <1>5 DEF IInv

LEMMA ListenerFailsOK ==
    ASSUME IInv, NEW w \in running, ListenerFails(w)
    PROVE  IInv'
<1>0. /\ Answer(w, FALSE) /\ UNCHANGED clientVars
      /\ tx' = tx /\ pending' = pending /\ durable' = durable
  BY DEF ListenerFails, sessionVars, serverVars
<1>1. RunsOK' /\ CountOK'
  BY <1>0, AnswerKeeps DEF IInv
<1>2. SessionOK'
  BY <1>0, AnswerKeepsSession DEF IInv
<1>3. WrittenOK'
  <2>1. CASE Awaited(w)
    BY <1>0, <2>1 DEF Answer, WrittenOK, InBlock
  <2>2. CASE ~Awaited(w)
    <3>1. /\ running' = running \ {w} /\ pc' = pc /\ event' = event
          /\ height' = height /\ attempt' = attempt
      BY <1>0, <2>2 DEF Answer
    <3>2. \A e, l : Write(e, l)' = Write(e, l) /\ Run(l)' = Run(l)
      BY <3>1 DEF Write, Run
    <3>3. pc = "await" => \A l : Run(l) # w
      BY <2>2 DEF Awaited, Run
    <3> QED
      BY <1>0, <3>1, <3>2, <3>3 DEF IInv, WrittenOK, InBlock, IsBlockRow
  <2> QED
    BY <2>1, <2>2
<1>4. CommittedBlocksAreComplete'
  BY <1>0, DurableGrows DEF IInv
<1> QED
  BY <1>1, <1>2, <1>3, <1>4 DEF IInv

-----------------------------------------------------------------------------
(***************************************************************************)
(* The loop.                                                               *)
(***************************************************************************)
\* A step that ends outside of a block, where no block row is under way.
LEMMA OutOfBlock ==
    ASSUME RunsOK, ~InBlock', running' \subseteq running,
           attempt' \in {attempt, attempt + 1}, event' \in Nat \ {0},
           \A w \in running' : ~IsBlockRow(w)
    PROVE  RunsOK' /\ CountOK' /\ WrittenOK'
<1>1. RunsOK'
  BY DEF RunsOK, InBlock, IsBlockRow
<1> QED
  BY <1>1 DEF CountOK, WrittenOK, InBlock

LEMMA NoBlockRow ==
    ASSUME RunsOK, pc # "await", running' \in {running, {}}
    PROVE  \A w \in running' : ~IsBlockRow(w)
BY DEF RunsOK

\* The flag tells the truth of the client.
ClientOK ==
    /\ client \in [open : BOOLEAN, watched : BOOLEAN]
    /\ instanceConnected \in BOOLEAN
    /\ instanceConnected <=> client.open

\* Whatever replaces the client keeps the flag true; a loss does if it is watched.
LEMMA ClientFacts ==
    ASSUME client \in [open : BOOLEAN, watched : BOOLEAN], instanceConnected \in BOOLEAN
    PROVE  /\ (instanceConnected <=> client.open) /\ Reconnect => ClientOK' /\ client'.open
           /\ \A n : (instanceConnected <=> client.open) /\ Recycle(n) => ClientOK'
           /\ \A n : RecycleFails(n) => ClientOK'
           /\ ConnectedAtSetup => ClientOK'
           /\ LoseConnection =>
                  /\ client' \in [open : BOOLEAN, watched : BOOLEAN] /\ ~client'.open
                  /\ instanceConnected' \in BOOLEAN
                  /\ client.watched => ClientOK'
<1>1. \A o, w \in BOOLEAN :
         /\ NewClient(o, w) \in [open : BOOLEAN, watched : BOOLEAN]
         /\ NewClient(o, w).open = o
  BY DEF NewClient
<1>2. (instanceConnected <=> client.open) /\ Reconnect => ClientOK' /\ client'.open
  BY <1>1 DEF Reconnect, ClientOK
<1>3. ASSUME NEW n, instanceConnected <=> client.open, Recycle(n)
      PROVE  ClientOK'
  BY <1>1, <1>3 DEF Recycle, ClientOK
<1>4. ASSUME NEW n, RecycleFails(n)
      PROVE  ClientOK'
  BY <1>1, <1>4 DEF RecycleFails, ClientOK
<1>5. ConnectedAtSetup => ClientOK'
  BY <1>1 DEF ConnectedAtSetup, ClientOK
<1>6. LoseConnection =>
         /\ client' \in [open : BOOLEAN, watched : BOOLEAN] /\ ~client'.open
         /\ instanceConnected' \in BOOLEAN
         /\ client.watched => ClientOK'
  BY DEF LoseConnection, ClientOK
<1> QED
  BY <1>2, <1>3, <1>4, <1>5, <1>6

LEMMA StartBlocksOK ==
    ASSUME IInv, StartBlocks
    PROVE  IInv'
<1>0. /\ pc = "start" /\ pc' \in {"begin", "done"} /\ Reconnect
      /\ attempt' = attempt /\ event' = event /\ running' = running
      /\ tx' = tx /\ pending' = pending /\ durable' = durable
  BY DEF StartBlocks, Reconnect, serverVars
<1>1. SessionOK'
  <2>1. ClientOK' /\ client'.open
    BY <1>0, ClientFacts DEF IInv, SessionOK, FlagIsTruthful
  <2> QED
    BY <1>0, <2>1 DEF IInv, SessionOK, FlagIsTruthful, InBlock, ClientOK
<1>2. RunsOK' /\ CountOK' /\ WrittenOK'
  BY <1>0, NoBlockRow, OutOfBlock DEF IInv, RunsOK, InBlock
<1> QED
  BY <1>0, <1>1, <1>2, DurableGrows DEF IInv

LEMMA StartFailsOK ==
    ASSUME IInv, StartFails
    PROVE  IInv'
<1>0. /\ pc = "start" /\ pc' = "dead"
      /\ attempt' = attempt /\ event' = event /\ running' = {}
      /\ client' = client /\ instanceConnected' = instanceConnected
      /\ tx' = tx /\ pending' = pending /\ durable' = durable
  BY DEF StartFails, Dies, sessionVars, clientVars, serverVars
<1>1. SessionOK'
  BY <1>0 DEF IInv, SessionOK, FlagIsTruthful, InBlock
<1>2. RunsOK' /\ CountOK' /\ WrittenOK'
  BY <1>0, NoBlockRow, OutOfBlock DEF IInv, RunsOK, InBlock
<1> QED
  BY <1>0, <1>1, <1>2, DurableGrows DEF IInv

LEMMA BeginBlockOK ==
    ASSUME IInv, BeginBlock
    PROVE  IInv'
<1>0. /\ pc = "begin" /\ tx = "none" /\ pending = {}
      /\ attempt' = attempt + 1 /\ event' = 1 /\ running' = running
      /\ \A w \in running' : ~IsBlockRow(w)
  BY DEF BeginBlock, IInv, SessionOK, RunsOK, InBlock
<1>1. CASE CanBegin
  <2>1. /\ tx' = "open" /\ pc' = "emit" /\ pending' = {} /\ durable' = durable
        /\ client' = client /\ instanceConnected' = instanceConnected /\ client.open
    BY <1>0, <1>1 DEF BeginBlock, BeginTransaction, CanBegin, clientVars
  <2>2. SessionOK'
    BY <1>0, <2>1 DEF IInv, SessionOK, FlagIsTruthful, InBlock
  <2>3. RunsOK'
    BY <1>0, <2>1 DEF IInv, RunsOK, InBlock, IsBlockRow
  <2>4. CountOK' /\ WrittenOK'
    BY <1>0, <2>1 DEF CountOK, WrittenOK
  <2> QED
    BY <2>1, <2>2, <2>3, <2>4, DurableGrows DEF IInv
<1>2. CASE ~CanBegin
  <2>1. /\ pc' = "rollback" /\ tx' = tx /\ pending' = pending /\ durable' = durable
        /\ client' = client /\ instanceConnected' = instanceConnected
    BY <1>2 DEF BeginBlock, sessionVars, clientVars, serverVars
  <2>2. SessionOK'
    BY <1>0, <2>1 DEF IInv, SessionOK, FlagIsTruthful, InBlock
  <2>3. RunsOK' /\ CountOK' /\ WrittenOK'
    BY <1>0, <2>1, OutOfBlock DEF IInv, InBlock
  <2> QED
    BY <2>1, <2>2, <2>3, DurableGrows DEF IInv
<1> QED
  BY <1>1, <1>2

LEMMA NotFetchedOK ==
    ASSUME IInv, NotFetched
    PROVE  IInv'
<1>0. /\ pc = "emit" /\ pc' = "rollback"
      /\ attempt' = attempt /\ event' = event /\ running' = running
      /\ client' = client /\ instanceConnected' = instanceConnected
      /\ tx' = tx /\ pending' = pending /\ durable' = durable
  BY DEF NotFetched, sessionVars, clientVars, serverVars
<1>1. SessionOK'
  BY <1>0 DEF IInv, SessionOK, FlagIsTruthful, InBlock
<1>2. RunsOK' /\ CountOK' /\ WrittenOK'
  BY <1>0, NoBlockRow, OutOfBlock DEF IInv, RunsOK, InBlock
<1> QED
  BY <1>0, <1>1, <1>2, DurableGrows DEF IInv

LEMMA EmitOK ==
    ASSUME IInv, Emit
    PROVE  IInv'
<1>0. /\ pc = "emit" /\ InBlock /\ event <= Len(Listens) /\ answered' = 0
      /\ attempt' = attempt /\ height' = height
      /\ client' = client /\ instanceConnected' = instanceConnected
      /\ tx' = tx /\ pending' = pending /\ durable' = durable
  BY DEF Emit, InBlock, sessionVars, clientVars, serverVars
<1>1. event \in DOMAIN Listens /\ event \in Nat \ {0} /\ attempt \in Nat
  BY <1>0, ListensFacts DEF IInv, RunsOK
<1>2. \A w \in running : w.attempt # attempt /\ ~IsBlockRow(w)
  BY <1>0 DEF IInv, RunsOK
<1>3. /\ tx = "open" => \A e \in 1 .. event - 1 : \A l \in Listens[e] : Write(e, l) \in pending
      /\ tx = "open" => \A w \in pending : IsBlockRow(w) => w.height = height
  BY <1>0 DEF IInv, WrittenOK
<1>4. \A e, l : Write(e, l)' = Write(e, l)
  BY <1>0 DEF Write
<1>5. CASE Listens[event] = {}
  <2>1. event' = event + 1 /\ pc' = pc /\ running' = running
    BY <1>5 DEF Emit
  <2>2. SessionOK'
    BY <1>0, <2>1 DEF IInv, SessionOK, FlagIsTruthful, InBlock
  <2>3. RunsOK' /\ CountOK'
    BY <1>0, <1>1, <1>2, <2>1 DEF IInv, RunsOK, CountOK, IsBlockRow
  <2>4. WrittenOK'
    BY <1>0, <1>1, <1>3, <1>4, <1>5, <2>1 DEF WrittenOK, IsBlockRow
  <2> QED
    BY <1>0, <2>2, <2>3, <2>4, DurableGrows DEF IInv
<1>6. CASE Listens[event] # {}
  <2>1. /\ event' = event /\ pc' = "await"
        /\ running' = running \cup {Run(l) : l \in Listens[event]}
    BY <1>6 DEF Emit
  <2>2. \A l : Run(l)' = Run(l)
    BY <1>0, <2>1 DEF Run
  <2>3. SessionOK'
    BY <1>0, <2>1 DEF IInv, SessionOK, FlagIsTruthful, InBlock
  <2>4. RunsOK'
    <3>1. SUFFICES ASSUME NEW w \in running'
                   PROVE  /\ w.attempt \in Nat /\ w.attempt <= attempt'
                          /\ w.attempt = attempt' =>
                                w = Run(w.listener) /\ w.listener \in Listens[event]
                          /\ IsBlockRow(w) => w.attempt = attempt'
      BY <1>0, <1>1, <2>1, <2>2 DEF RunsOK, IsBlockRow
    <3>2. CASE w \in running
      BY <1>0, <1>2, <3>2 DEF IInv, RunsOK
    <3>3. ASSUME NEW l \in Listens[event], w = Run(l)
          PROVE  w.attempt = attempt /\ w.listener = l
      BY <3>3 DEF Run
    <3> QED
      BY <1>0, <1>1, <2>1, <3>2, <3>3
  <2>5. CountOK'
    <3>1. Working' = Listens[event]
      BY <2>1, <2>2 DEF Working
    <3>2. Cardinality(Listens[event]) \in Nat
      BY <1>1, ListensFacts, FS_CardinalityType
    <3> QED
      BY <1>0, <2>1, <3>1, <3>2 DEF CountOK
  <2>6. WrittenOK'
    BY <1>0, <1>3, <1>4, <2>1, <2>2 DEF WrittenOK, IsBlockRow
  <2> QED
    BY <1>0, <2>3, <2>4, <2>5, <2>6, DurableGrows DEF IInv
<1> QED
  BY <1>5, <1>6

LEMMA AllEmittedOK ==
    ASSUME IInv, AllEmitted
    PROVE  IInv'
<1>0. /\ pc = "emit" /\ pc' = "commit" /\ InBlock /\ event > Len(Listens)
      /\ attempt' = attempt /\ height' = height /\ event' = event /\ running' = running
      /\ client' = client /\ instanceConnected' = instanceConnected
      /\ tx' = tx /\ pending' = pending /\ durable' = durable
  BY DEF AllEmitted, InBlock, sessionVars, clientVars, serverVars
<1>1. SessionOK'
  BY <1>0 DEF IInv, SessionOK, FlagIsTruthful, InBlock
<1>2. RunsOK' /\ CountOK'
  BY <1>0 DEF IInv, RunsOK, CountOK, IsBlockRow
<1>3. WrittenOK'
  BY <1>0 DEF IInv, WrittenOK, Write, IsBlockRow
<1> QED
  BY <1>0, <1>1, <1>2, <1>3, DurableGrows DEF IInv

LEMMA CommitBlockOK ==
    ASSUME IInv, CommitBlock
    PROVE  IInv'
<1>0. /\ pc = "commit" /\ CommitTransaction /\ Recycle(clientReuse + 1)
      /\ pc' \in {"begin", "done", "start"}
      /\ attempt' = attempt /\ event' = event /\ running' = running
  BY DEF CommitBlock, NextRound
<1>1. ClientOK'
  BY <1>0, ClientFacts DEF IInv, SessionOK, FlagIsTruthful
<1>2. SessionOK'
  BY <1>0, <1>1 DEF CommitTransaction, SessionOK, FlagIsTruthful, InBlock, ClientOK
<1>3. RunsOK' /\ CountOK' /\ WrittenOK'
  BY <1>0, NoBlockRow, OutOfBlock DEF IInv, RunsOK, InBlock
<1> QED
  BY <1>0, <1>2, <1>3, CommitKeepsComplete DEF IInv

LEMMA CommitFailsOK ==
    ASSUME IInv, CommitFails
    PROVE  IInv'
<1>0. /\ pc = "commit" /\ attempt' = attempt /\ event' = event
      /\ pc' \in {"rollback", "dead"} /\ running' \in {running, {}}
  BY DEF CommitFails
<1>1. RunsOK' /\ CountOK' /\ WrittenOK'
  BY <1>0, NoBlockRow, OutOfBlock DEF IInv, RunsOK, InBlock
<1>2. SessionOK /\ (instanceConnected <=> client.open)
  BY <1>0 DEF IInv, SessionOK, FlagIsTruthful
<1>3. CASE ~client.open /\ UNCHANGED serverVars /\ Recycle(clientReuse)
  <2>1. ClientOK'
    BY <1>2, <1>3, ClientFacts DEF SessionOK
  <2>2. tx' = tx /\ pending' = pending /\ durable' = durable /\ tx = "none"
    BY <1>2, <1>3 DEF serverVars, SessionOK
  <2>3. SessionOK'
    BY <1>0, <1>2, <2>1, <2>2 DEF SessionOK, FlagIsTruthful, InBlock, ClientOK
  <2> QED
    BY <1>1, <2>2, <2>3, DurableGrows DEF IInv
<1>4. CASE CommitTransaction /\ RecycleFails(clientReuse + 1)
  <2>1. ClientOK'
    BY <1>2, <1>4, ClientFacts DEF SessionOK
  <2>2. SessionOK'
    BY <1>0, <1>4, <2>1 DEF CommitTransaction, SessionOK, FlagIsTruthful, InBlock, ClientOK
  <2> QED
    BY <1>0, <1>1, <1>4, <2>2, CommitKeepsComplete DEF IInv
<1>5. CASE /\ LoseConnection
           /\ CommitTransaction \/ DropTransaction
           /\ client.watched \/ pc' = "dead"
  <2>1. /\ client' \in [open : BOOLEAN, watched : BOOLEAN] /\ instanceConnected' \in BOOLEAN
        /\ client.watched => ClientOK'
    BY <1>2, <1>5, ClientFacts DEF SessionOK
  <2>2. tx' = "none" /\ pending' = {}
    BY <1>5 DEF CommitTransaction, DropTransaction
  <2>3. SessionOK'
    BY <1>0, <1>5, <2>1, <2>2 DEF SessionOK, FlagIsTruthful, InBlock, ClientOK
  <2>4. CommittedBlocksAreComplete'
    BY <1>0, <1>5, CommitKeepsComplete, DurableGrows DEF IInv, DropTransaction
  <2> QED
    BY <1>1, <2>3, <2>4 DEF IInv
<1> QED
  BY <1>3, <1>4, <1>5 DEF CommitFails

LEMMA RollBackOK ==
    ASSUME IInv, RollBack
    PROVE  IInv'
<1>0. /\ pc = "rollback" /\ pc' \in {"start", "fatal"} /\ DropTransaction
      /\ Recycle(clientReuse) \/ RecycleFails(clientReuse)
      /\ attempt' = attempt /\ event' = event /\ running' = running
  BY DEF RollBack
<1>1. ClientOK'
  BY <1>0, ClientFacts DEF IInv, SessionOK, FlagIsTruthful
<1>2. SessionOK'
  BY <1>0, <1>1 DEF DropTransaction, SessionOK, FlagIsTruthful, InBlock, ClientOK
<1>3. RunsOK' /\ CountOK' /\ WrittenOK'
  BY <1>0, NoBlockRow, OutOfBlock DEF IInv, RunsOK, InBlock
<1> QED
  BY <1>0, <1>2, <1>3, DurableGrows DEF IInv, DropTransaction

LEMMA ConnectionLostOK ==
    ASSUME IInv, ConnectionLost
    PROVE  IInv'
<1>0. /\ pc # "dead" /\ LoseConnection
      /\ tx' = "none" /\ pending' = {} /\ durable' = durable
      /\ instanceConnected <=> client.open
  BY DEF ConnectionLost, Ended, DropTransaction, IInv, SessionOK, FlagIsTruthful
<1>1. /\ client' \in [open : BOOLEAN, watched : BOOLEAN] /\ instanceConnected' \in BOOLEAN
      /\ client.watched => ClientOK'
      /\ ~client'.open
  BY <1>0, ClientFacts DEF IInv, SessionOK
<1>2. CASE client.watched
  <2>1. /\ pc' = pc /\ height' = height /\ attempt' = attempt /\ event' = event
        /\ answered' = answered /\ running' = running
    BY <1>2 DEF ConnectionLost, loopVars
  <2>2. SessionOK'
    BY <1>0, <1>1, <1>2, <2>1 DEF SessionOK, FlagIsTruthful, InBlock, ClientOK
  <2>3. RunsOK'
    BY <2>1 DEF IInv, RunsOK, InBlock, Run, IsBlockRow
  <2>4. CountOK'
    <3>1. Working' = Working
      BY <2>1 DEF Working, Run
    <3> QED
      BY <2>1, <3>1 DEF IInv, CountOK
  <2>5. WrittenOK'
    BY <1>0 DEF WrittenOK
  <2> QED
    BY <1>0, <2>2, <2>3, <2>4, <2>5, DurableGrows DEF IInv
<1>3. CASE ~client.watched
  <2>1. pc' = "dead" /\ running' = {} /\ attempt' = attempt /\ event' = event
    BY <1>3 DEF ConnectionLost, Dies
  <2>2. SessionOK'
    BY <1>0, <1>1, <2>1 DEF SessionOK, FlagIsTruthful, InBlock
  <2>3. RunsOK' /\ CountOK' /\ WrittenOK'
    BY <2>1, OutOfBlock DEF IInv, RunsOK, InBlock
  <2> QED
    BY <1>0, <2>2, <2>3, DurableGrows DEF IInv
<1> QED
  BY <1>2, <1>3

LEMMA CrashOK ==
    ASSUME IInv, Crash
    PROVE  IInv'
<1>0. /\ pc' = "start" /\ running' = {} /\ attempt' = attempt /\ event' = event
      /\ ConnectedAtSetup /\ tx' = "none" /\ pending' = {} /\ durable' = durable
  BY DEF Crash, DropTransaction
<1>1. SessionOK'
  <2>1. ClientOK'
    BY <1>0, ClientFacts DEF IInv, SessionOK
  <2> QED
    BY <1>0, <2>1 DEF SessionOK, FlagIsTruthful, InBlock, ClientOK
<1>2. RunsOK' /\ CountOK' /\ WrittenOK'
  BY <1>0, OutOfBlock DEF IInv, RunsOK, InBlock
<1> QED
  BY <1>0, <1>1, <1>2, DurableGrows DEF IInv

-----------------------------------------------------------------------------
LEMMA InitOK == Init => IInv
<1>1. SUFFICES ASSUME Init
               PROVE  IInv
  OBVIOUS
<1>2. SessionOK
  BY <1>1 DEF Init, SessionInit, NewClient, SessionOK, FlagIsTruthful, InBlock
<1>3. RunsOK /\ CountOK /\ WrittenOK /\ CommittedBlocksAreComplete
  BY <1>1 DEF Init, SessionInit, RunsOK, CountOK, WrittenOK, InBlock,
              CommittedBlocksAreComplete, IndexedBlocks
<1> QED
  BY <1>2, <1>3 DEF IInv

LEMMA StepOK ==
    ASSUME IInv, [Next]_vars
    PROVE  IInv'
<1>1. CASE LoopStep
  BY <1>1, StartBlocksOK, StartFailsOK, BeginBlockOK, EmitOK, AllEmittedOK,
     CommitBlockOK, CommitFailsOK, RollBackOK DEF LoopStep
<1>2. ASSUME NEW w \in running, ListenerStep(w)
      PROVE  IInv'
  BY <1>2, WriteOK, QueryFailsOK, ListenerFailsOK DEF ListenerStep
<1>3. CASE ConnectionLost
  BY <1>3, ConnectionLostOK
<1>4. CASE Crash
  BY <1>4, CrashOK
<1>6. CASE NotFetched
  BY <1>6, NotFetchedOK
<1>5. CASE UNCHANGED vars
  <2>1. /\ UNCHANGED <<client, instanceConnected, clientReuse, tx, pending, durable>>
        /\ UNCHANGED <<pc, height, attempt, event, answered, running>>
    BY <1>5 DEF vars, sessionVars, clientVars, serverVars, loopVars
  <2>2. Working' = Working
    BY <2>1 DEF Working, Run
  <2>3. SessionOK' /\ RunsOK'
    BY <2>1 DEF IInv, SessionOK, FlagIsTruthful, RunsOK, InBlock, Run, IsBlockRow
  <2>4. CountOK' /\ WrittenOK'
    BY <2>1, <2>2 DEF IInv, CountOK, WrittenOK, InBlock, Run, Write, IsBlockRow
  <2> QED
    BY <2>1, <2>3, <2>4, DurableGrows DEF IInv
<1> QED
  BY <1>1, <1>2, <1>3, <1>4, <1>5, <1>6 DEF Next

LEMMA Invariance == SafetySpec => []IInv
BY InitOK, StepOK, PTL DEF SafetySpec

\* A block that is in the database is there with everything its listeners store,
\* whoever fails, is left behind, or swallows an error, and whenever the connection
\* or the process is lost.
THEOREM BlocksAreWhole == SafetySpec => []CommittedBlocksAreComplete
<1>1. IInv => CommittedBlocksAreComplete
  BY DEF IInv
<1> QED
  BY <1>1, Invariance, PTL

\* What the listeners of an event find in the transaction includes all that those
\* of the events before it store.
THEOREM EventsAreInOrder == SafetySpec => []EventsInOrder
<1>1. ASSUME IInv
      PROVE  EventsInOrder
  <2>1. SUFFICES ASSUME NEW w \in running, NEW e \in 1 .. w.event - 1,
                        NEW l \in Listens[e], Awaited(w), tx = "open"
                 PROVE  \E u \in pending : /\ u.height = w.height /\ u.attempt = w.attempt
                                          /\ u.event = e /\ u.listener = l
    BY DEF EventsInOrder
  <2>2. pc = "await" /\ InBlock /\ w = Run(w.listener)
    BY <1>1, <2>1 DEF IInv, RunsOK, Awaited, InBlock
  <2>3. w.event = event /\ w.height = height /\ w.attempt = attempt
    BY <2>2 DEF Run
  <2>4. /\ Write(e, l).height = height /\ Write(e, l).attempt = attempt
        /\ Write(e, l).event = e /\ Write(e, l).listener = l
    BY DEF Write
  <2> QED
    BY <1>1, <2>1, <2>2, <2>3, <2>4 DEF IInv, WrittenOK
<1> QED
  BY <1>1, Invariance, PTL

\* As long as the process lives, the flag instanceConnected tells whether the
\* client is connected, through every replacement of the client.
THEOREM FlagTellsTheTruth == SafetySpec => []FlagIsTruthful
<1>1. IInv => FlagIsTruthful
  BY DEF IInv, SessionOK
<1> QED
  BY <1>1, Invariance, PTL

-----------------------------------------------------------------------------
(***************************************************************************)
(* Types.  An attempt is numbered without a bound; everything else stays   *)
(* where the chain, the events and the faults put it.                      *)
(***************************************************************************)
AtBlock == InBlock \/ pc = "begin"

\* A client that could not be recycled counts on, once for a fault.
ReuseOK ==
    /\ faults \in 0 .. MaxFaults
    /\ clientReuse \in Nat /\ clientReuse <= RecycleCount + faults

\* Each fault is counted once by whoever meets it, besides by the loop, which counts
\* below the limit.
RetryOK ==
    /\ retryCount \in Nat /\ retryCount <= MaxRetries + faults
    /\ pc # "fatal" => retryCount < MaxRetries + faults

LoopOK ==
    /\ pc \in {"start", "begin", "emit", "await", "commit", "rollback", "done", "fatal", "dead"}
    /\ height \in 0 .. LastBlock + 1
    /\ AtBlock => height \in 1 .. LastBlock
    /\ event \in 1 .. Len(Listens) + 1
    /\ answered \in Nat
    /\ \E e \in DOMAIN Listens : answered <= Cardinality(Listens[e])

WritesOK == running \cup pending \cup durable \subseteq Writes

BoundsOK == ReuseOK /\ LoopOK /\ WritesOK

LEMMA ConstantFacts ==
    /\ LastBlock \in Nat /\ LastBlock >= 1
    /\ MaxFaults \in Nat /\ RecycleCount \in Nat /\ RecycleCount >= 1
BY ListensAssumption, RecycleAssumption DEF ListensAssumption, RecycleAssumption

\* getNextHeight() answers the successor of the last block in the database.
LEMMA NextHeightFacts ==
    ASSUME WritesOK, NEW n, n = IF IndexedBlocks = {} THEN 1 ELSE Max(IndexedBlocks) + 1
    PROVE  /\ IndexedBlocks \subseteq 1 .. LastBlock
           /\ n \in 1 .. LastBlock + 1
           /\ \A h \in IndexedBlocks : h < n
           /\ IndexedBlocks # {} => n - 1 \in IndexedBlocks
<1>1. IndexedBlocks \subseteq 1 .. LastBlock
  BY DEF IndexedBlocks, WritesOK, Writes
<1>2. CASE IndexedBlocks = {}
  BY <1>1, <1>2, ConstantFacts
<1>3. CASE IndexedBlocks # {}
  <2>1. IndexedBlocks \in SUBSET Nat /\ LastBlock \in Nat /\ \A h \in IndexedBlocks : h <= LastBlock
    BY <1>1, ConstantFacts
  <2>2. PICK m : m = Max(IndexedBlocks)
    OBVIOUS
  <2>3. m \in IndexedBlocks /\ \A h \in IndexedBlocks : h <= m
    BY <1>3, <2>1, <2>2, MaxOfBounded
  <2>4. m \in 1 .. LastBlock /\ n = m + 1
    BY <1>1, <1>3, <2>2, <2>3
  <2> QED
    BY <1>1, <1>3, <2>1, <2>3, <2>4, ConstantFacts
<1> QED
  BY <1>2, <1>3

\* The session's own steps keep the count of the client within its bounds.
LEMMA ReuseFacts ==
    ASSUME ReuseOK
    PROVE  /\ UNCHANGED faults /\ clientReuse' = clientReuse => ReuseOK'
           /\ Fault => faults' \in 0 .. MaxFaults /\ faults' = faults + 1
           /\ Fault /\ clientReuse' \in {0, clientReuse} => ReuseOK'
           /\ UNCHANGED faults /\ Recycle(clientReuse) => ReuseOK'
           /\ UNCHANGED faults /\ Recycle(clientReuse + 1) => ReuseOK'
           /\ Fault /\ RecycleFails(clientReuse) => ReuseOK'
           /\ Fault /\ RecycleFails(clientReuse + 1) => ReuseOK'
<1>1. faults \in Nat /\ faults <= MaxFaults /\ MaxFaults \in Nat /\ RecycleCount \in Nat
  BY ConstantFacts DEF ReuseOK
<1>2. Fault => faults' \in 0 .. MaxFaults /\ faults' = faults + 1
  BY <1>1 DEF Fault
<1>3. UNCHANGED faults /\ clientReuse' = clientReuse => ReuseOK'
  BY DEF ReuseOK
<1>4. Fault /\ clientReuse' \in {0, clientReuse} => ReuseOK'
  BY <1>1, <1>2 DEF ReuseOK
<1>5. ASSUME NEW n \in {clientReuse, clientReuse + 1}, UNCHANGED faults, Recycle(n)
      PROVE  ReuseOK'
  <2>1. CASE n >= RecycleCount
    BY <1>1, <1>5, <2>1 DEF ReuseOK, Recycle
  <2>2. CASE ~(n >= RecycleCount)
    <3>1. n \in Nat /\ clientReuse' = n /\ n < RecycleCount
      BY <1>1, <1>5, <2>2 DEF ReuseOK, Recycle
    <3> QED
      BY <1>1, <1>5, <3>1 DEF ReuseOK
  <2> QED
    BY <2>1, <2>2
<1>6. Fault /\ RecycleFails(clientReuse) => ReuseOK'
  BY <1>1, <1>2 DEF ReuseOK, RecycleFails
<1>7. Fault /\ RecycleFails(clientReuse + 1) => ReuseOK'
  BY <1>1, <1>2 DEF ReuseOK, RecycleFails
<1> QED
  BY <1>2, <1>3, <1>4, <1>5, <1>6, <1>7

\* An answer is counted up to the number of listeners of its event.
LEMMA AnswerKeepsBounds ==
    ASSUME IInv, LoopOK, NEW w \in running, NEW ok \in BOOLEAN, Answer(w, ok)
    PROVE  LoopOK'
<1>1. height' = height
  BY DEF Answer
<1>2. CASE ~Awaited(w)
  BY <1>1, <1>2 DEF Answer, LoopOK, AtBlock, InBlock
<1>3. CASE Awaited(w)
  <2>1. /\ event \in DOMAIN Listens /\ Cardinality(Listens[event]) \in Nat
        /\ Cardinality(Working) \in Nat
    BY <1>3, AwaitedRun DEF IInv
  <2>2. /\ pc = "await" /\ answered \in Nat
        /\ answered + Cardinality(Working) = Cardinality(Listens[event])
    BY <1>3 DEF Awaited, IInv, CountOK
  <2>3. height \in 1 .. LastBlock
    BY <2>2 DEF LoopOK, AtBlock, InBlock
  <2>4. Cardinality(Working) # 0
    <3>1. IsFiniteSet(Working) /\ w.listener \in Working
      BY <1>3, AwaitedRun DEF IInv
    <3> QED
      BY <3>1, FS_EmptySet
  <2>5. answered + 1 <= Cardinality(Listens[event])
    BY <2>1, <2>2, <2>4
  <2>6. CASE ~ok
    BY <1>1, <1>3, <2>6 DEF Answer, LoopOK, AtBlock, InBlock
  <2>7. CASE ok /\ answered + 1 = Cardinality(Listens[event])
    <3>1. pc' = "emit" /\ event' = event + 1 /\ answered' = answered
      BY <1>3, <2>7 DEF Answer
    <3>2. event' \in 1 .. Len(Listens) + 1
      BY <2>1, <3>1, ListensFacts
    <3> QED
      BY <1>1, <2>3, <3>1, <3>2 DEF LoopOK
  <2>8. CASE ok /\ answered + 1 # Cardinality(Listens[event])
    <3>1. pc' = "await" /\ event' = event /\ answered' = answered + 1
      BY <1>3, <2>2, <2>8 DEF Answer
    <3>2. answered' \in Nat /\ \E e \in DOMAIN Listens : answered' <= Cardinality(Listens[e])
      BY <2>1, <2>2, <2>5, <3>1
    <3> QED
      BY <1>1, <2>3, <3>1, <3>2 DEF LoopOK
  <2> QED
    BY <2>6, <2>7, <2>8
<1> QED
  BY <1>2, <1>3

\* Transactions only move writes from one place to the other.
LEMMA WritesMove ==
    ASSUME WritesOK, running' \subseteq running,
           \/ pending' \in {pending, {}} /\ durable' = durable
           \/ CommitTransaction \/ DropTransaction
    PROVE  WritesOK'
BY DEF WritesOK, CommitTransaction, DropTransaction, Writes

LEMMA BoundsStepOK ==
    ASSUME IInv, BoundsOK, [Next]_vars
    PROVE  BoundsOK'
<1>0. ReuseOK /\ LoopOK /\ WritesOK
  BY DEF BoundsOK
<1>1. CASE StartBlocks
  <2>1. /\ pc' \in {"begin", "done"} /\ event' = event /\ answered' = answered
        /\ running' = running /\ pending' = pending /\ durable' = durable
        /\ clientReuse' = clientReuse /\ UNCHANGED faults
        /\ height' = IF IndexedBlocks = {} THEN 1 ELSE Max(IndexedBlocks) + 1
        /\ pc' = "begin" => height' <= LastBlock
    BY <1>1 DEF StartBlocks, Reconnect, serverVars
  <2>2. height' \in 1 .. LastBlock + 1
    BY <1>0, <2>1, NextHeightFacts
  <2>3. LoopOK'
    BY <1>0, <2>1, <2>2, ConstantFacts DEF LoopOK, AtBlock, InBlock
  <2> QED
    BY <1>0, <2>1, <2>3, ReuseFacts, WritesMove DEF BoundsOK
<1>2. CASE StartFails
  <2>1. /\ pc' = "dead" /\ height' = height /\ event' = event /\ answered' = answered
        /\ running' = {} /\ pending' = pending /\ durable' = durable
        /\ clientReuse' = clientReuse /\ Fault
    BY <1>2 DEF StartFails, Dies, sessionVars, clientVars, serverVars
  <2> QED
    BY <1>0, <2>1, ReuseFacts, WritesMove DEF BoundsOK, LoopOK, AtBlock, InBlock
<1>3. CASE BeginBlock
  <2>1. /\ pc = "begin" /\ pc' \in {"emit", "rollback"}
        /\ height' = height /\ event' = 1 /\ answered' = answered
        /\ running' = running /\ pending' = pending /\ durable' = durable
        /\ clientReuse' = clientReuse /\ UNCHANGED faults
    BY <1>3 DEF BeginBlock, BeginTransaction, sessionVars, clientVars, serverVars
  <2>2. LoopOK'
    BY <1>0, <2>1, ListensFacts DEF LoopOK, AtBlock, InBlock
  <2> QED
    BY <1>0, <2>1, <2>2, ReuseFacts, WritesMove DEF BoundsOK
<1>4. CASE Emit
  <2>1. /\ pc = "emit" /\ pc' \in {"emit", "await"} /\ event <= Len(Listens)
        /\ height' = height /\ event' \in {event, event + 1} /\ answered' = 0
        /\ running' \subseteq running \cup {Run(l) : l \in Listens[event]}
        /\ pending' = pending /\ durable' = durable
        /\ clientReuse' = clientReuse /\ UNCHANGED faults
    BY <1>4 DEF Emit, sessionVars, clientVars, serverVars
  <2>2. event \in DOMAIN Listens /\ height \in 1 .. LastBlock /\ attempt \in Nat
    BY <1>0, <2>1, ListensFacts DEF LoopOK, AtBlock, InBlock, IInv, RunsOK
  <2>3. Cardinality(Listens[event]) \in Nat
    BY <2>2, ListensFacts, FS_CardinalityType
  <2>4. LoopOK'
    BY <1>0, <2>1, <2>2, <2>3, ListensFacts DEF LoopOK
  <2>5. \A l \in Listens[event] : Run(l) \in Writes
    BY <2>2 DEF Run, Writes
  <2>6. WritesOK'
    BY <1>0, <2>1, <2>5 DEF WritesOK, Writes
  <2> QED
    BY <1>0, <2>1, <2>4, <2>6, ReuseFacts DEF BoundsOK
<1>5. CASE AllEmitted
  <2>1. /\ pc = "emit" /\ pc' = "commit"
        /\ height' = height /\ event' = event /\ answered' = answered
        /\ running' = running /\ pending' = pending /\ durable' = durable
        /\ clientReuse' = clientReuse /\ UNCHANGED faults
    BY <1>5 DEF AllEmitted, sessionVars, clientVars, serverVars
  <2> QED
    BY <1>0, <2>1, ReuseFacts, WritesMove DEF BoundsOK, LoopOK, AtBlock, InBlock
<1>6. CASE CommitBlock
  <2>1. /\ pc = "commit" /\ event' = event /\ answered' = answered
        /\ running' = running /\ CommitTransaction
        /\ Recycle(clientReuse + 1) /\ UNCHANGED faults
        /\ height' = height + 1 /\ pc' \in {"begin", "done", "start"}
        /\ pc' = "begin" => height < LastBlock
    BY <1>6 DEF CommitBlock, NextRound
  <2>2. height \in 1 .. LastBlock
    BY <1>0, <2>1 DEF LoopOK, AtBlock, InBlock
  <2>3. LoopOK'
    BY <1>0, <2>1, <2>2, ConstantFacts DEF LoopOK, AtBlock, InBlock
  <2> QED
    BY <1>0, <2>1, <2>3, ReuseFacts, WritesMove DEF BoundsOK
<1>7. CASE CommitFails
  <2>1. /\ height' = height /\ event' = event /\ answered' = answered
        /\ pc' \in {"rollback", "dead"} /\ running' \in {running, {}}
    BY <1>7 DEF CommitFails
  <2>2. \/ UNCHANGED serverVars /\ UNCHANGED faults /\ Recycle(clientReuse)
        \/ CommitTransaction /\ Fault /\ RecycleFails(clientReuse + 1)
        \/ (CommitTransaction \/ DropTransaction) /\ Fault /\ LoseConnection
    BY <1>7 DEF CommitFails
  <2>3. LoopOK'
    BY <1>0, <2>1 DEF LoopOK, AtBlock, InBlock
  <2>4. ReuseOK' /\ WritesOK'
    BY <1>0, <2>1, <2>2, ReuseFacts, WritesMove DEF serverVars, LoseConnection
  <2> QED
    BY <2>3, <2>4 DEF BoundsOK
<1>8. CASE RollBack
  <2>1. /\ pc' \in {"start", "fatal"} /\ height' = height /\ event' = event /\ answered' = answered
        /\ running' = running /\ DropTransaction
        /\ \/ UNCHANGED faults /\ Recycle(clientReuse)
           \/ Fault /\ RecycleFails(clientReuse)
    BY <1>8 DEF RollBack
  <2>2. LoopOK'
    BY <1>0, <2>1 DEF LoopOK, AtBlock, InBlock
  <2>3. ReuseOK' /\ WritesOK'
    BY <1>0, <2>1, ReuseFacts, WritesMove
  <2> QED
    BY <2>2, <2>3 DEF BoundsOK
<1>9. ASSUME NEW w \in running, ListenerStep(w)
      PROVE  BoundsOK'
  <2>1. PICK ok \in BOOLEAN : Answer(w, ok)
    <3>1. \/ Answer(w, TRUE) \/ Answer(w, FALSE)
          \/ Answer(w, w.listener \in Swallows)
      BY <1>9 DEF ListenerStep, ListenerWrites, QueryFails, ListenerFails
    <3>2. (w.listener \in Swallows) \in BOOLEAN
      OBVIOUS
    <3> QED
      BY <3>1, <3>2
  <2>2. /\ UNCHANGED clientReuse /\ (UNCHANGED faults \/ Fault)
        /\ pending' \cup durable' \subseteq pending \cup durable \cup {w}
    BY <1>9 DEF ListenerStep, ListenerWrites, Stores, QueryFails, Refuses, Aborts,
                ListenerFails, sessionVars, clientVars, serverVars
  <2>3. WritesOK'
    BY <1>0, <2>1, <2>2 DEF Answer, WritesOK, Writes
  <2> QED
    BY <1>0, <2>1, <2>2, <2>3, AnswerKeepsBounds, ReuseFacts DEF BoundsOK
<1>10. CASE ConnectionLost
  <2>1. /\ Fault /\ clientReuse' = clientReuse /\ DropTransaction
        /\ height' = height /\ event' = event /\ answered' = answered
        /\ pc' \in {pc, "dead"} /\ running' \in {running, {}}
    BY <1>10 DEF ConnectionLost, LoseConnection, Dies, loopVars
  <2>2. LoopOK'
    BY <1>0, <2>1 DEF LoopOK, AtBlock, InBlock
  <2> QED
    BY <1>0, <2>1, <2>2, ReuseFacts, WritesMove DEF BoundsOK
<1>11. CASE Crash
  <2>1. /\ Fault /\ clientReuse' = 0 /\ DropTransaction
        /\ height' = height /\ event' = event /\ answered' = answered
        /\ pc' = "start" /\ running' = {}
    BY <1>11 DEF Crash, ConnectedAtSetup
  <2>2. LoopOK'
    BY <1>0, <2>1 DEF LoopOK, AtBlock, InBlock
  <2> QED
    BY <1>0, <2>1, <2>2, ReuseFacts, WritesMove DEF BoundsOK
<1>12. CASE NotFetched
  <2>1. /\ Fault /\ pc' = "rollback" /\ clientReuse' = clientReuse
        /\ height' = height /\ event' = event /\ answered' = answered
        /\ running' = running /\ pending' = pending /\ durable' = durable
    BY <1>12 DEF NotFetched, sessionVars, clientVars, serverVars
  <2>2. LoopOK'
    BY <1>0, <2>1 DEF LoopOK, AtBlock, InBlock
  <2> QED
    BY <1>0, <2>1, <2>2, ReuseFacts, WritesMove DEF BoundsOK
<1>13. CASE UNCHANGED vars
  BY <1>13 DEF vars, sessionVars, clientVars, serverVars, loopVars,
               BoundsOK, ReuseOK, LoopOK, WritesOK, AtBlock, InBlock, Writes
<1> QED
  BY <1>1, <1>2, <1>3, <1>4, <1>5, <1>6, <1>7, <1>8, <1>9, <1>10, <1>11, <1>12, <1>13
     DEF Next, LoopStep

\* A count that grows with the faults stays as far from them as it is.
LEMMA CountsWithFaults ==
    ASSUME NEW f \in Nat, NEW g, g = f \/ g = f + 1,
           NEW r \in Nat, NEW q, q = 0 \/ q = r \/ (q = r + 1 /\ g = f + 1)
    PROVE  /\ q \in Nat
           /\ r <= MaxRetries + f => q <= MaxRetries + g
           /\ r < MaxRetries + f => q < MaxRetries + g
           /\ r < MaxRetries + f => r + 1 <= MaxRetries + g
           /\ r + 1 < MaxRetries => r + 1 < MaxRetries + g
<1>1. CASE q = 0
  BY <1>1 DEF MaxRetries
<1>2. CASE q # 0
  BY <1>2 DEF MaxRetries
<1> QED
  BY <1>1, <1>2

\* Only faults are counted besides the failures of the loop.
LEMMA RetryStepOK ==
    ASSUME ReuseOK, RetryOK, [Next]_vars
    PROVE  RetryOK'
<1>0. faults \in Nat /\ retryCount \in Nat
  BY ConstantFacts DEF ReuseOK, RetryOK
<1>1. ASSUME faults' = faults \/ faults' = faults + 1,
             \/ retryCount' = 0 \/ retryCount' = retryCount
             \/ retryCount' = retryCount + 1 /\ faults' = faults + 1,
             pc = "fatal" => pc' = "fatal"
      PROVE  RetryOK'
  <2>1. /\ retryCount' \in Nat
        /\ retryCount <= MaxRetries + faults => retryCount' <= MaxRetries + faults'
        /\ retryCount < MaxRetries + faults => retryCount' < MaxRetries + faults'
    BY <1>0, <1>1, CountsWithFaults
  <2> QED
    BY <1>1, <2>1 DEF RetryOK
<1>2. CASE StartBlocks \/ StartFails \/ BeginBlock \/ Emit \/ AllEmitted \/ CommitBlock
           \/ CommitFails
  <2>1. /\ faults' = faults \/ faults' = faults + 1
        /\ retryCount' = 0 \/ retryCount' = retryCount
    BY <1>2 DEF StartBlocks, StartFails, Dies, BeginBlock, Emit, AllEmitted, CommitBlock,
                CommitFails, Fault
  <2>2. pc # "fatal"
    BY <1>2 DEF StartBlocks, StartFails, Dies, BeginBlock, Emit, AllEmitted, CommitBlock,
                CommitFails
  <2> QED
    BY <1>1, <2>1, <2>2
<1>3. CASE RollBack
  <2>1. /\ pc # "fatal" /\ retryCount' = retryCount + 1
        /\ faults' = faults \/ faults' = faults + 1
        /\ pc' # "fatal" => retryCount + 1 < MaxRetries
    BY <1>3 DEF RollBack, Fault
  <2>2. /\ retryCount < MaxRetries + faults => retryCount + 1 <= MaxRetries + faults'
        /\ retryCount + 1 < MaxRetries => retryCount + 1 < MaxRetries + faults'
    BY <1>0, <2>1, CountsWithFaults
  <2> QED
    BY <1>0, <2>1, <2>2 DEF RetryOK
<1>4. ASSUME NEW w \in running, ListenerStep(w)
      PROVE  RetryOK'
  <2>1. pc = "fatal" => pc' = "fatal"
    BY <1>4 DEF ListenerStep, ListenerWrites, QueryFails, ListenerFails, Answer, Awaited
  <2>2. \/ retryCount' = retryCount /\ (faults' = faults \/ faults' = faults + 1)
        \/ retryCount' = retryCount + 1 /\ faults' = faults + 1
    BY <1>4 DEF ListenerStep, ListenerWrites, QueryFails, ListenerFails, Fault
  <2> QED
    BY <1>1, <2>1, <2>2
<1>5. CASE NotFetched
  BY <1>1, <1>5 DEF NotFetched, Fault
<1>6. CASE ConnectionLost \/ Crash
  BY <1>1, <1>6 DEF ConnectionLost, Dies, loopVars, Crash, Ended, Fault
<1>7. CASE UNCHANGED vars
  BY <1>1, <1>7 DEF vars, loopVars
<1> QED
  BY <1>2, <1>3, <1>4, <1>5, <1>6, <1>7 DEF Next, LoopStep

LEMMA BoundsInitOK == Init => BoundsOK
<1>1. SUFFICES ASSUME Init
               PROVE  BoundsOK
  OBVIOUS
<1>2. 1 \in DOMAIN Listens /\ Cardinality(Listens[1]) \in Nat
  <2>1. 1 \in DOMAIN Listens
    BY ListensFacts
  <2>2. IsFiniteSet(Listens[1])
    BY <2>1, ListensFacts
  <2> QED
    BY <2>1, <2>2, FS_CardinalityType
<1>3. ReuseOK /\ WritesOK
  <2>1. faults = 0 /\ clientReuse = 0 /\ running = {} /\ pending = {} /\ durable = {}
    BY <1>1 DEF Init, SessionInit
  <2> QED
    BY <2>1, ConstantFacts DEF ReuseOK, WritesOK
<1>4. LoopOK
  <2>1. pc = "start" /\ height = 0 /\ event = 1 /\ answered = 0
    BY <1>1 DEF Init
  <2>2. \E e \in DOMAIN Listens : answered <= Cardinality(Listens[e])
    BY <1>2, <2>1
  <2>3. height \in 0 .. LastBlock + 1 /\ event \in 1 .. Len(Listens) + 1
    BY <2>1, ConstantFacts, ListensFacts
  <2> QED
    BY <2>1, <2>2, <2>3 DEF LoopOK, AtBlock, InBlock
<1> QED
  BY <1>3, <1>4 DEF BoundsOK

LEMMA BoundsInvariance == SafetySpec => [](IInv /\ BoundsOK /\ RetryOK)
<1>1. Init => IInv /\ BoundsOK /\ RetryOK
  BY InitOK, BoundsInitOK DEF Init, RetryOK, MaxRetries
<1>2. IInv /\ BoundsOK /\ RetryOK /\ [Next]_vars => (IInv /\ BoundsOK /\ RetryOK)'
  BY StepOK, BoundsStepOK, RetryStepOK DEF BoundsOK
<1> QED
  BY <1>1, <1>2, PTL DEF SafetySpec

\* The largest number of listeners an event has.
LEMMA MostListeners ==
    LET Counts == {Cardinality(Listens[e]) : e \in DOMAIN Listens}
    IN  Max(Counts) \in Nat /\ \A e \in DOMAIN Listens : Cardinality(Listens[e]) <= Max(Counts)
<1> DEFINE Counts == {Cardinality(Listens[e]) : e \in DOMAIN Listens}
           f == [e \in DOMAIN Listens |-> Cardinality(Listens[e])]
<1>1. Counts \in SUBSET Nat /\ Counts # {}
  BY ListensFacts, FS_CardinalityType
<1>2. IsFiniteSet(Counts)
  <2>1. IsFiniteSet(DOMAIN Listens)
    BY ListensFacts, FS_Interval
  <2>2. f \in Surjection(DOMAIN Listens, Counts)
    BY DEF Surjection
  <2> QED
    BY <2>1, <2>2, FS_Surjection
<1>3. Max(Counts) \in Counts /\ \A x \in Counts : x <= Max(Counts)
  <2> HIDE DEF Counts
  <2> QED
    BY <1>1, <1>2, MaxIsGreatest
<1> QED
  BY <1>1, <1>3

\* No counter of the session or of the loop leaves its range: the client is recycled
\* when it is due but for the faults that prevent it, no more answers are counted
\* than an event has listeners, and no more retries than the limit and the faults.
THEOREM TypeCorrect == SafetySpec => []TransactionTypeOK
<1>1. ASSUME IInv, BoundsOK, RetryOK
      PROVE  TransactionTypeOK
  <2>1. SessionOK /\ attempt \in Nat /\ ReuseOK /\ LoopOK /\ WritesOK
    BY <1>1 DEF IInv, RunsOK, BoundsOK
  <2>2. clientReuse \in 0 .. RecycleCount + MaxFaults
    BY <2>1, ConstantFacts DEF ReuseOK
  <2>3. answered \in 0 .. Max({Cardinality(Listens[e]) : e \in DOMAIN Listens})
    <3>1. PICK e \in DOMAIN Listens : answered <= Cardinality(Listens[e])
      BY <2>1 DEF LoopOK
    <3>2. Cardinality(Listens[e]) \in Nat /\ answered \in Nat
      BY <2>1, ListensFacts, FS_CardinalityType DEF LoopOK
    <3>3. PICK m : m = Max({Cardinality(Listens[d]) : d \in DOMAIN Listens})
      OBVIOUS
    <3>4. m \in Nat /\ Cardinality(Listens[e]) <= m
      BY <3>3, MostListeners
    <3> QED
      BY <3>1, <3>2, <3>3, <3>4
  <2>4. retryCount \in 0 .. MaxRetries + MaxFaults
    BY <1>1, <2>1, ConstantFacts DEF ReuseOK, RetryOK, MaxRetries
  <2> QED
    BY <2>1, <2>2, <2>3, <2>4
       DEF SessionOK, ReuseOK, LoopOK, WritesOK, TransactionTypeOK
<1> QED
  BY <1>1, BoundsInvariance, PTL

-----------------------------------------------------------------------------
(***************************************************************************)
(* The blocks in the table lie below the block in work, and a listener     *)
(* never changes which blocks are there: a block row is written by the     *)
(* only listener of the first event, into the transaction of its block.    *)
(***************************************************************************)
Below == \A h \in IndexedBlocks : h < height

BelowOK == AtBlock => Below

LEMMA HeightFacts ==
    ASSUME IInv, BoundsOK
    PROVE  height \in Nat /\ IndexedBlocks \subseteq Nat /\ attempt \in Nat
BY ConstantFacts DEF IInv, RunsOK, BoundsOK, LoopOK, WritesOK, Writes, IndexedBlocks

LEMMA SameTable ==
    ASSUME durable' = durable
    PROVE  IndexedBlocks' = IndexedBlocks /\ (AppliedOnce <=> AppliedOnce')
BY DEF IndexedBlocks, IsBlockRow, AppliedOnce, Lingers

LEMMA ListenersKeepBlocks ==
    ASSUME IInv, NEW w \in running, ListenerStep(w)
    PROVE  IndexedBlocks' = IndexedBlocks /\ height' = height /\ (AtBlock' => AtBlock)
<1>1. height' = height /\ (AtBlock' => AtBlock)
  BY DEF ListenerStep, ListenerWrites, QueryFails, ListenerFails, Answer, Awaited,
         AtBlock, InBlock
<1>2. CASE QueryFails(w) \/ ListenerFails(w)
  BY <1>1, <1>2, SameTable DEF QueryFails, Refuses, Aborts, ListenerFails,
                               sessionVars, serverVars
<1>3. CASE ListenerWrites(w)
  <2>1. durable' = durable \/ (durable' = durable \cup {w} /\ tx # "open" /\ client.open)
    BY <1>3 DEF ListenerWrites, Stores
  <2>2. tx # "open" /\ client.open /\ Stores(w) => ~IsBlockRow(w)
    BY DEF Stores, IInv, SessionOK, RunsOK, InBlock
  <2> QED
    BY <1>1, <1>3, <2>1, <2>2, SameTable DEF ListenerWrites, IndexedBlocks, IsBlockRow
<1> QED
  BY <1>1, <1>2, <1>3 DEF ListenerStep

\* A COMMIT adds the block in work or none.
LEMMA CommitAddsBlock ==
    ASSUME IInv, pc = "commit", CommitTransaction
    PROVE  /\ tx = "open" => IndexedBlocks' = IndexedBlocks \cup {height}
           /\ tx # "open" => durable' = durable /\ IndexedBlocks' = IndexedBlocks
<1>1. CASE tx = "open"
  <2>1. durable' = durable \cup pending
    BY <1>1 DEF CommitTransaction
  <2>2. \A w \in pending : IsBlockRow(w) => w.height = height
    BY <1>1 DEF IInv, WrittenOK, InBlock
  <2>3. Write(1, BlockModule) \in pending
    <3>1. 1 \in 1 .. event - 1 /\ BlockModule \in Listens[1]
      BY ListensFacts DEF IInv, CountOK, RunsOK
    <3> QED
      BY <1>1, <3>1 DEF IInv, WrittenOK, InBlock
  <2>4. IsBlockRow(Write(1, BlockModule)) /\ Write(1, BlockModule).height = height
    BY DEF IsBlockRow, Write
  <2> QED
    BY <1>1, <2>1, <2>2, <2>3, <2>4 DEF IndexedBlocks, IsBlockRow
<1>2. CASE tx # "open"
  BY <1>2, SameTable DEF CommitTransaction
<1> QED
  BY <1>1, <1>2

\* Between two COMMITs nothing is added to the blocks in the table.
LEMMA QuietSteps ==
    ASSUME \/ StartFails \/ BeginBlock \/ NotFetched \/ Emit \/ AllEmitted
           \/ RollBack \/ ConnectionLost \/ Crash \/ UNCHANGED vars
    PROVE  /\ durable' = durable /\ height' = height
           /\ AtBlock' => AtBlock
           /\ pc # "begin" => pc' # "begin"
BY DEF StartFails, Dies, BeginBlock, BeginTransaction, NotFetched, Emit, AllEmitted, RollBack,
       ConnectionLost, Crash, DropTransaction, vars, loopVars, sessionVars, serverVars,
       AtBlock, InBlock

\* What begins a block.
LEMMA StartFacts ==
    ASSUME IInv, BoundsOK, StartBlocks
    PROVE  /\ durable' = durable /\ IndexedBlocks' = IndexedBlocks
           /\ Below' /\ height' - 1 \in IndexedBlocks' \cup {0}
<1>1. /\ durable' = durable
      /\ height' = IF IndexedBlocks = {} THEN 1 ELSE Max(IndexedBlocks) + 1
  BY DEF StartBlocks, Reconnect, serverVars
<1>2. IndexedBlocks' = IndexedBlocks
  BY <1>1, SameTable
<1>3. /\ \A h \in IndexedBlocks : h < height'
      /\ IndexedBlocks # {} => height' - 1 \in IndexedBlocks
  BY <1>1, NextHeightFacts DEF BoundsOK
<1>4. IndexedBlocks = {} => height' - 1 = 0
  BY <1>1
<1> QED
  BY <1>1, <1>2, <1>3, <1>4 DEF Below

LEMMA CommitFacts ==
    ASSUME IInv, BoundsOK, BelowOK, CommitBlock
    PROVE  /\ pc = "commit" /\ Below'
           /\ height' - 1 \in IndexedBlocks' \/ tx = "aborted"
<1>1. pc = "commit" /\ client.open /\ CommitTransaction /\ height' = height + 1
  BY DEF CommitBlock, NextRound
<1>2. /\ height \in Nat /\ IndexedBlocks \subseteq Nat
      /\ \A h \in IndexedBlocks : h < height
  BY <1>1, HeightFacts DEF BelowOK, Below, AtBlock, InBlock
<1>3. CASE tx = "open"
  <2>1. IndexedBlocks' = IndexedBlocks \cup {height}
    BY <1>1, <1>3, CommitAddsBlock
  <2>2. height' - 1 = height /\ \A h \in IndexedBlocks : h < height'
    BY <1>1, <1>2
  <2> QED
    BY <1>1, <1>2, <2>1, <2>2 DEF Below
<1>4. CASE tx # "open"
  <2>1. IndexedBlocks' = IndexedBlocks
    BY <1>1, <1>4, CommitAddsBlock
  <2>2. tx = "aborted"
    BY <1>1, <1>4 DEF IInv, SessionOK, InBlock
  <2>3. \A h \in IndexedBlocks : h < height'
    BY <1>1, <1>2
  <2> QED
    BY <1>1, <2>1, <2>2, <2>3 DEF Below
<1> QED
  BY <1>3, <1>4

LEMMA CommitFailsFacts ==
    ASSUME CommitFails
    PROVE  /\ pc = "commit" /\ pc' \in {"rollback", "dead"} /\ ~AtBlock'
           /\ height' = height /\ attempt' = attempt /\ running' \in {running, {}}
           /\ \/ UNCHANGED <<pending, durable>>
              \/ CommitTransaction \/ DropTransaction
BY DEF CommitFails, serverVars, AtBlock, InBlock

LEMMA BelowStepOK ==
    ASSUME IInv, BoundsOK, BelowOK, [Next]_vars
    PROVE  BelowOK'
<1>1. CASE StartBlocks
  BY <1>1, StartFacts DEF BelowOK
<1>2. CASE CommitBlock
  BY <1>2, CommitFacts DEF BelowOK
<1>3. CASE CommitFails
  BY <1>3, CommitFailsFacts DEF BelowOK
<1>4. ASSUME NEW w \in running, ListenerStep(w)
      PROVE  BelowOK'
  BY <1>4, ListenersKeepBlocks DEF BelowOK, Below
<1>5. CASE \/ StartFails \/ BeginBlock \/ NotFetched \/ Emit \/ AllEmitted
           \/ RollBack \/ ConnectionLost \/ Crash \/ UNCHANGED vars
  BY <1>5, QuietSteps, SameTable DEF BelowOK, Below
<1> QED
  BY <1>1, <1>2, <1>3, <1>4, <1>5 DEF Next, LoopStep

LEMMA BelowInvariance == SafetySpec => [](IInv /\ BoundsOK /\ BelowOK)
<1>1. Init => IInv /\ BoundsOK /\ BelowOK
  BY InitOK, BoundsInitOK DEF Init, BelowOK, AtBlock, InBlock
<1>2. IInv /\ BoundsOK /\ BelowOK /\ [Next]_vars => (IInv /\ BoundsOK /\ BelowOK)'
  BY StepOK, BoundsStepOK, BelowStepOK
<1> QED
  BY <1>1, <1>2, PTL DEF SafetySpec

\* A block the loop begins is the next one after those in the database, or lies one
\* beyond it when the transaction the loop committed was aborted: whoever listens,
\* swallows errors or is left behind, nothing is indexed twice and nothing else skipped.
THEOREM NextBlockIsProcessed == SafetySpec => GoesOnAfterLastBlock
<1>1. ASSUME IInv, BoundsOK, BelowOK, [Next]_vars, pc # "begin", pc' = "begin"
      PROVE  /\ \A h \in IndexedBlocks' : h < height'
             /\ \/ height' - 1 \in IndexedBlocks' \cup {0}
                \/ pc = "commit" /\ tx = "aborted"
  <2>1. CASE StartBlocks
    BY <1>1, <2>1, StartFacts DEF Below
  <2>2. CASE CommitBlock
    BY <1>1, <2>2, CommitFacts DEF Below
  <2>3. CASE CommitFails
    BY <1>1, <2>3, CommitFailsFacts
  <2>4. ASSUME NEW w \in running, ListenerStep(w)
        PROVE  FALSE
    BY <1>1, <2>4 DEF ListenerStep, ListenerWrites, QueryFails, ListenerFails, Answer
  <2>5. ~(\/ StartFails \/ BeginBlock \/ NotFetched \/ Emit \/ AllEmitted
          \/ RollBack \/ ConnectionLost \/ Crash \/ UNCHANGED vars)
    BY <1>1, QuietSteps
  <2> QED
    BY <1>1, <2>1, <2>2, <2>3, <2>4, <2>5 DEF Next, LoopStep
<1> QED
  BY <1>1, BelowInvariance, PTL DEF SafetySpec, GoesOnAfterLastBlock

-----------------------------------------------------------------------------
(***************************************************************************)
(* A listener that waits for the node may outlive the attempt it works for *)
(* if its event has another listener, whose failure ends the wait.  All    *)
(* others are done before the next attempt, and until then nothing of      *)
(* theirs can be stored: the row of their block is not there.              *)
(***************************************************************************)
LeftoversOK ==
    /\ \A w \in running : ~Lingers(w) =>
          /\ pc \in {"await", "rollback", "start", "fatal"}
          /\ pc = "await" \/ w.listener \notin CallsNode
          /\ w = Write(w.event, w.listener)
          /\ height \notin IndexedBlocks
    /\ \A w \in pending : ~Lingers(w) => w = Write(w.event, w.listener)

TableOK ==
    /\ \A w \in durable : ~Lingers(w) => w.height \in IndexedBlocks
    /\ AppliedOnce

OnceInv == IInv /\ BoundsOK /\ BelowOK /\ LeftoversOK /\ TableOK

\* A step that leaves the table as it is, and nobody new at work.
LEMMA NobodyNew ==
    ASSUME LeftoversOK, TableOK, durable' = durable, pending' \subseteq pending,
           running' \subseteq running, height' = height, attempt' = attempt,
           running' # {} => pc' = pc \/ (pc # "await" /\ pc' \in {"rollback", "start", "fatal"})
    PROVE  LeftoversOK' /\ TableOK'
<1>1. IndexedBlocks' = IndexedBlocks /\ AppliedOnce'
  BY SameTable DEF TableOK
<1>2. \A e, l : Write(e, l)' = Write(e, l)
  BY DEF Write
<1> QED
  BY <1>1, <1>2 DEF LeftoversOK, TableOK, Lingers

\* A step that leaves the table as it is, and of whose listeners at work all linger.
LEMMA OnlyLingering ==
    ASSUME TableOK, durable' = durable, pending' = {}, \A w \in running' : Lingers(w)
    PROVE  LeftoversOK' /\ TableOK'
<1>1. IndexedBlocks' = IndexedBlocks /\ AppliedOnce'
  BY SameTable DEF TableOK
<1> QED
  BY <1>1 DEF LeftoversOK, TableOK, Lingers

\* A COMMIT keeps the rows of those who do not linger apart by their blocks.
LEMMA CommitKeepsTable ==
    ASSUME OnceInv, pc = "commit", CommitTransaction
    PROVE  TableOK' /\ pending' = {} /\ \A w \in running : Lingers(w)
<1>1. pending' = {} /\ \A w \in running : Lingers(w)
  BY DEF CommitTransaction, OnceInv, LeftoversOK
<1>2. CASE tx = "open"
  <2>1. durable' = durable \cup pending /\ IndexedBlocks' = IndexedBlocks \cup {height}
    BY <1>2, CommitAddsBlock DEF CommitTransaction, OnceInv
  <2>2. \A w \in pending : ~Lingers(w) => w = Write(w.event, w.listener) /\ w.height = height
    BY DEF OnceInv, LeftoversOK, Write
  <2>3. \A w \in durable : ~Lingers(w) => w.height \in IndexedBlocks /\ w.height # height
    <3>1. height \in Nat /\ height \notin IndexedBlocks
      BY HeightFacts DEF OnceInv, BelowOK, Below, AtBlock, InBlock
    <3> QED
      BY <3>1 DEF OnceInv, TableOK
  <2>4. \A w : Lingers(w)' = Lingers(w)
    BY DEF Lingers
  <2>5. \A v, w \in durable' :
            v.height = w.height /\ v.event = w.event /\ v.listener = w.listener /\ ~Lingers(v)
               => v = w
    <3>1. SUFFICES ASSUME NEW v \in durable', NEW w \in durable', v.height = w.height,
                          v.event = w.event, v.listener = w.listener, ~Lingers(v)
                   PROVE  v = w
      OBVIOUS
    <3>2. ~Lingers(w)
      BY <3>1 DEF Lingers
    <3>3. CASE v \in durable /\ w \in durable
      BY <3>1, <3>3 DEF OnceInv, TableOK, AppliedOnce
    <3>4. CASE v \in pending /\ w \in pending
      <4>1. v = Write(v.event, v.listener) /\ w = Write(w.event, w.listener)
        BY <2>2, <3>1, <3>2, <3>4
      <4> QED
        BY <3>1, <4>1
    <3> QED
      BY <2>1, <2>2, <2>3, <3>1, <3>2, <3>3, <3>4
  <2>6. AppliedOnce'
    BY <2>4, <2>5 DEF AppliedOnce
  <2>7. \A w \in durable' : ~Lingers(w) => w.height \in IndexedBlocks'
    BY <2>1, <2>2, <2>3
  <2> QED
    BY <1>1, <2>4, <2>6, <2>7 DEF TableOK
<1>3. CASE tx # "open"
  <2>1. durable' = durable
    BY <1>3, CommitAddsBlock DEF OnceInv
  <2> QED
    BY <1>1, <2>1, SameTable DEF OnceInv, TableOK, Lingers
<1> QED
  BY <1>2, <1>3

\* Where a listener writes: what does not linger only into the transaction of its own
\* attempt.
LEMMA ListenersWrite ==
    ASSUME OnceInv, NEW w \in running, ListenerStep(w)
    PROVE  /\ \E ok \in BOOLEAN : Answer(w, ok)
           /\ \/ durable' = durable /\ pending' \subseteq pending \cup {w}
              \/ durable' = durable \cup {w} /\ pending' = pending /\ Lingers(w)
<1>1. \E ok \in BOOLEAN : Answer(w, ok)
  <2>1. \/ Answer(w, TRUE) \/ Answer(w, FALSE)
        \/ Answer(w, w.listener \in Swallows)
    BY DEF ListenerStep, ListenerWrites, QueryFails, ListenerFails
  <2>2. (w.listener \in Swallows) \in BOOLEAN
    OBVIOUS
  <2> QED
    BY <2>1, <2>2
<1>2. CASE ListenerWrites(w) /\ ~Lingers(w)
  <2>1. tx = "open"
    <3>1. SUFFICES ASSUME tx # "open"
                   PROVE  FALSE
      OBVIOUS
    <3>2. tx = "none" /\ client.open /\ Constraints(w)
      BY <1>2, <3>1 DEF ListenerWrites, Stores, OnceInv, IInv, SessionOK
    <3>3. pc # "await" /\ pending = {}
      BY <3>2 DEF OnceInv, IInv, SessionOK, InBlock
    <3>4. ~IsBlockRow(w) /\ w = Write(w.event, w.listener) /\ height \notin IndexedBlocks
      BY <1>2, <3>3 DEF OnceInv, IInv, RunsOK, LeftoversOK
    <3>5. w.height = height
      BY <3>4 DEF Write
    <3>6. \E u \in durable : IsBlockRow(u) /\ u.height = height
      BY <3>2, <3>3, <3>4, <3>5 DEF Constraints
    <3> QED
      BY <3>4, <3>6 DEF IndexedBlocks
  <2> QED
    BY <1>1, <1>2, <2>1 DEF ListenerWrites, Stores
<1>3. CASE ListenerWrites(w) /\ Lingers(w)
  BY <1>1, <1>3 DEF ListenerWrites, Stores
<1>4. CASE QueryFails(w) \/ ListenerFails(w)
  BY <1>1, <1>4 DEF QueryFails, Refuses, Aborts, ListenerFails, sessionVars, serverVars
<1> QED
  BY <1>2, <1>3, <1>4 DEF ListenerStep

\* What an answer leaves behind and does not linger only queries the database.
LEMMA AnswerLeaves ==
    ASSUME OnceInv, NEW w \in running, NEW ok \in BOOLEAN, Answer(w, ok),
           NEW u \in running', ~Lingers(u)
    PROVE  /\ u \in running /\ height' = height /\ attempt' = attempt
           /\ pc' \in {"await", "rollback", "start", "fatal"}
           /\ pc' = "await" \/ u.listener \notin CallsNode
<1>1. /\ running' = running \ {w} /\ height' = height /\ attempt' = attempt /\ u # w
      /\ u \in running /\ u = Write(u.event, u.listener)
      /\ pc \in {"await", "rollback", "start", "fatal"}
      /\ pc = "await" \/ u.listener \notin CallsNode
  BY DEF Answer, OnceInv, LeftoversOK
<1>2. CASE ~Awaited(w)
  BY <1>1, <1>2 DEF Answer
<1>3. CASE Awaited(w)
  <2>1. pc = "await" /\ u.attempt = attempt
    BY <1>1, <1>3 DEF Awaited, Write
  <2>2. w = Run(w.listener) /\ w.listener \in Working
    BY <1>3, AwaitedRun DEF OnceInv, IInv
  <2>3. u = Run(u.listener) /\ u.listener \in Working
    BY <1>1, <2>1 DEF OnceInv, IInv, RunsOK, InBlock, Working
  <2>4. u.event = event /\ u.listener \in Listens[event] /\ w.listener \in Listens[event]
    BY <2>2, <2>3 DEF Run, Working
  <2>5. Listens[u.event] # {u.listener}
    BY <1>1, <2>2, <2>3, <2>4
  <2>6. u.listener \notin CallsNode
    BY <2>5 DEF Lingers
  <2>7. ~(ok /\ answered + 1 = Cardinality(Listens[event]))
    <3>1. SUFFICES ASSUME answered + 1 = Cardinality(Listens[event])
                   PROVE  FALSE
      OBVIOUS
    <3>2. Working = {w.listener}
      BY <1>3, <3>1, LastAnswer DEF OnceInv, IInv
    <3> QED
      BY <1>1, <2>2, <2>3, <3>2
  <2>8. pc' \in {"await", "rollback"}
    BY <1>3, <2>1, <2>7 DEF Answer
  <2> QED
    BY <1>1, <2>6, <2>8
<1> QED
  BY <1>2, <1>3

LEMMA ListenerKeepsOnce ==
    ASSUME OnceInv, NEW w \in running, ListenerStep(w)
    PROVE  LeftoversOK' /\ TableOK'
<1>1. PICK ok \in BOOLEAN : Answer(w, ok)
  BY ListenersWrite
<1>2. IndexedBlocks' = IndexedBlocks
  BY ListenersKeepBlocks DEF OnceInv
<1>3. /\ \A e, l : Write(e, l)' = Write(e, l)
      /\ \A u : Lingers(u)' = Lingers(u)
  BY <1>1 DEF Answer, Write, Lingers
<1>4. \A u \in running' : ~Lingers(u) =>
          /\ u \in running
          /\ pc' \in {"await", "rollback", "start", "fatal"}
          /\ pc' = "await" \/ u.listener \notin CallsNode
  BY <1>1, AnswerLeaves
<1>5. \A u \in pending' : u \in pending \/ u = w
  BY ListenersWrite
<1>6. LeftoversOK'
  <2>1. /\ \A u \in running : ~Lingers(u) => u = Write(u.event, u.listener) /\ height \notin IndexedBlocks
        /\ \A u \in pending : ~Lingers(u) => u = Write(u.event, u.listener)
    BY DEF OnceInv, LeftoversOK
  <2>2. \A u \in pending' : ~Lingers(u) => u = Write(u.event, u.listener)
    BY <1>5, <2>1
  <2>3. height' = height
    BY <1>1 DEF Answer
  <2> QED
    BY <1>2, <1>3, <1>4, <2>1, <2>2, <2>3 DEF LeftoversOK
<1>7. durable' = durable \/ (durable' = durable \cup {w} /\ Lingers(w))
  BY ListenersWrite
<1>8. \A v, u \in durable' :
          v.height = u.height /\ v.event = u.event /\ v.listener = u.listener /\ ~Lingers(v)
             => v \in durable /\ u \in durable
  BY <1>7 DEF Lingers
<1>9. TableOK'
  BY <1>2, <1>3, <1>7, <1>8 DEF OnceInv, TableOK, AppliedOnce
<1> QED
  BY <1>6, <1>9

LEMMA OnceStepOK ==
    ASSUME OnceInv, [Next]_vars
    PROVE  LeftoversOK' /\ TableOK'
<1>0. SessionOK /\ LeftoversOK /\ TableOK
  BY DEF OnceInv, IInv
<1>1. CASE StartBlocks
  <2>1. /\ pc = "start" /\ durable' = durable /\ running' = running /\ pending' = pending
        /\ OnlySlowRun
    BY <1>1 DEF StartBlocks, Reconnect, serverVars
  <2>2. pending = {} /\ \A w \in running' : Lingers(w)
    BY <1>0, <2>1 DEF SessionOK, LeftoversOK, OnlySlowRun, InBlock
  <2> QED
    BY <1>0, <2>1, <2>2, OnlyLingering
<1>2. CASE StartFails
  BY <1>0, <1>2, NobodyNew DEF StartFails, Dies, sessionVars, serverVars
<1>3. CASE BeginBlock
  <2>1. /\ pc = "begin" /\ durable' = durable /\ running' = running /\ pending' = pending
    BY <1>3 DEF BeginBlock, BeginTransaction, sessionVars, serverVars
  <2>2. pending = {} /\ \A w \in running' : Lingers(w)
    BY <1>0, <2>1 DEF SessionOK, LeftoversOK, InBlock
  <2> QED
    BY <1>0, <2>1, <2>2, OnlyLingering
<1>4. CASE NotFetched
  BY <1>0, <1>4, NobodyNew DEF NotFetched, sessionVars, serverVars
<1>5. CASE Emit
  <2>1. /\ pc = "emit" /\ durable' = durable
        /\ height' = height /\ attempt' = attempt /\ pending' = pending
        /\ \/ running' = running
           \/ pc' = "await" /\ running' = running \cup {Run(l) : l \in Listens[event]}
    BY <1>5 DEF Emit, sessionVars, serverVars
  <2>2. \A w \in running : Lingers(w)
    BY <1>0, <2>1 DEF LeftoversOK
  <2>3. height \notin IndexedBlocks
    BY <2>1, HeightFacts DEF OnceInv, BelowOK, Below, AtBlock, InBlock
  <2>4. \A w \in running' : Lingers(w) \/ (pc' = "await" /\ w = Write(w.event, w.listener))
    BY <2>1, <2>2 DEF Run, Write
  <2>5. /\ \A e, l : Write(e, l)' = Write(e, l)
        /\ \A u : Lingers(u)' = Lingers(u)
    BY <2>1 DEF Write, Lingers
  <2> QED
    BY <1>0, <2>1, <2>3, <2>4, <2>5, SameTable DEF LeftoversOK, TableOK
<1>6. CASE AllEmitted
  <2>1. /\ pc = "emit" /\ durable' = durable /\ height' = height /\ attempt' = attempt
        /\ pending' = pending /\ running' = running
    BY <1>6 DEF AllEmitted, sessionVars, serverVars
  <2>2. \A w \in running : Lingers(w)
    BY <1>0, <2>1 DEF LeftoversOK
  <2>3. /\ \A e, l : Write(e, l)' = Write(e, l)
        /\ \A u : Lingers(u)' = Lingers(u)
    BY <2>1 DEF Write, Lingers
  <2> QED
    BY <1>0, <2>1, <2>2, <2>3, SameTable DEF LeftoversOK, TableOK
<1>7. CASE CommitBlock
  <2>1. pc = "commit" /\ CommitTransaction /\ running' = running
    BY <1>7 DEF CommitBlock
  <2>2. TableOK' /\ pending' = {} /\ \A w \in running' : Lingers(w)
    BY <2>1, CommitKeepsTable
  <2> QED
    BY <2>2 DEF LeftoversOK, Lingers
<1>8. CASE CommitFails
  <2>1. /\ pc = "commit" /\ height' = height /\ attempt' = attempt
        /\ running' \in {running, {}}
        /\ UNCHANGED <<pending, durable>> \/ CommitTransaction \/ DropTransaction
    BY <1>8, CommitFailsFacts
  <2>2. \A w \in running' : Lingers(w)
    BY <1>0, <2>1 DEF LeftoversOK
  <2>3. CASE CommitTransaction
    <3>1. TableOK' /\ pending' = {}
      BY <2>1, <2>3, CommitKeepsTable
    <3> QED
      BY <2>2, <3>1 DEF LeftoversOK, Lingers
  <2>4. CASE DropTransaction
    BY <1>0, <2>2, <2>4, OnlyLingering DEF DropTransaction
  <2>5. CASE UNCHANGED <<pending, durable>>
    <3>1. /\ \A e, l : Write(e, l)' = Write(e, l)
          /\ \A u : Lingers(u)' = Lingers(u)
      BY <2>1 DEF Write, Lingers
    <3> QED
      BY <1>0, <2>2, <2>5, <3>1, SameTable DEF LeftoversOK, TableOK
  <2> QED
    BY <2>1, <2>3, <2>4, <2>5
<1>9. CASE RollBack
  <2>1. /\ pc = "rollback" /\ pc' \in {"start", "fatal"} /\ height' = height
        /\ attempt' = attempt /\ running' = running /\ pending' = {} /\ durable' = durable
    BY <1>9 DEF RollBack, DropTransaction
  <2> QED
    BY <1>0, <2>1, NobodyNew
<1>10. ASSUME NEW w \in running, ListenerStep(w)
       PROVE  LeftoversOK' /\ TableOK'
  BY <1>10, ListenerKeepsOnce
<1>11. CASE ConnectionLost
  <2>1. /\ pending' = {} /\ durable' = durable /\ height' = height /\ attempt' = attempt
        /\ \/ pc' = pc /\ running' = running
           \/ pc' = "dead" /\ running' = {}
    BY <1>11 DEF ConnectionLost, DropTransaction, loopVars, Dies
  <2>2. running' \subseteq running /\ pending' \subseteq pending /\ (running' # {} => pc' = pc)
    BY <2>1
  <2> QED
    BY <1>0, <2>1, <2>2, NobodyNew
<1>12. CASE Crash
  <2>1. /\ height' = height /\ attempt' = attempt /\ running' = {} /\ pending' = {}
        /\ durable' = durable
    BY <1>12 DEF Crash, DropTransaction
  <2> QED
    BY <1>0, <2>1, NobodyNew
<1>13. CASE UNCHANGED vars
  <2>1. UNCHANGED <<pending, durable, pc, height, attempt, running>>
    BY <1>13 DEF vars, sessionVars, serverVars, loopVars
  <2>2. /\ running' \subseteq running /\ pending' \subseteq pending /\ pc' = pc
        /\ durable' = durable /\ height' = height /\ attempt' = attempt
    BY <2>1
  <2> QED
    BY <1>0, <2>2, NobodyNew
<1> QED
  BY <1>1, <1>2, <1>3, <1>4, <1>5, <1>6, <1>7, <1>8, <1>9, <1>10, <1>11, <1>12, <1>13
     DEF Next, LoopStep

LEMMA OnceInitOK == Init => OnceInv
<1>1. Init => LeftoversOK /\ TableOK /\ BelowOK
  BY DEF Init, SessionInit, LeftoversOK, TableOK, BelowOK, AtBlock, InBlock, AppliedOnce
<1> QED
  BY <1>1, InitOK, BoundsInitOK DEF OnceInv

\* What a listener stores for an event of a block is stored once, however many attempts
\* the block took and whatever made them fail, by all listeners but those that wait for
\* the node and share the event.
THEOREM StoredOnce == SafetySpec => []AppliedOnce
<1>1. OnceInv /\ [Next]_vars => OnceInv'
  BY StepOK, BoundsStepOK, BelowStepOK, OnceStepOK DEF OnceInv
<1>2. OnceInv => AppliedOnce
  BY DEF OnceInv, TableOK
<1> QED
  BY <1>1, <1>2, OnceInitOK, PTL DEF SafetySpec
=============================================================================

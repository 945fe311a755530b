-------------------------- MODULE BlockTransaction --------------------------
(***************************************************************************)
(* One block in one transaction: the loop of EcleciaIndexer.start() emits  *)
(* the events of a block in order, asyncEmit() waits for an answer of each *)
(* listener, and the listeners, asynchronous functions of the modules,     *)
(* write to the database through the one client of PgSession.              *)
(*                                                                         *)
(* A listener that fails ends the wait at once; the other listeners of the *)
(* same event run on while the loop rolls back and starts again.           *)
(*                                                                         *)
(* What a listener does for an event of a block is one write, or an error, *)
(* and its answer.  The write is identified with the run of the listener   *)
(* that makes it; an attempt is one run of a block's transaction.  The     *)
(* listener gets its client when it writes, after the node answered, as    *)
(* savePool() of the staking module does.                                  *)
(*                                                                         *)
(* The block row is queued when the first event is emitted, before anything*)
(* else: what the auth module does with that event of block 1 comes later  *)
(* and stands under an event of its own.                                   *)
(*                                                                         *)
(* The loop gives up when retryCount reaches the limit.  What else counts  *)
(* retries (the pollers, the listener of new blocks, a full ring) is in    *)
(* IndexerEngine.                                                          *)
(***************************************************************************)
EXTENDS PgSession, Sequences, FiniteSets, FiniteSetsExt

CONSTANTS
    Listens,      \* the events of a block in order, each its set of listeners
    BlockModule,  \* the listener of the first event that inserts the block row
    CallsNode,    \* listeners that query the node before they write
    Swallows,     \* listeners that catch the errors of their queries
    LastBlock,    \* bound: the chain has the blocks 1 .. LastBlock
    MaxFaults     \* bound on errors of the node or the database and on crashes

ASSUME ListensAssumption ==
    /\ Listens \in Seq({Listens[e] : e \in DOMAIN Listens})
    /\ Len(Listens) > 0 /\ Listens[1] = {BlockModule}
    /\ \A e \in DOMAIN Listens : IsFiniteSet(Listens[e])
    /\ LastBlock \in Nat \ {0} /\ MaxFaults \in Nat

MaxRetries == 3

VARIABLES
    pc,         \* the await of the loop; "fatal" when it gave up, "dead" when the
                \* process ended
    retryCount, \* failures since the last block committed
    height,     \* block in work
    attempt,    \* number of the attempt, over all blocks
    event,      \* index of the event emitted, or to be emitted next
    answered,   \* listeners of that event that answered
    running,    \* listeners at work, those of earlier attempts included
    faults

loopVars == <<pc, retryCount, height, attempt, event, answered, running>>
vars == <<sessionVars, loopVars, faults>>

Init ==
    /\ SessionInit
    /\ pc = "start" /\ retryCount = 0
    /\ height = 0 /\ attempt = 0 /\ event = 1 /\ answered = 0
    /\ running = {}
    /\ faults = 0

Fault == faults < MaxFaults /\ faults' = faults + 1

-----------------------------------------------------------------------------
\* The tables: the primary key of the block row, the foreign key of all others.
IsBlockRow(w) == w.event = 1 /\ w.listener = BlockModule
IndexedBlocks == {w.height : w \in {u \in durable : IsBlockRow(u)}}

Constraints(w) ==
    LET rowExists == \E u \in durable \cup pending : IsBlockRow(u) /\ u.height = w.height
    IN  IF IsBlockRow(w) THEN ~rowExists ELSE rowExists

\* Outside a transaction a query is durable at once.
Stores(w) ==
    /\ client.open /\ tx # "aborted" /\ Constraints(w)
    /\ IF tx = "open"
       THEN pending' = pending \cup {w} /\ UNCHANGED durable
       ELSE durable' = durable \cup {w} /\ UNCHANGED pending
    /\ UNCHANGED tx

\* An error in a query aborts the transaction that is open.
Aborts ==
    /\ tx' = IF client.open /\ tx = "open" THEN "aborted" ELSE tx
    /\ UNCHANGED <<pending, durable>>

Refuses(w) ==
    /\ ~client.open \/ tx = "aborted" \/ ~Constraints(w)
    /\ Aborts

-----------------------------------------------------------------------------
(***************************************************************************)
(* start().  The timer that calls it again after a failure runs for at     *)
(* least five seconds; a listener that only queries the database is done   *)
(* by then, one that waits for the node need not be.                       *)
(***************************************************************************)
OnlySlowRun == \A w \in running : w.listener \in CallsNode

\* Mutant: start() is called again at once.
StartBlocks_AtOnce ==
    /\ pc = "start"
    /\ Reconnect
    /\ height' = IF IndexedBlocks = {} THEN 1 ELSE Max(IndexedBlocks) + 1
    /\ pc' = IF height' <= LastBlock THEN "begin" ELSE "done"
    /\ UNCHANGED <<retryCount, attempt, event, answered, running, faults>>

\* getNextHeight()
StartBlocks ==
    /\ pc = "start" /\ OnlySlowRun
    /\ Reconnect
    /\ height' = IF IndexedBlocks = {} THEN 1 ELSE Max(IndexedBlocks) + 1
    /\ pc' = IF height' <= LastBlock THEN "begin" ELSE "done"
    /\ UNCHANGED <<retryCount, attempt, event, answered, running, faults>>

\* The process is gone, and the server rolls back.
Dies ==
    /\ pc' = "dead"
    /\ running' = {}
    /\ UNCHANGED <<retryCount, height, attempt, event, answered>>

\* start() throws, and nobody catches: the new client cannot connect.
StartFails ==
    /\ pc = "start" /\ OnlySlowRun
    /\ ~instanceConnected /\ Fault
    /\ Dies
    /\ UNCHANGED sessionVars

BeginBlock ==
    /\ pc = "begin"
    /\ IF CanBegin
       THEN BeginTransaction /\ pc' = "emit"
       ELSE UNCHANGED sessionVars /\ pc' = "rollback"
    /\ attempt' = attempt + 1
    /\ event' = 1
    /\ UNCHANGED <<retryCount, height, answered, running, faults>>

\* The promise from the queue answers nothing, or not in time.  The fetcher may
\* count the failure, too.
NotFetched ==
    /\ pc = "emit" /\ event = 1
    /\ Fault
    /\ retryCount' \in {retryCount, retryCount + 1}
    /\ pc' = "rollback"
    /\ UNCHANGED <<sessionVars, height, attempt, event, answered, running>>

-----------------------------------------------------------------------------
(***************************************************************************)
(* asyncEmit() and the listeners.                                          *)
(***************************************************************************)
Run(l) == [height |-> height, event |-> event, listener |-> l, attempt |-> attempt]

\* Mutant: the answers of earlier events are counted again.
Emit_KeepsAnswered ==
    /\ pc = "emit" /\ event <= Len(Listens)
    /\ running' = running \cup {Run(l) : l \in Listens[event]}
    /\ pc' = "await"
    /\ UNCHANGED <<sessionVars, retryCount, event, answered, height, attempt, faults>>

\* An event nobody listens to is answered by the listener of `_unhandled'.
Emit ==
    /\ pc = "emit" /\ event <= Len(Listens)
    /\ IF Listens[event] = {}
       THEN event' = event + 1 /\ UNCHANGED <<pc, running>>
       ELSE /\ running' = running \cup {Run(l) : l \in Listens[event]}
            /\ pc' = "await"
            /\ UNCHANGED event
    /\ answered' = 0
    /\ UNCHANGED <<sessionVars, retryCount, height, attempt, faults>>

AllEmitted ==
    /\ pc = "emit" /\ event > Len(Listens)
    /\ pc' = "commit"
    /\ UNCHANGED <<sessionVars, retryCount, height, attempt, event, answered, running, faults>>

\* The loop waits for the uuid of this run; other answers find nobody.
Awaited(w) == pc = "await" /\ w.attempt = attempt

\* Mutant: the first answer ends the wait.
Answer_First(w, ok) ==
    /\ running' = running \ {w}
    /\ IF Awaited(w)
       THEN /\ event' = IF ok THEN event + 1 ELSE event
            /\ pc' = IF ok THEN "emit" ELSE "rollback"
       ELSE UNCHANGED <<pc, event>>
    /\ UNCHANGED <<answered, height, attempt>>

\* Mutant: an error counts as an answer like any other.
Answer_Lenient(w, ok) ==
    /\ running' = running \ {w}
    /\ IF Awaited(w)
       THEN IF answered + 1 = Cardinality(Listens[event])
            THEN pc' = "emit" /\ event' = event + 1 /\ UNCHANGED answered
            ELSE answered' = answered + 1 /\ UNCHANGED <<pc, event>>
       ELSE UNCHANGED <<pc, event, answered>>
    /\ UNCHANGED <<height, attempt>>


Answer(w, ok) ==
    /\ running' = running \ {w}
    /\ IF ~Awaited(w) THEN UNCHANGED <<pc, event, answered>>
       ELSE IF ~ok THEN pc' = "rollback" /\ UNCHANGED <<event, answered>>
       ELSE IF answered + 1 = Cardinality(Listens[event])
            THEN pc' = "emit" /\ event' = event + 1 /\ UNCHANGED answered
            ELSE answered' = answered + 1 /\ UNCHANGED <<pc, event>>
    /\ UNCHANGED <<height, attempt>>

ListenerWrites(w) ==
    /\ Stores(w)
    /\ Answer(w, TRUE)
    /\ UNCHANGED <<clientVars, retryCount, faults>>

\* The query is refused, or fails for a reason of the server's.
QueryFails(w) ==
    /\ \/ Refuses(w) /\ UNCHANGED faults
       \/ Aborts /\ Fault
    /\ Answer(w, w.listener \in Swallows)
    /\ UNCHANGED <<clientVars, retryCount>>

\* The listener fails before it writes: the event cannot be decoded, or the node does
\* not answer, which callABCI() counts, whoever waits for the listener.
ListenerFails(w) ==
    /\ Fault
    /\ \/ UNCHANGED retryCount
       \/ w.listener \in CallsNode /\ retryCount' = retryCount + 1
    /\ Answer(w, FALSE)
    /\ UNCHANGED sessionVars

-----------------------------------------------------------------------------
\* The height the loop finds in the queue, or a new start() if it is to recover.
NextRound ==
    /\ height' = height + 1
    /\ \/ pc' = IF height < LastBlock THEN "begin" ELSE "done"
       \/ pc' = "start"

\* endTransaction(true)
CommitBlock ==
    /\ pc = "commit" /\ client.open
    /\ CommitTransaction
    /\ Recycle(clientReuse + 1)
    /\ NextRound
    /\ retryCount' = 0
    /\ UNCHANGED <<attempt, event, answered, running, faults>>

\* endTransaction(true) throws: the connection was gone before, or is lost while
\* the server commits, or the client that replaces it cannot connect.  (That the
\* recycling fails again after a failure is left to RollBack.)
CommitFails ==
    /\ pc = "commit"
    /\ \/ /\ ~client.open /\ UNCHANGED <<serverVars, faults>>
          /\ Recycle(clientReuse)
          /\ pc' = "rollback" /\ UNCHANGED running
       \/ /\ client.open /\ Fault
          /\ CommitTransaction
          /\ RecycleFails(clientReuse + 1)
          /\ pc' = "rollback" /\ UNCHANGED running
       \/ /\ Fault
          /\ LoseConnection
          /\ CommitTransaction \/ DropTransaction
          /\ IF client.watched THEN pc' = "rollback" /\ UNCHANGED running
                               ELSE pc' = "dead" /\ running' = {}
    /\ UNCHANGED <<retryCount, height, attempt, event, answered>>

\* Mutant: the loop does not break, and takes the next block from the queue.
RollBack_NoBreak ==
    /\ pc = "rollback"
    /\ DropTransaction
    /\ height' = height + 1
    /\ pc' = IF height < LastBlock THEN "begin" ELSE "done"
    /\ UNCHANGED <<clientVars, faults, retryCount, attempt, event, answered, running>>

\* endTransaction(false); what it throws is swallowed.  Then the loop ends, and
\* start() is called again unless the failure is one too many.
RollBack ==
    /\ pc = "rollback"
    /\ DropTransaction
    /\ \/ Recycle(clientReuse) /\ UNCHANGED faults
       \/ Fault /\ RecycleFails(clientReuse)
    /\ retryCount' = retryCount + 1
    /\ pc' = IF retryCount' < MaxRetries THEN "start" ELSE "fatal"
    /\ UNCHANGED <<height, attempt, event, answered, running>>

-----------------------------------------------------------------------------
Ended == pc \in {"done", "fatal", "dead"}

\* A client that ends without an `error' handler takes the process with it.
ConnectionLost ==
    /\ ~Ended
    /\ Fault
    /\ LoseConnection
    /\ DropTransaction
    /\ IF client.watched THEN UNCHANGED loopVars ELSE Dies

\* The process is killed and run again.
Crash ==
    /\ ~Ended
    /\ Fault
    /\ ConnectedAtSetup
    /\ DropTransaction
    /\ pc' = "start" /\ retryCount' = 0
    /\ running' = {}
    /\ UNCHANGED <<height, attempt, event, answered>>

LoopStep ==
    \/ StartBlocks \/ StartFails \/ BeginBlock \/ Emit \/ AllEmitted
    \/ CommitBlock \/ CommitFails \/ RollBack

ListenerStep(w) == ListenerWrites(w) \/ QueryFails(w) \/ ListenerFails(w)

Next ==
    \/ LoopStep
    \/ \E w \in running : ListenerStep(w)
    \/ NotFetched \/ ConnectionLost \/ Crash

\* The loop goes on, and every query of a listener is answered.
Fairness ==
    /\ WF_vars(LoopStep)
    /\ WF_vars(\E w \in running : ListenerStep(w))

SafetySpec == Init /\ [][Next]_vars
Spec == SafetySpec /\ Fairness

-----------------------------------------------------------------------------
(***************************************************************************)
(* Properties                                                              *)
(***************************************************************************)
Writes ==
    [height : 1 .. LastBlock, event : DOMAIN Listens, attempt : Nat,
     listener : UNION {Listens[e] : e \in DOMAIN Listens}]

TransactionTypeOK ==
    /\ client \in [open : BOOLEAN, watched : BOOLEAN]
    /\ instanceConnected \in BOOLEAN
    /\ clientReuse \in 0 .. RecycleCount + MaxFaults
    /\ tx \in {"none", "open", "aborted"}
    /\ pending \subseteq Writes /\ durable \subseteq Writes /\ running \subseteq Writes
    /\ pc \in {"start", "begin", "emit", "await", "commit", "rollback", "done", "fatal", "dead"}
    /\ retryCount \in 0 .. MaxRetries + MaxFaults
    /\ height \in 0 .. LastBlock + 1
    /\ attempt \in Nat
    /\ event \in 1 .. Len(Listens) + 1
    /\ answered \in 0 .. Max({Cardinality(Listens[e]) : e \in DOMAIN Listens})
    /\ faults \in 0 .. MaxFaults

\* A block that is in the database is there with everything its listeners store:
\* an answer that came early or an error that was not noticed never lets a part
\* of a block be committed.
CommittedBlocksAreComplete ==
    \A h \in IndexedBlocks, e \in DOMAIN Listens : \A l \in Listens[e] :
        \E w \in durable : w.height = h /\ w.event = e /\ w.listener = l

\* A listener of an event finds the writes of all earlier events of its block in
\* the transaction.
EventsInOrder ==
    \A w \in running : \A e \in 1 .. w.event - 1 : \A l \in Listens[e] :
        Awaited(w) /\ tx = "open" =>
            \E u \in pending : /\ u.height = w.height /\ u.attempt = w.attempt
                             /\ u.event = e /\ u.listener = l

\* A block the loop begins lies beyond all blocks in the database, and next to the
\* last one, whatever attempts failed before and however the connection broke.  Only
\* the COMMIT of a transaction that was aborted, by an error a listener swallowed or
\* one left behind met, lets the loop go on without the block.
GoesOnAfterLastBlock ==
    [][pc # "begin" /\ pc' = "begin" =>
          /\ \A h \in IndexedBlocks' : h < height'
          /\ \/ height' - 1 \in IndexedBlocks' \cup {0}
             \/ pc = "commit" /\ tx = "aborted"]_vars

\* A listener that waits for the node is left behind by the failure of another one
\* that listens to the same event, and may be at work still in the next attempt.
Lingers(w) == w.listener \in CallsNode /\ Listens[w.event] # {w.listener}

\* What a listener stores for an event of a block is stored once, however often
\* the block was tried, by all who cannot be left behind for as long as that: no run
\* of theirs writes into a later transaction, those that share an event included.
AppliedOnce ==
    \A v, w \in durable :
        v.height = w.height /\ v.event = w.event /\ v.listener = w.listener =>
            v = w \/ Lingers(v)

\* A block is indexed inside a transaction to ensure that the data is consistent
\* (indexer/index.ts:448): what a listener stores for an event of a block is stored
\* once.
StoredOnlyOnce ==
    \A v, w \in durable :
        v.height = w.height /\ v.event = w.event /\ v.listener = w.listener => v = w

\* While the process lives, the flag instanceConnected tells the truth: a client
\* that was lost or could not be recycled is always known to be gone.
FlagIsTruthful == pc # "dead" => (instanceConnected <=> client.open)

=============================================================================

---------------------------- MODULE IndexerEngine ----------------------------
(***************************************************************************)
(* The life of an EcleciaIndexer (indexer-engine/src/indexer): start() and *)
(* its restarts, the processing loop with one database transaction per     *)
(* block, the pollers or the subscription that announce blocks, the retry  *)
(* counter, the end height, and crashes of the process.  Every step that   *)
(* touches the block queue is a step of BlockPipeline.                     *)
(*                                                                         *)
(* The database is the set of heights in `blocks' (the module that stores  *)
(* blocks inserts the row, whose height is the primary key); it and the    *)
(* chain survive a crash, everything else is memory of the process.        *)
(***************************************************************************)
EXTENDS BlockPipeline, FiniteSetsExt

CONSTANTS
    StartHeight,    \* config.startHeight
    EndHeight,      \* config.endHeight, or NoEndHeight
    NoEndHeight,
    MaxFaults,      \* bound on failures of the node, the database or a handler
    MaxCrashes,     \* bound on crashes of the process
    MaxPollers      \* the number of pollers is not counted beyond this bound

ASSUME EngineAssumption ==
    /\ StartHeight \in Height
    /\ EndHeight \in Height \cup {NoEndHeight} /\ NoEndHeight \notin Height
    /\ MaxFaults \in Nat /\ MaxCrashes \in Nat /\ MaxPollers \in Nat \ {0}

VARIABLES
    chain,            \* height of the node's newest block
    committed,        \* heights in the blocks table
    pc,               \* the await start() is at
    started,          \* the flag stop() clears
    heightToProcess,  \* next height of the session, then the last one begun
    retryCount,
    health,           \* healthCheck.status
    pollers,          \* live chains of pollForBlock() timers
    subscribed,       \* blockListener is attached to the node's subscription
    blockTimer,       \* the timer of newBlockReceived() is armed
    stale,            \* fetches of an earlier session may still be under way
    missed,           \* history: heights made between status() and the subscription,
                      \* or during the session without their announcement
    faults, crashes   \* failures so far

memoryVars == <<started, heightToProcess, retryCount, health, pollers,
                subscribed, blockTimer, stale>>
engineVars == <<chain, committed, pc, memoryVars, missed, faults, crashes>>
vars == <<allPipeVars, engineVars>>

MaxRetries == 3

InLoop     == {"begin", "wait", "process", "commit"}
GivenUp    == {"fatal", "crashed"}

\* The node has the block before startHeight.
Init ==
    /\ PipelineInit
    /\ pc = "boot"
    /\ started = FALSE
    /\ heightToProcess = 0
    /\ retryCount = 0
    /\ health = "CONNECTING"
    /\ pollers = 0
    /\ subscribed = FALSE /\ blockTimer = FALSE /\ stale = FALSE
    /\ chain \in {h \in Height : h >= StartHeight - 1}
    /\ committed = {}
    /\ missed = {} /\ faults = 0 /\ crashes = 0

\* A failure of the world around the indexer.
Fault == faults < MaxFaults /\ faults' = faults + 1

-----------------------------------------------------------------------------
\* The loop's condition, after a round that ended at the given height.
BeforeEnd(height)  == EndHeight = NoEndHeight \/ height <= EndHeight
ReachedEnd(height) == EndHeight # NoEndHeight /\ height >= EndHeight

\* Mutant: the end height is not looked at.
LoopCondition_NoEnd == count > 0 /\ ~tryToRecover /\ started

LoopCondition ==
    count > 0 /\ ~tryToRecover /\ started /\ BeforeEnd(heightToProcess)

\* What follows the loop, left at that height with that retry count.
LeaveLoop(height, retries) ==
    /\ started' = (started /\ ~ReachedEnd(height))
    /\ pc' = IF ~started' THEN "stopped"
             ELSE IF retries < MaxRetries THEN "delay"
             ELSE "fatal"

\* Mutant: a restart that does not run the queue's part of start().
Start_KeepsSession ==
    /\ pc \in {"boot", "delay"}
    /\ session' = "starting"
    /\ taken' = NoPromise
    /\ pc' = "status"
    /\ started' = TRUE
    /\ UNCHANGED <<ringVars, latestHeight, tryToRecover, fetcher, delivered, chain,
                   committed, heightToProcess, retryCount, health, pollers,
                   subscribed, blockTimer, stale, missed, faults, crashes>>

(***************************************************************************)
(* start(), from the timer that calls it to the launch of the loop.  The   *)
(* result of connect() is not used: a connection that failed shows as a    *)
(* failing status().                                                       *)
(***************************************************************************)
Start ==
    /\ pc \in {"boot", "delay"}
    /\ StartSession
    /\ pc' = "status"
    /\ started' = TRUE
    /\ subscribed' = FALSE
    /\ stale' = (stale \/ Len(delivered) < Len(resolved))
    /\ UNCHANGED <<chain, committed, heightToProcess, retryCount, health,
                   pollers, blockTimer, missed, faults, crashes>>

LearnLatestHeight ==
    /\ pc = "status"
    /\ StatusReply(chain)
    /\ pc' = "height"
    /\ UNCHANGED <<chain, committed, memoryVars, missed, faults, crashes>>

\* getNextHeight()
\* Mutant: the highest block again, not the one after it.
NextHeight_Again == IF committed = {} THEN StartHeight ELSE Max(committed)

\* Mutant: resume after the last height begun, not the last one committed.
NextHeight_FromMemory ==
    IF heightToProcess = 0 THEN StartHeight ELSE heightToProcess + 1

NextHeight == IF committed = {} THEN StartHeight ELSE Max(committed) + 1

LearnNextHeight ==
    /\ pc = "height"
    /\ LET loops == started /\ BeforeEnd(NextHeight) IN
       /\ Launch(NextHeight, loops)
       /\ IF loops THEN pc' = "begin" /\ UNCHANGED started
                   ELSE LeaveLoop(NextHeight, retryCount)
    /\ heightToProcess' = NextHeight
    /\ pollers' = IF UsePolling /\ pollers < MaxPollers THEN pollers + 1 ELSE pollers
    /\ subscribed' = ~UsePolling
    /\ UNCHANGED <<chain, committed, retryCount, health, blockTimer,
                   stale, missed, faults, crashes>>

\* status() or getNextHeight() fails: start() throws.  The first caller sees
\* the error; called by the timer, it is an unhandled rejection.
StartFails ==
    /\ pc \in {"status", "height"}
    /\ Fault
    /\ pc' = "crashed"
    /\ health' = "FAILED"
    /\ UNCHANGED <<allPipeVars, chain, committed, started, heightToProcess,
                   retryCount, pollers, subscribed, blockTimer, stale, missed, crashes>>

-----------------------------------------------------------------------------
(***************************************************************************)
(* The processing loop: one block per round, in a transaction of its own.  *)
(***************************************************************************)
BeginSucceeds ==
    /\ pc = "begin"
    /\ Take
    /\ pc' = "wait"
    /\ UNCHANGED <<chain, committed, memoryVars, missed, faults, crashes>>

\* processBlock() notes the height before it does anything else.
BlockArrives ==
    /\ pc = "wait"
    /\ Deliver
    /\ heightToProcess' = resolved[taken + 1]
    /\ pc' = "process"
    /\ UNCHANGED <<chain, committed, started, retryCount, health, pollers,
                   subscribed, blockTimer, stale, missed, faults, crashes>>

\* The INSERT of the block row finds no row of that height: NeverReprocesses.
HandlersFinish ==
    /\ pc = "process"
    /\ pc' = "commit"
    /\ UNCHANGED <<allPipeVars, chain, committed, memoryVars, missed, faults, crashes>>

\* Mutant: a block that was committed does not reset the retry count.
CommitSucceeds_NoReset ==
    /\ pc = "commit"
    /\ committed' = committed \cup {heightToProcess}
    /\ health' = "OK"
    /\ IF LoopCondition
       THEN pc' = "begin" /\ UNCHANGED <<allPipeVars, started>>
       ELSE Quit /\ LeaveLoop(heightToProcess, retryCount)
    /\ UNCHANGED <<chain, heightToProcess, retryCount, pollers, subscribed, blockTimer,
                   stale, missed, faults, crashes>>

CommitSucceeds ==
    /\ pc = "commit"
    /\ committed' = committed \cup {heightToProcess}
    /\ retryCount' = 0
    /\ health' = "OK"
    /\ IF LoopCondition
       THEN pc' = "begin" /\ UNCHANGED <<allPipeVars, started>>
       ELSE Quit /\ LeaveLoop(heightToProcess, 0)
    /\ UNCHANGED <<chain, heightToProcess, pollers, subscribed, blockTimer, stale,
                   missed, faults, crashes>>

-----------------------------------------------------------------------------
(***************************************************************************)
(* A round that fails: the catch block rolls back, swallows what the       *)
(* rollback itself throws, and leaves the loop.                            *)
(***************************************************************************)
ToRollback ==
    /\ pc' = "rollback"
    /\ health' = "FAILED"
    /\ UNCHANGED <<chain, started, heightToProcess, pollers, subscribed,
                   blockTimer, stale, missed, crashes>>

BeginFails ==
    /\ pc = "begin"
    /\ Fault
    /\ Quit /\ ToRollback
    /\ UNCHANGED <<committed, retryCount>>

\* The loop awaits a height nobody fetches and times out after
\* QUEUE_DEQUEUE_TIMEOUT_MS: in trouble the producers enqueue nothing more, ...
AwaitTimesOut ==
    /\ pc = "wait" /\ taken = Placeholder /\ tryToRecover
    /\ Abandon /\ ToRollback
    /\ UNCHANGED <<committed, retryCount, faults>>

\* ... without trouble, the chain made no block for that long.
IdleTimeout ==
    /\ pc = "wait" /\ taken = Placeholder /\ ~tryToRecover
    /\ Fault
    /\ Abandon /\ ToRollback
    /\ UNCHANGED <<committed, retryCount>>

\* The fetch of the block came back empty, or not in time.
NoBlockData ==
    /\ pc = "wait" /\ taken < Placeholder
    /\ Fault
    /\ Abandon /\ ToRollback
    /\ UNCHANGED <<committed, retryCount>>

\* A handler fails; if callABCI() failed under it, that was counted as well.
HandlerFails ==
    /\ pc = "process"
    /\ Fault
    /\ Quit /\ ToRollback
    /\ retryCount' \in {retryCount, retryCount + 1}
    /\ UNCHANGED committed

\* endTransaction(true) fails: in the COMMIT, or after it when the database
\* client is recycled.
CommitFails ==
    /\ pc = "commit"
    /\ Fault
    /\ Quit /\ ToRollback
    /\ committed' \in {committed, committed \cup {heightToProcess}}
    /\ UNCHANGED retryCount

RollbackEnds ==
    /\ pc = "rollback"
    /\ NoticeTrouble
    /\ retryCount' = retryCount + 1
    /\ LeaveLoop(heightToProcess, retryCount + 1)
    /\ UNCHANGED <<chain, committed, heightToProcess, health, pollers, subscribed,
                   blockTimer, stale, missed, faults, crashes>>

-----------------------------------------------------------------------------
(***************************************************************************)
(* What happens beside the loop.                                           *)
(***************************************************************************)
FetcherFetches ==
    /\ FetcherContinues
    /\ UNCHANGED engineVars

FetcherStops ==
    /\ FetcherGivesUp
    /\ retryCount' = retryCount + 1
    /\ UNCHANGED <<chain, committed, pc, started, heightToProcess, health, pollers,
                   subscribed, blockTimer, stale, missed, faults, crashes>>

\* newBlockReceived(h)
Announce(h) ==
    /\ \/ (AppendAtTip(h) \/ NoteHeight(h)) /\ UNCHANGED retryCount
       \/ QueueFull(h) /\ retryCount' = retryCount + 1
    /\ blockTimer' = TRUE
    /\ UNCHANGED <<committed, pc, started, heightToProcess, health, pollers,
                   subscribed, stale, missed, crashes>>

\* Mutant: the poller stops one block short of the node's height.
PollTick_Short ==
    /\ pollers > 0 /\ pc # "crashed"
    /\ latestHeight + 1 < chain
    /\ Announce(latestHeight + 1)
    /\ UNCHANGED <<chain, faults>>

\* A poller that learnt a newer height reports the ones in between.
PollTick ==
    /\ pollers > 0 /\ pc # "crashed"
    /\ latestHeight < chain
    /\ Announce(latestHeight + 1)
    /\ UNCHANGED <<chain, faults>>

\* The chain grows; the node tells the subscriber, unless the message is lost.
NewBlock ==
    /\ chain + 1 \in Height
    /\ chain' = chain + 1
    /\ \/ /\ subscribed /\ pc # "crashed"
          /\ Announce(chain + 1)
          /\ UNCHANGED faults
       \/ /\ IF subscribed THEN Fault ELSE UNCHANGED faults
          /\ missed' = IF ~UsePolling /\ pc \in InLoop \cup {"height"}
                       THEN missed \cup {chain + 1} ELSE missed
          /\ UNCHANGED <<allPipeVars, committed, pc, memoryVars, crashes>>

\* A poller whose status() fails is not scheduled again.
PollFails ==
    /\ pollers > 0 /\ pc # "crashed"
    /\ Fault
    /\ pollers' = pollers - 1
    /\ NoticeTrouble
    /\ retryCount' = retryCount + 1
    /\ UNCHANGED <<chain, committed, pc, started, heightToProcess, health,
                   subscribed, blockTimer, stale, missed, crashes>>

\* A prefetch fails while the loop is busy: the block or its results, or the
\* validators, which callABCI() counts.
FetchFails ==
    /\ stale \/ Len(delivered) < Len(resolved)
    /\ Fault
    /\ NoticeTrouble
    /\ \/ UNCHANGED <<retryCount, health>>
       \/ retryCount' = retryCount + 1 /\ health' = "FAILED"
    /\ UNCHANGED <<chain, committed, pc, started, heightToProcess, pollers,
                   subscribed, blockTimer, stale, missed, crashes>>

\* No block for 30 seconds; the timer outlives the session that armed it.
BlockTimeout ==
    /\ blockTimer /\ pc # "crashed"
    /\ blockTimer' = FALSE
    /\ NoticeTrouble
    /\ UNCHANGED <<chain, committed, pc, started, heightToProcess, retryCount, health,
                   pollers, subscribed, stale, missed, faults, crashes>>

Stop ==
    /\ started /\ pc # "crashed"
    /\ started' = FALSE
    /\ UNCHANGED <<allPipeVars, chain, committed, pc, heightToProcess, retryCount,
                   health, pollers, subscribed, blockTimer, stale, missed, faults, crashes>>

\* The process dies and is run again; a COMMIT under way may have succeeded.
Crash ==
    /\ crashes < MaxCrashes /\ pc # "boot"
    /\ crashes' = crashes + 1
    /\ committed' \in {committed} \cup
                        (IF pc = "commit" THEN {committed \cup {heightToProcess}} ELSE {})
    /\ Reboot
    /\ pc' = "boot"
    /\ started' = FALSE
    /\ heightToProcess' = 0
    /\ retryCount' = 0
    /\ health' = "CONNECTING"
    /\ pollers' = 0
    /\ subscribed' = FALSE /\ blockTimer' = FALSE /\ stale' = FALSE
    /\ UNCHANGED <<chain, missed, faults>>

-----------------------------------------------------------------------------
MainStep ==
    \/ Start \/ LearnLatestHeight \/ LearnNextHeight
    \/ BeginSucceeds \/ BlockArrives
    \/ HandlersFinish \/ CommitSucceeds
    \/ AwaitTimesOut \/ RollbackEnds

FetcherStep == FetcherFetches \/ FetcherStops

Failure ==
    \/ StartFails \/ BeginFails \/ IdleTimeout \/ NoBlockData \/ HandlerFails
    \/ CommitFails \/ PollFails \/ FetchFails \/ BlockTimeout \/ Crash

Next == MainStep \/ FetcherStep \/ PollTick \/ NewBlock \/ Stop \/ Failure

\* Promises that are settled continue and timers fire: the event loop starves
\* nobody.  Nothing obliges the chain to grow, or anything to fail.
Fairness ==
    /\ WF_vars(MainStep)
    /\ WF_vars(FetcherStep)
    /\ WF_vars(PollTick)

SafetySpec == Init /\ [][Next]_vars
Spec == SafetySpec /\ Fairness

-----------------------------------------------------------------------------
(***************************************************************************)
(* Properties                                                              *)
(***************************************************************************)
\* With polling, the block in the hands of the handlers is always the successor
\* of the highest block in the database: prefetched queue, restarts with stale
\* fetches and pollers, and commits that were reported as failed never make the
\* loop skip or repeat a height.
ProcessesNextHeight ==
    UsePolling /\ pc \in {"process", "commit"} => heightToProcess = NextHeight

\* However blocks are announced, the block in the hands of the handlers is newer
\* than every block in the database: a restart, a crash or a commit reported as
\* failed never makes the indexer run the handlers of a height twice over.
NeverReprocesses ==
    pc \in {"process", "commit"} => \A h \in committed : h < heightToProcess

\* With polling, the blocks table grows one height at a time without a gap.
Chain == INSTANCE IndexedChain WITH indexed <- committed
ImplementsIndexedChain == Chain!ChainSpec

\* With polling, every block the node has is indexed in the end, unless the
\* indexer was stopped or gave up on a failure: no wake-up, poller or restart is
\* lost, and a full queue, the block timer or a crash alone never exhaust the
\* retries.
EveryBlockIndexed ==
    \A h \in Height :
        h >= StartHeight /\ h <= chain
            ~> \/ h \in committed
               \/ pc = "stopped"
               \/ pc \in GivenUp /\ faults > 0

\* An indexer that gave up is not reported healthy: the retries of several
\* pollers and fetches never add up to the end of the indexer behind a block
\* that was just committed.
FatalIsUnhealthy ==
    pc = "fatal" => health = "FAILED"

\* The loop tests the end height before it knows the next height, so that it takes
\* one block more than endHeight says; restarts, failures and crashes around the
\* end never make it two.
AtMostOneBeyondEnd ==
    EndHeight # NoEndHeight =>
        \A h, k \in committed : h > EndHeight /\ k > EndHeight => h = k

\* With a subscription, heights fall out of the table only if they were made between
\* the answer of status() and the subscription, or their announcement was lost: those
\* announced while the fetcher is at work, the queue is full, or the loop is on its
\* way to a restart are indexed like the others.
SkipsOnlyMissed ==
    \A h \in committed : \A k \in StartHeight .. h : k \in committed \cup missed
=============================================================================

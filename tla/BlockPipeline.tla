---------------------------- MODULE BlockPipeline ----------------------------
(***************************************************************************)
(* The users of the block queue inside one EcleciaIndexer: the fetcher that*)
(* downloads the backlog, the block listener that appends new heights once *)
(* the fetcher has caught up, and the processing loop that dequeues.       *)
(*                                                                         *)
(* Node runs them on one thread; an action is what runs between two awaits.*)
(* A session is one run of start(): it clears the queue, launches a fetcher*)
(* and iterates the loop until that gives up; then start() runs again.     *)
(***************************************************************************)
EXTENDS CircularBuffer

CONSTANTS
    Height,       \* the block heights of the chain
    UsePolling    \* config.usePolling: poll status() or subscribe to blocks

\* A chain misses no height between two of its blocks.
ASSUME HeightAssumption ==
    /\ Height \subseteq Nat /\ \A h, k \in Height : h .. k \subseteq Height
    /\ UsePolling \in BOOLEAN

VARIABLES
    session,        \* "over", "starting" (queue cleared) or "live" (loop runs)
    latestHeight,   \* newest height heard of
    tryToRecover,   \* a problem was noticed: leave the loop and start again
    fetcher,        \* state of fetcher(): [state, height] of its last fetch
    taken,          \* the promise the loop awaits, or NoPromise
    delivered       \* heights the loop received in this session

pipeVars == <<session, latestHeight, tryToRecover, fetcher, taken, delivered>>
allPipeVars == <<ringVars, pipeVars>>

FetcherOff == [state |-> "off", height |-> 0]

PipelineInit ==
    /\ BufferInit
    /\ session = "over"
    /\ latestHeight = 0
    /\ tryToRecover = FALSE
    /\ fetcher = FetcherOff
    /\ taken = NoPromise
    /\ delivered = <<>>

-----------------------------------------------------------------------------
\* Mutant: start() that does not clear the queue.
StartSession_Unclear ==
    /\ session = "over" /\ fetcher.state # "ready"
    /\ session' = "starting"
    /\ taken' = NoPromise
    /\ delivered' = <<>>
    /\ UNCHANGED <<ringVars, latestHeight, tryToRecover, fetcher>>

(***************************************************************************)
(* start().  The restart is a timer: the microtasks of a fetcher whose     *)
(* continuePromise was settled have run by then.  A fetcher that still     *)
(* waits is lost, since clear() drops the promise it waits for.            *)
(***************************************************************************)
StartSession ==
    /\ session = "over"
    /\ fetcher.state # "ready"
    /\ Clear
    /\ session' = "starting"
    /\ fetcher' = FetcherOff
    /\ taken' = NoPromise
    /\ delivered' = <<>>
    /\ UNCHANGED <<latestHeight, tryToRecover>>

StatusReply(h) ==
    /\ session = "starting"
    /\ latestHeight' = h
    /\ UNCHANGED <<ringVars, session, tryToRecover, fetcher, taken, delivered>>

\* Mutant: the fetcher does not wait for continue().
FetchRound_NoWait(i) ==
    IF i <= latestHeight
    THEN Enqueue(i) /\ fetcher' = [state |-> "ready", height |-> i]
    ELSE SetSynced /\ fetcher' = FetcherOff

\* Mutant: the fetcher stops one height short.
FetchRound_Short(i) ==
    IF i < latestHeight
    THEN /\ Enqueue(i)
         /\ fetcher' = [state  |-> IF continueOpen' THEN "ready" ELSE "waiting",
                        height |-> i]
    ELSE SetSynced /\ fetcher' = FetcherOff

\* One round of the fetcher's loop, from its test of i to its next await.
FetchRound(i) ==
    IF i <= latestHeight
    THEN /\ Enqueue(i)
         /\ fetcher' = [state  |-> IF continueOpen' THEN "ready" ELSE "waiting",
                        height |-> i]
    ELSE /\ SetSynced
         /\ fetcher' = FetcherOff

\* getNextHeight() answered h: the fetcher runs up to its first await and the
\* loop begins, if its condition holds.  The node is at least as far as the
\* database.
Launch(h, loops) ==
    /\ session = "starting"
    /\ h <= latestHeight + 1
    /\ session' = IF loops THEN "live" ELSE "over"
    /\ tryToRecover' = FALSE
    /\ FetchRound(h)
    /\ UNCHANGED <<latestHeight, taken, delivered>>

FetcherContinues ==
    /\ fetcher.state = "ready"
    /\ ~tryToRecover
    /\ FetchRound(fetcher.height + 1)
    /\ UNCHANGED <<session, latestHeight, tryToRecover, taken, delivered>>

FetcherGivesUp ==
    /\ fetcher.state = "ready"
    /\ tryToRecover
    /\ fetcher' = FetcherOff
    /\ UNCHANGED <<ringVars, session, latestHeight, tryToRecover, taken, delivered>>

-----------------------------------------------------------------------------
\* Mutant: newBlockReceived() that does not look at `synced'.
AppendAtTip_Unsynced(h) ==
    /\ ~tryToRecover /\ count + 1 # BatchSize
    /\ Enqueue(h)
    /\ latestHeight' = h
    /\ UNCHANGED <<session, tryToRecover, fetcher, taken, delivered>>

\* Mutant: the queue is taken to be full one block later.
AppendAtTip_Late(h) ==
    /\ synced /\ ~tryToRecover /\ count # BatchSize
    /\ Enqueue(h)
    /\ latestHeight' = h
    /\ UNCHANGED <<session, tryToRecover, fetcher, taken, delivered>>

(***************************************************************************)
(* newBlockReceived(h), for a height other than latestHeight, by what it   *)
(* finds: a synced queue with room, a full one, or a fetcher still at work *)
(* (which reads latestHeight before every fetch).                          *)
(***************************************************************************)
AppendAtTip(h) ==
    /\ synced /\ ~tryToRecover
    /\ count + 1 # BatchSize
    /\ Enqueue(h)
    /\ latestHeight' = h
    /\ UNCHANGED <<session, tryToRecover, fetcher, taken, delivered>>

QueueFull(h) ==
    /\ synced /\ ~tryToRecover
    /\ count + 1 = BatchSize
    /\ latestHeight' = h
    /\ tryToRecover' = TRUE
    /\ UNCHANGED <<ringVars, session, fetcher, taken, delivered>>

NoteHeight(h) ==
    /\ ~synced \/ tryToRecover
    /\ latestHeight' = h
    /\ UNCHANGED <<ringVars, session, tryToRecover, fetcher, taken, delivered>>

\* pollForBlock() reports every height after latestHeight in turn, the
\* subscription whatever height the node announces.
Announced ==
    {h \in Height : IF UsePolling THEN h = latestHeight + 1 ELSE h > latestHeight}

NewBlockReceived(h) == AppendAtTip(h) \/ QueueFull(h) \/ NoteHeight(h)

-----------------------------------------------------------------------------
(***************************************************************************)
(* The loop.  Take hands it the oldest promise and settles the             *)
(* continuePromise a fetcher may wait for; Deliver is the await of a       *)
(* promise that was settled; Abandon is the timeout of that await, or a    *)
(* fetch that came back empty; Quit leaves the loop for any other reason.  *)
(***************************************************************************)
\* Mutant: a dequeue that wakes nobody.
Woken_Never == fetcher

Woken == IF fetcher.state = "waiting" /\ continueOpen'
         THEN [fetcher EXCEPT !.state = "ready"]
         ELSE fetcher

Take ==
    /\ session = "live" /\ taken = NoPromise
    /\ count > 0
    /\ Dequeue
    /\ taken' = items[next]
    /\ fetcher' = Woken
    /\ UNCHANGED <<session, latestHeight, tryToRecover, delivered>>

\* Mutant: the loop reads the promise behind the one it took.
Deliver_Next ==
    /\ session = "live" /\ taken # NoPromise
    /\ taken + 1 < Placeholder
    /\ delivered' = Append(delivered, resolved[taken + 2])
    /\ taken' = NoPromise
    /\ UNCHANGED <<ringVars, session, latestHeight, tryToRecover, fetcher>>

Deliver ==
    /\ session = "live" /\ taken # NoPromise
    /\ taken < Placeholder
    /\ delivered' = Append(delivered, resolved[taken + 1])
    /\ taken' = NoPromise
    /\ UNCHANGED <<ringVars, session, latestHeight, tryToRecover, fetcher>>

Abandon ==
    /\ session = "live" /\ taken # NoPromise
    /\ session' = "over"
    /\ UNCHANGED <<ringVars, latestHeight, tryToRecover, fetcher, taken, delivered>>

Quit ==
    /\ session = "live" /\ taken = NoPromise
    /\ session' = "over"
    /\ UNCHANGED <<ringVars, latestHeight, tryToRecover, fetcher, taken, delivered>>

\* Any of the error callbacks: a failed fetch or query, a poll that failed, the
\* timer that waits for the next block, the failure of a block.
NoticeTrouble ==
    /\ tryToRecover' = TRUE
    /\ UNCHANGED <<ringVars, session, latestHeight, fetcher, taken, delivered>>

\* The process died and is run again.
Reboot ==
    /\ Clear
    /\ session' = "over"
    /\ latestHeight' = 0
    /\ tryToRecover' = FALSE
    /\ fetcher' = FetcherOff
    /\ taken' = NoPromise
    /\ delivered' = <<>>

-----------------------------------------------------------------------------
PipelineNext ==
    \/ StartSession
    \/ \E h \in Height : StatusReply(h)
    \/ \E h \in Height \cup {latestHeight + 1}, loops \in BOOLEAN : Launch(h, loops)
    \/ \E h \in Announced : NewBlockReceived(h)
    \/ FetcherContinues \/ FetcherGivesUp
    \/ Take \/ Deliver \/ Abandon \/ Quit
    \/ NoticeTrouble \/ Reboot

PipelineSafety == PipelineInit /\ [][PipelineNext]_allPipeVars

\* Awaits that are over continue, and every fetch ends within RPC_TIMEOUT_MS.
PipelineFairness ==
    /\ WF_allPipeVars(FetcherContinues)
    /\ WF_allPipeVars(Take)
    /\ WF_allPipeVars(Deliver)

PipelineSpec == PipelineSafety /\ PipelineFairness

-----------------------------------------------------------------------------
(***************************************************************************)
(* Properties                                                              *)
(***************************************************************************)
PipelineTypeOK ==
    /\ items \in [Slots -> Nat \cup {NoPromise}]
    /\ count \in 0 .. BatchSize
    /\ next \in Slots /\ nextAvail \in Slots
    /\ resolved \in Seq(Nat)
    /\ continueOpen \in BOOLEAN /\ synced \in BOOLEAN
    /\ session \in {"over", "starting", "live"}
    /\ latestHeight \in Nat
    /\ tryToRecover \in BOOLEAN
    /\ fetcher \in [state : {"off", "ready", "waiting"}, height : Nat]
    /\ taken \in Nat \cup {NoPromise}
    /\ delivered \in Seq(Nat)

Dequeued  == Len(delivered) + IF taken = NoPromise THEN 0 ELSE 1
SlotAt(k) == IF next + k < BatchSize THEN next + k ELSE next + k - BatchSize

\* Every promise handed to nobody yet is still in the ring, in the order of its
\* creation: enqueue, which has no test for a full ring, overwrote none of them.
HoldsUndelivered ==
    /\ count = Placeholder + 1 - Dequeued
    /\ \A k \in 0 .. count - 1 : items[SlotAt(k)] = Dequeued + k

\* Whoever may enqueue next finds a free slot: the fetcher that was let through
\* by continue(), or the block listener once the queue is synced.
ProducerHasRoom ==
    fetcher.state = "ready" \/ synced => count < BatchSize

\* A fetcher waits on continue() only while the ring is full, so a dequeue is
\* still to come that will wake it: no wake-up is lost.
FetcherWaitsForFullRing ==
    fetcher.state = "waiting" => ~continueOpen /\ count = BatchSize

\* The loop's condition size() > 0 never ends a session by itself: a loop that
\* comes back for the next block finds a promise in the ring.
LoopFindsPromise ==
    session = "live" /\ taken = NoPromise => count > 0

\* With polling, the loop receives consecutive heights, whatever mixture of
\* fetcher and block listener enqueued them.
DeliversConsecutiveHeights ==
    UsePolling => \A j \in 2 .. Len(delivered) : delivered[j] = delivered[j - 1] + 1

\* With polling, a synced queue that saw no trouble has been given every height
\* heard of: none falls between the fetcher's last test of latestHeight and the
\* first block the listener appends.
SyncedIsCaughtUp ==
    UsePolling /\ synced /\ ~tryToRecover /\ resolved # <<>> =>
        resolved[Len(resolved)] = latestHeight

\* The ring and its users are a bounded first-in first-out channel of heights.
Fifo == INSTANCE BlockFifo WITH Capacity <- BatchSize, put <- resolved, got <- delivered
ImplementsFifo == Fifo!FifoSpec

\* A height that was enqueued is delivered unless its session ends.
EnqueuedIsDelivered ==
    \A h \in Height :
        (\E j \in DOMAIN resolved : resolved[j] = h)
            ~> (session # "live" \/ \E j \in DOMAIN delivered : delivered[j] = h)

\* A session that stays free of trouble catches up with the chain and hands the
\* production of blocks over to the listener for good.
HealthySessionSyncs ==
    <>[](session = "live" /\ ~tryToRecover) => <>[]synced
=============================================================================

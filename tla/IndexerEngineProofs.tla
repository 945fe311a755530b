------------------------- MODULE IndexerEngineProofs -------------------------
(***************************************************************************)
(* Proofs about the life of an indexer, for every batch size, every set of *)
(* heights without gaps, either way of announcing blocks, every start and  *)
(* end height, and any number of failures, crashes and restarts.           *)
(*                                                                         *)
(* Every step of the engine is a step of the queue and its users, so that  *)
(* what BlockPipelineProofs has of them is there to use.  The invariant of *)
(* the engine adds where the loop is (PlacesOK), that the queue holds      *)
(* increasing heights above all that is committed (QueueOK, LiveOK), and   *)
(* that no height is left out but those nobody announced (GapsOK).         *)
(***************************************************************************)
EXTENDS IndexerEngine, BlockPipelineProofs, Maxima

Working == {"process", "commit"}

PlacesOK ==
    /\ chain \in Height /\ latestHeight \in 0 .. chain
    /\ committed \subseteq StartHeight .. chain
    /\ heightToProcess \in Nat /\ retryCount \in Nat /\ pollers \in Nat
    /\ started \in BOOLEAN
    /\ pc \in {"boot", "delay", "rollback", "stopped", "fatal"} => session = "over"
    /\ pc \in {"status", "height", "crashed"} => session = "starting"
    /\ pc \in InLoop => session = "live"
    /\ pc \in {"boot", "delay", "rollback", "stopped", "fatal",
               "status", "height", "crashed"} \cup InLoop
    /\ session # "over" /\ pc # "wait" => taken = NoPromise
    /\ pc = "height" => latestHeight \in Height
    /\ pollers > 0 => UsePolling /\ latestHeight \in Height
    /\ subscribed => ~UsePolling

\* What was enqueued are heights in increasing order.
QueueOK ==
    /\ \A j \in 1 .. Len(resolved) : StartHeight <= resolved[j] /\ resolved[j] <= latestHeight
    /\ \A j, k \in 1 .. Len(resolved) : j < k => resolved[j] < resolved[k]
    /\ synced => StartHeight <= latestHeight + 1

\* What a live session did not commit yet is above all that is committed.
Undelivered == {resolved[j] : j \in Len(delivered) + 1 .. Len(resolved)}
Underway == Undelivered \cup (IF pc \in Working THEN {heightToProcess} ELSE {})

LiveOK ==
    /\ session = "live" => \A h \in committed :
          h <= latestHeight /\ (resolved # <<>> => h <= resolved[Len(resolved)])
    /\ session = "live" => \A h \in committed, k \in Underway : h < k
    /\ pc \in Working => delivered # <<>> /\ heightToProcess = delivered[Len(delivered)]

\* Every height is committed, under way, or was missed: below what was committed, below
\* what was enqueued, and, as long as there was no trouble, up to the newest height the
\* producers were told of.
Top == IF UsePolling THEN latestHeight ELSE chain
Accounted(h) == h \in committed \cup missed \cup Underway

GapsOK ==
    /\ UsePolling => missed = {}
    /\ SkipsOnlyMissed
    /\ session = "live" =>
          /\ \A j \in 1 .. Len(resolved) : \A k \in StartHeight .. resolved[j] : Accounted(k)
          /\ synced /\ ~tryToRecover => \A k \in StartHeight .. Top : Accounted(k)
          /\ fetcher.state # "off" /\ ~tryToRecover =>
                \A k \in latestHeight + 1 .. Top : k \in missed
    /\ pc = "height" /\ ~UsePolling => \A k \in latestHeight + 1 .. chain : k \in missed

EndOK ==
    EndHeight # NoEndHeight /\ pc \in InLoop => \A h \in committed : h <= EndHeight

HealthOK ==
    pc \in {"rollback", "fatal"} => health = "FAILED"

EngineInv ==
    PlacesOK /\ QueueOK /\ LiveOK /\ GapsOK /\ EndOK /\ HealthOK /\ AtMostOneBeyondEnd

USE BatchSizeAssumption DEF Slots, NoPromise, Placeholder

-----------------------------------------------------------------------------
\* The constants as the proofs use them: heights are numbers without a gap.
LEMMA EngineFacts ==
    /\ Height \subseteq Nat /\ StartHeight \in Height /\ StartHeight \in Nat
    /\ EndHeight # NoEndHeight => EndHeight \in Nat
    /\ UsePolling \in BOOLEAN
    /\ MaxPollers \in Nat
    /\ \A h, k \in Height : h .. k \subseteq Height
BY HeightAssumption, EngineAssumption

\* getNextHeight() answers the successor of the newest block in the database.
LEMMA NextHeightFacts ==
    ASSUME chain \in Height, committed \subseteq StartHeight .. chain
    PROVE  /\ NextHeight \in StartHeight .. chain + 1 \cup {StartHeight}
           /\ \A h \in committed : h < NextHeight
           /\ committed # {} => NextHeight - 1 \in committed
           /\ committed = {} => NextHeight = StartHeight
<1>1. CASE committed = {}
  BY <1>1, EngineFacts DEF NextHeight
<1>2. CASE committed # {}
  <2>0. StartHeight \in Nat /\ chain \in Nat
    BY EngineFacts
  <2>1. committed \in SUBSET Nat /\ chain \in Nat /\ \A h \in committed : h <= chain
    BY EngineFacts
  <2>2. Max(committed) \in committed /\ \A h \in committed : h <= Max(committed)
    BY <1>2, <2>1, MaxOfBounded
  <2>3. NextHeight = Max(committed) + 1
    BY <1>2 DEF NextHeight
  <2>4. Max(committed) \in Nat /\ StartHeight <= Max(committed) /\ Max(committed) <= chain
    <3>1. Max(committed) \in StartHeight .. chain
      BY <2>2
    <3> QED
      BY <2>0, <3>1
  <2>5. \A h \in committed : h < NextHeight
    BY <2>1, <2>2, <2>3, <2>4
  <2>6. NextHeight \in StartHeight .. chain + 1
    BY <2>0, <2>3, <2>4
  <2>7. NextHeight - 1 = Max(committed)
    BY <2>3, <2>4
  <2> QED
    BY <1>2, <2>2, <2>5, <2>6, <2>7
<1> QED
  BY <1>1, <1>2

-----------------------------------------------------------------------------
\* Every step of the engine is a step of the queue and its users, or none of theirs: the
\* heights it enqueues, asks for and announces are heights of the chain.
LEMMA EngineStepIsPipelineStep ==
    PlacesOK /\ [Next]_vars => [PipelineNext]_allPipeVars
<1> SUFFICES ASSUME PlacesOK, [Next]_vars PROVE [PipelineNext]_allPipeVars
  OBVIOUS
<1>0. chain \in Height /\ chain \in Nat /\ latestHeight \in 0 .. chain
  BY EngineFacts DEF PlacesOK
<1>1. CASE Start
  BY <1>1 DEF Start, PipelineNext
<1>2. CASE LearnLatestHeight
  BY <1>0, <1>2 DEF LearnLatestHeight, PipelineNext
<1>3. CASE LearnNextHeight
  <2> DEFINE h == NextHeight
             loops == started /\ BeforeEnd(NextHeight)
  <2>1. Launch(h, loops) /\ h <= latestHeight + 1
    BY <1>3 DEF LearnNextHeight, Launch
  <2>2. h \in Height \cup {latestHeight + 1}
    <3>1. h \in StartHeight .. chain + 1 \cup {StartHeight}
      BY NextHeightFacts DEF PlacesOK
    <3>2. CASE h = StartHeight
      BY <3>2, EngineFacts
    <3>3. CASE h \in StartHeight .. chain
      BY <1>0, <3>3, EngineFacts
    <3>4. CASE h = chain + 1
      BY <1>0, <2>1, <3>4
    <3> HIDE DEF h
    <3> QED
      BY <1>0, <3>1, <3>2, <3>3, <3>4, EngineFacts
  <2>3. loops \in BOOLEAN
    BY DEF PlacesOK, BeforeEnd
  <2> QED
    BY <2>1, <2>2, <2>3 DEF PipelineNext
<1>4. CASE BeginSucceeds
  BY <1>4 DEF BeginSucceeds, PipelineNext
<1>5. CASE BlockArrives
  BY <1>5 DEF BlockArrives, PipelineNext
<1>6. CASE CommitSucceeds
  BY <1>6 DEF CommitSucceeds, PipelineNext
<1>7. CASE AwaitTimesOut \/ IdleTimeout \/ NoBlockData
  BY <1>7 DEF AwaitTimesOut, IdleTimeout, NoBlockData, PipelineNext
<1>8. CASE BeginFails \/ HandlerFails \/ CommitFails
  BY <1>8 DEF BeginFails, HandlerFails, CommitFails, PipelineNext
<1>9. CASE RollbackEnds \/ PollFails \/ FetchFails \/ BlockTimeout
  BY <1>9 DEF RollbackEnds, PollFails, FetchFails, BlockTimeout, PipelineNext
<1>10. CASE FetcherFetches \/ FetcherStops
  BY <1>10 DEF FetcherFetches, FetcherStops, PipelineNext
<1>11. CASE PollTick
  <2>1. UsePolling /\ latestHeight \in Height /\ latestHeight < chain
    BY <1>11 DEF PollTick, PlacesOK
  <2>2. latestHeight + 1 \in latestHeight .. chain
    BY <1>0, <2>1
  <2>3. latestHeight + 1 \in Announced
    BY <1>0, <2>1, <2>2, EngineFacts DEF Announced
  <2> QED
    BY <1>11, <2>3 DEF PollTick, Announce, NewBlockReceived, PipelineNext
<1>12. CASE NewBlock
  <2>1. CASE subscribed /\ Announce(chain + 1)
    <3>1. chain + 1 \in Announced
      BY <1>0, <1>12, <2>1 DEF NewBlock, Announced, PlacesOK
    <3> QED
      BY <2>1, <3>1 DEF Announce, NewBlockReceived, PipelineNext
  <2>2. CASE UNCHANGED allPipeVars
    BY <2>2
  <2> QED
    BY <1>12, <2>1, <2>2 DEF NewBlock
<1>13. CASE Crash
  BY <1>13 DEF Crash, PipelineNext
<1>14. CASE StartFails \/ HandlersFinish \/ Stop
  BY <1>14 DEF StartFails, HandlersFinish, Stop
<1>15. CASE UNCHANGED vars
  BY <1>15 DEF vars
<1> QED
  BY <1>1, <1>2, <1>3, <1>4, <1>5, <1>6, <1>7, <1>8, <1>9, <1>10, <1>11, <1>12, <1>13,
     <1>14, <1>15 DEF Next, MainStep, FetcherStep, Failure

-----------------------------------------------------------------------------
\* Numbers and sequences of the queue, with the types they have.
LEMMA QueueTypes ==
    ASSUME IInv, EngineInv
    PROVE  /\ chain \in Nat /\ latestHeight \in Nat /\ latestHeight <= chain
           /\ committed \subseteq StartHeight .. chain
           /\ resolved \in Seq(Nat) /\ Len(resolved) \in Nat
           /\ Len(delivered) \in Nat /\ Len(delivered) <= Len(resolved)
           /\ \A j \in 1 .. Len(delivered) : delivered[j] = resolved[j]
<1>1. chain \in Nat /\ latestHeight \in 0 .. chain /\ committed \subseteq StartHeight .. chain
  BY EngineFacts DEF EngineInv, PlacesOK
<1>2. latestHeight \in Nat /\ latestHeight <= chain
  BY <1>1
<1>3. resolved \in Seq(Nat) /\ delivered \in Seq(Nat) /\ Len(delivered) <= Len(resolved)
        /\ \A j \in 1 .. Len(delivered) : delivered[j] = resolved[j]
  BY DEF IInv, RingOK
<1> QED
  BY <1>1, <1>2, <1>3

\* The block in the hands of the handlers is the newest one delivered: above all that is
\* committed, below all that is still to be delivered, with nothing left out below it.
LEMMA BlockInHand ==
    ASSUME IInv, EngineInv, pc \in Working
    PROVE  /\ heightToProcess \in StartHeight .. chain /\ heightToProcess <= latestHeight
           /\ \A h \in committed : h < heightToProcess
           /\ \A k \in Undelivered : heightToProcess < k
           /\ \A k \in StartHeight .. heightToProcess :
                 k = heightToProcess \/ k \in committed \cup missed
           /\ resolved # <<>> /\ heightToProcess <= resolved[Len(resolved)]
<1> DEFINE n == Len(delivered)
<1>1. /\ chain \in Nat /\ latestHeight \in Nat /\ latestHeight <= chain
      /\ resolved \in Seq(Nat) /\ Len(resolved) \in Nat
      /\ n \in Nat /\ n <= Len(resolved)
      /\ \A j \in 1 .. n : delivered[j] = resolved[j]
  BY QueueTypes
<1>2. session = "live" /\ delivered # <<>> /\ heightToProcess = delivered[n]
  <2>1. pc \in InLoop
    BY DEF Working, InLoop
  <2> QED
    BY <2>1 DEF EngineInv, PlacesOK, LiveOK
<1>3. n \in 1 .. Len(resolved)
  <2>1. delivered \in Seq(Nat)
    BY DEF IInv, RingOK
  <2>2. n # 0
    BY <1>2, <2>1
  <2> QED
    BY <1>1, <2>2
<1>4. heightToProcess = resolved[n]
  <2>1. n \in 1 .. n
    BY <1>3
  <2> QED
    BY <1>1, <1>2, <2>1
<1>5. resolved[n] \in Nat /\ StartHeight <= resolved[n] /\ resolved[n] <= latestHeight
  BY <1>1, <1>3 DEF EngineInv, QueueOK
<1>6. heightToProcess \in StartHeight .. chain
  BY <1>1, <1>4, <1>5, EngineFacts
<1>7. heightToProcess \in Underway
  BY DEF Underway
<1>8. \A h \in committed : h < heightToProcess
  BY <1>2, <1>7 DEF EngineInv, LiveOK
<1>9. ASSUME NEW k \in Undelivered PROVE heightToProcess < k
  <2>1. PICK j \in n + 1 .. Len(resolved) : k = resolved[j]
    BY DEF Undelivered
  <2>2. j \in 1 .. Len(resolved) /\ n < j
    BY <1>1, <2>1
  <2> QED
    BY <1>3, <1>4, <2>1, <2>2 DEF EngineInv, QueueOK
<1>10. ASSUME NEW k \in StartHeight .. heightToProcess
       PROVE  k = heightToProcess \/ k \in committed \cup missed
  <2>1. Accounted(k)
    BY <1>2, <1>3, <1>4 DEF EngineInv, GapsOK
  <2>2. k \notin Undelivered
    <3>1. k \in Nat /\ heightToProcess \in Nat /\ k <= heightToProcess
      BY <1>4, <1>5, EngineFacts
    <3> QED
      BY <1>9, <3>1
  <2> QED
    BY <2>1, <2>2 DEF Accounted, Underway
<1>11. resolved # <<>>
  BY <1>3
<1>12. heightToProcess <= resolved[Len(resolved)]
  <2>1. CASE n = Len(resolved)
    BY <1>4, <1>5, <2>1
  <2>2. CASE n # Len(resolved)
    <3>1. n < Len(resolved) /\ Len(resolved) \in 1 .. Len(resolved)
      BY <1>1, <1>3, <2>2
    <3>2. resolved[n] < resolved[Len(resolved)]
      BY <1>3, <3>1 DEF EngineInv, QueueOK
    <3>3. resolved[Len(resolved)] \in Nat
      BY <1>1, <3>1
    <3> QED
      BY <1>4, <1>5, <3>2, <3>3
  <2> QED
    BY <2>1, <2>2
<1> QED
  BY <1>4, <1>5, <1>6, <1>8, <1>9, <1>10, <1>11, <1>12

\* A commit that succeeded, though it may have been reported as failed or the process may
\* have died over it, keeps the table in order.
TableOK ==
    /\ committed \subseteq StartHeight .. chain
    /\ SkipsOnlyMissed
    /\ AtMostOneBeyondEnd
    /\ UsePolling => missed = {}

LEMMA CommitKeepsTable ==
    ASSUME IInv, EngineInv, chain' = chain, missed' = missed,
           committed' = committed \/ (pc = "commit" /\ committed' = committed \cup {heightToProcess})
    PROVE  TableOK'
<1>1. TableOK
  BY DEF EngineInv, PlacesOK, GapsOK, TableOK
<1>2. CASE committed' = committed
  BY <1>1, <1>2 DEF TableOK, SkipsOnlyMissed, AtMostOneBeyondEnd
<1>3. CASE pc = "commit" /\ committed' = committed \cup {heightToProcess}
  <2>1. pc \in Working /\ pc \in InLoop
    BY <1>3 DEF Working, InLoop
  <2>2. /\ heightToProcess \in StartHeight .. chain
        /\ \A k \in StartHeight .. heightToProcess :
              k = heightToProcess \/ k \in committed \cup missed
    BY <2>1, BlockInHand
  <2>3. SkipsOnlyMissed'
    BY <1>1, <1>3, <2>2 DEF TableOK, SkipsOnlyMissed
  <2>4. AtMostOneBeyondEnd'
    <3> SUFFICES ASSUME EndHeight # NoEndHeight,
                        NEW h \in committed', NEW k \in committed',
                        h > EndHeight, k > EndHeight
                 PROVE  h = k
      BY DEF AtMostOneBeyondEnd
    <3>1. \A c \in committed : c <= EndHeight
      BY <2>1 DEF EngineInv, EndOK
    <3>2. EndHeight \in Nat /\ committed \subseteq Nat
      BY EngineFacts, QueueTypes
    <3>3. ASSUME NEW c \in committed, c > EndHeight PROVE FALSE
      <4>1. c \in Nat /\ c <= EndHeight
        BY <3>1, <3>2
      <4> QED
        BY <3>2, <3>3, <4>1
    <3> QED
      BY <1>3, <3>3
  <2> QED
    BY <1>1, <1>3, <2>2, <2>3, <2>4 DEF TableOK
<1> QED
  BY <1>2, <1>3

-----------------------------------------------------------------------------
\* Trouble that is noted, a failure that is counted, a timer or a poller that ends and a
\* fetcher that gives up do not touch what the invariant says.
LEMMA QuietKeeps ==
    ASSUME EngineInv,
           UNCHANGED <<ringVars, session, latestHeight, taken, delivered,
                       chain, committed, pc, heightToProcess, missed>>,
           ~tryToRecover' => ~tryToRecover,
           fetcher'.state # "off" => fetcher.state # "off",
           health' \in {health, "FAILED"},
           started' \in BOOLEAN, retryCount' \in Nat,
           pollers' \in Nat, pollers' > 0 => pollers > 0,
           subscribed' => subscribed
    PROVE  EngineInv'
<1>0. resolved' = resolved /\ synced' = synced
  BY DEF ringVars
<1>1. PlacesOK'
  BY DEF EngineInv, PlacesOK
<1>2. QueueOK'
  BY <1>0 DEF EngineInv, QueueOK
<1>3. Undelivered' = Undelivered /\ Underway' = Underway
  BY <1>0 DEF Undelivered, Underway
<1>4. LiveOK'
  BY <1>0, <1>3 DEF EngineInv, LiveOK
<1>5. GapsOK'
  <2>1. \A k : Accounted(k)' <=> Accounted(k)
    BY <1>3 DEF Accounted
  <2>2. SkipsOnlyMissed' /\ Top' = Top
    BY DEF EngineInv, GapsOK, SkipsOnlyMissed, Top
  <2> QED
    BY <1>0, <2>1, <2>2 DEF EngineInv, GapsOK
<1>6. EndOK' /\ HealthOK' /\ AtMostOneBeyondEnd'
  BY DEF EngineInv, EndOK, HealthOK, AtMostOneBeyondEnd
<1> QED
  BY <1>1, <1>2, <1>4, <1>5, <1>6 DEF EngineInv

\* Where no session is live, all that counts is where the loop is, the queue and the table.
LEMMA NoSessionKeeps ==
    ASSUME PlacesOK', QueueOK', TableOK', session' # "live",
           pc' = "height" => latestHeight' = chain',
           HealthOK'
    PROVE  EngineInv'
<1>1. pc' \notin Working /\ pc' \notin InLoop
  BY DEF PlacesOK, Working, InLoop
<1>2. LiveOK'
  BY <1>1 DEF LiveOK
<1>3. GapsOK'
  <2>1. ASSUME pc' = "height" PROVE \A k \in latestHeight' + 1 .. chain' : FALSE
    <3>1. PICK c \in Nat : chain' = c /\ latestHeight' = c
      BY <2>1, EngineFacts DEF PlacesOK
    <3> QED
      BY <3>1
  <2> QED
    BY <2>1 DEF TableOK, GapsOK
<1>4. EndOK'
  BY <1>1 DEF EndOK
<1> QED
  BY <1>2, <1>3, <1>4 DEF TableOK, EngineInv

\* A queue that nothing is added to is in order for any newer height.
LEMMA QueueKept ==
    ASSUME IInv, EngineInv, resolved' = resolved, synced' = synced,
           NEW h \in Nat, latestHeight' = h, h >= latestHeight
    PROVE  QueueOK'
<1>1. latestHeight \in Nat /\ resolved \in Seq(Nat) /\ StartHeight \in Nat
  BY QueueTypes, EngineFacts
<1>2. \A j \in 1 .. Len(resolved) : resolved[j] \in Nat
  BY <1>1
<1>3. \A j \in 1 .. Len(resolved') : StartHeight <= resolved'[j] /\ resolved'[j] <= latestHeight'
  <2> SUFFICES ASSUME NEW j \in 1 .. Len(resolved)
               PROVE  StartHeight <= resolved[j] /\ resolved[j] <= latestHeight'
    OBVIOUS
  <2>1. StartHeight <= resolved[j] /\ resolved[j] <= latestHeight
    BY DEF EngineInv, QueueOK
  <2> QED
    BY <1>1, <1>2, <2>1
<1>4. synced' => StartHeight <= latestHeight' + 1
  <2> SUFFICES ASSUME synced PROVE StartHeight <= latestHeight' + 1
    OBVIOUS
  <2>1. StartHeight <= latestHeight + 1
    BY DEF EngineInv, QueueOK
  <2> QED
    BY <1>1, <2>1
<1>5. \A j, k \in 1 .. Len(resolved) : j < k => resolved[j] < resolved[k]
  BY DEF EngineInv, QueueOK
<1> QED
  BY <1>3, <1>4, <1>5 DEF QueueOK

\* The loop is left: the queue stays as it is, a commit may have succeeded.
LEMMA LeaveKeeps ==
    ASSUME IInv, EngineInv,
           session' = "over", pc' \in {"delay", "rollback", "stopped"},
           UNCHANGED <<ringVars, latestHeight, chain, missed, heightToProcess,
                       pollers, subscribed>>,
           committed' = committed
             \/ (pc = "commit" /\ committed' = committed \cup {heightToProcess}),
           started' \in BOOLEAN, retryCount' \in Nat,
           pc' = "rollback" => health' = "FAILED"
    PROVE  EngineInv'
<1>1. TableOK'
  BY CommitKeepsTable
<1>2. PlacesOK'
  BY <1>1 DEF EngineInv, PlacesOK, TableOK, InLoop, Working
<1>3. QueueOK'
  <2>1. latestHeight \in Nat /\ latestHeight >= latestHeight
    BY QueueTypes
  <2> QED
    BY <2>1, QueueKept DEF ringVars
<1>4. HealthOK'
  BY DEF HealthOK
<1> QED
  BY <1>1, <1>2, <1>3, <1>4, NoSessionKeeps

-----------------------------------------------------------------------------
\* A height that is enqueued above those before it leaves the queue in order.
LEMMA Appended ==
    ASSUME IInv, EngineInv, NEW h \in Nat, NEW heard \in Nat,
           resolved' = Append(resolved, h), delivered' = delivered,
           latestHeight' = heard, latestHeight <= heard, StartHeight <= h, h <= heard,
           resolved # <<>> => resolved[Len(resolved)] < h
    PROVE  /\ QueueOK'
           /\ Undelivered' = Undelivered \cup {h}
           /\ resolved' # <<>> /\ resolved'[Len(resolved')] = h
           /\ Len(resolved') = Len(resolved) + 1
           /\ \A j \in 1 .. Len(resolved) : resolved'[j] = resolved[j]
<1>1. /\ resolved \in Seq(Nat) /\ Len(resolved) \in Nat /\ latestHeight \in Nat
      /\ Len(delivered) \in Nat /\ Len(delivered) <= Len(resolved) /\ StartHeight \in Nat
  BY QueueTypes, EngineFacts
<1> DEFINE n == Len(resolved)
<1>2. /\ Len(resolved') = n + 1 /\ resolved'[n + 1] = h /\ resolved' # <<>>
      /\ \A j \in 1 .. n : resolved'[j] = resolved[j]
  BY <1>1
<1>3. ASSUME NEW j \in 1 .. n
      PROVE  resolved[j] \in Nat /\ StartHeight <= resolved[j]
               /\ resolved[j] <= latestHeight /\ resolved[j] < h
  <2>1. resolved[j] \in Nat /\ StartHeight <= resolved[j] /\ resolved[j] <= latestHeight
    BY <1>1 DEF EngineInv, QueueOK
  <2>2. n \in 1 .. n /\ resolved # <<>>
    BY <1>1
  <2>3. resolved[n] < h /\ resolved[n] \in Nat
    BY <1>1, <2>2
  <2>4. CASE j = n
    BY <2>1, <2>3, <2>4
  <2>5. CASE j # n
    <3>1. j < n
      BY <1>1, <2>5
    <3>2. resolved[j] < resolved[n]
      BY <2>2, <3>1 DEF EngineInv, QueueOK
    <3> QED
      BY <2>1, <2>3, <3>2
  <2> QED
    BY <2>4, <2>5
<1>4. ASSUME NEW j \in 1 .. n + 1
      PROVE  StartHeight <= resolved'[j] /\ resolved'[j] <= heard
  <2>1. CASE j = n + 1
    BY <1>2, <2>1
  <2>2. CASE j \in 1 .. n
    <3>1. resolved[j] <= heard
      BY <1>1, <1>3, <2>2
    <3> QED
      BY <1>2, <1>3, <2>2, <3>1
  <2> QED
    BY <1>1, <2>1, <2>2
<1>5. ASSUME NEW j \in 1 .. n + 1, NEW k \in 1 .. n + 1, j < k
      PROVE  resolved'[j] < resolved'[k]
  <2>1. j \in 1 .. n
    BY <1>1, <1>5
  <2>2. CASE k = n + 1
    BY <1>2, <1>3, <2>1, <2>2
  <2>3. CASE k \in 1 .. n
    <3>1. resolved[j] < resolved[k]
      BY <1>5, <2>1, <2>3 DEF EngineInv, QueueOK
    <3> QED
      BY <1>2, <2>1, <2>3, <3>1
  <2> QED
    BY <1>1, <2>2, <2>3
<1>6. StartHeight <= heard + 1
  BY <1>1
<1>7. QueueOK'
  BY <1>2, <1>4, <1>5, <1>6 DEF QueueOK
<1>8. Undelivered' = Undelivered \cup {h}
  <2>1. Len(delivered) + 1 .. n + 1 = (Len(delivered) + 1 .. n) \cup {n + 1}
    BY <1>1
  <2>2. Undelivered' = {resolved'[j] : j \in Len(delivered) + 1 .. n + 1}
    BY <1>2 DEF Undelivered
  <2>3. \A j \in Len(delivered) + 1 .. n : j \in 1 .. n
    BY <1>1
  <2>4. {resolved'[j] : j \in Len(delivered) + 1 .. n} = Undelivered
    BY <1>2, <2>3 DEF Undelivered
  <2> QED
    BY <1>2, <2>1, <2>2, <2>4
<1> QED
  BY <1>2, <1>7, <1>8

\* What an enqueue in a running process has to respect: the height is above all that is
\* committed, and everything below it is accounted for.
LEMMA AppendKeeps ==
    ASSUME IInv, EngineInv, NEW h \in Nat, NEW heard \in Nat,
           resolved' = Append(resolved, h), delivered' = delivered,
           latestHeight' = heard, latestHeight <= heard, StartHeight <= h, h <= heard,
           resolved # <<>> => resolved[Len(resolved)] < h,
           UNCHANGED <<session, taken, committed, pc, started, heightToProcess, retryCount,
                       health, pollers, subscribed, missed>>,
           pc # "height", NEW top \in Height, chain' = top, chain <= top, heard <= top,
           pollers > 0 => heard \in Height,
           session = "live" =>
              /\ \A c \in committed : c < h
              /\ \A k \in StartHeight .. h : k = h \/ Accounted(k)
              /\ synced' /\ ~tryToRecover' =>
                    \A k \in StartHeight .. Top' : k = h \/ Accounted(k)
              /\ fetcher'.state # "off" /\ ~tryToRecover' =>
                    \A k \in heard + 1 .. Top' : k \in missed
    PROVE  EngineInv'
<1>1. /\ QueueOK'
      /\ Undelivered' = Undelivered \cup {h}
      /\ resolved' # <<>> /\ resolved'[Len(resolved')] = h
      /\ Len(resolved') = Len(resolved) + 1
      /\ \A j \in 1 .. Len(resolved) : resolved'[j] = resolved[j]
  BY Appended
<1>2. Underway' = Underway \cup {h} /\ \A k : Accounted(k)' <=> Accounted(k) \/ k = h
  BY <1>1 DEF Underway, Accounted
<1>3. chain \in Nat /\ top \in Nat /\ StartHeight \in Nat /\ committed \subseteq StartHeight .. chain
  BY QueueTypes, EngineFacts
<1>4. PlacesOK'
  <2>1. committed \subseteq StartHeight .. top /\ heard \in 0 .. top
    BY <1>3
  <2> QED
    BY <2>1 DEF EngineInv, PlacesOK
<1>5. LiveOK'
  <2>1. ASSUME session = "live", NEW c \in committed
        PROVE  c <= heard /\ c <= h
    <3>1. c < h /\ c \in Nat
      BY <1>3, <2>1
    <3> QED
      BY <3>1
  <2>2. ASSUME session = "live", NEW c \in committed, NEW k \in Underway'
        PROVE  c < k
    BY <1>2, <2>2 DEF EngineInv, LiveOK
  <2> QED
    BY <1>1, <2>1, <2>2 DEF EngineInv, LiveOK
<1>6. GapsOK'
  <2>1. SkipsOnlyMissed' /\ (UsePolling => missed' = {})
    BY DEF EngineInv, GapsOK, SkipsOnlyMissed
  <2>2. ASSUME session = "live", NEW j \in 1 .. Len(resolved) + 1,
               NEW k \in StartHeight .. resolved'[j]
        PROVE  Accounted(k)'
    <3>1. CASE j \in 1 .. Len(resolved)
      <4>1. k \in StartHeight .. resolved[j]
        BY <1>1, <3>1
      <4> QED
        BY <1>2, <2>2, <3>1, <4>1 DEF EngineInv, GapsOK
    <3>2. CASE j = Len(resolved) + 1
      <4>1. k \in StartHeight .. h
        BY <1>1, <3>2
      <4> QED
        BY <1>2, <2>2, <4>1
    <3> QED
      BY <3>1, <3>2, QueueTypes
  <2>3. session = "live" =>
          /\ synced' /\ ~tryToRecover' => \A k \in StartHeight .. Top' : Accounted(k)'
          /\ fetcher'.state # "off" /\ ~tryToRecover' => \A k \in heard + 1 .. Top' : k \in missed
    BY <1>2
  <2> QED
    BY <1>1, <2>1, <2>2, <2>3 DEF GapsOK
<1>7. EndOK' /\ HealthOK' /\ AtMostOneBeyondEnd'
  BY DEF EngineInv, EndOK, HealthOK, AtMostOneBeyondEnd
<1> QED
  BY <1>1, <1>4, <1>5, <1>6, <1>7 DEF EngineInv

\* The fetcher goes on with the height after the last one in the queue, or has caught up.
LEMMA FetcherKeeps ==
    ASSUME IInv, EngineInv, FetcherFetches
    PROVE  EngineInv'
<1> DEFINE n == Len(resolved)
           i == fetcher.height + 1
<1>1. /\ fetcher.state = "ready" /\ ~tryToRecover /\ FetchRound(i)
      /\ UNCHANGED <<session, latestHeight, tryToRecover, taken, delivered>>
      /\ UNCHANGED <<chain, committed, pc, started, heightToProcess, retryCount, health,
                     pollers, subscribed, missed>>
  BY DEF FetcherFetches, FetcherContinues, engineVars, memoryVars
<1>2. /\ resolved # <<>> /\ resolved[n] = fetcher.height
      /\ fetcher.height <= latestHeight /\ fetcher.height \in Nat
      /\ session # "starting"
  BY <1>1 DEF IInv, ProducersOK, HeightsOK
<1>3. /\ resolved \in Seq(Nat) /\ n \in Nat /\ latestHeight \in Nat /\ chain \in Nat
      /\ latestHeight <= chain /\ committed \subseteq StartHeight .. chain
      /\ StartHeight \in Nat /\ Len(delivered) \in Nat /\ Len(delivered) <= n
  BY QueueTypes, EngineFacts
<1>4. n \in 1 .. n /\ StartHeight <= resolved[n]
  <2>1. n # 0
    BY <1>2, <1>3
  <2> QED
    BY <1>3, <2>1 DEF EngineInv, QueueOK
<1>5. pc # "height" /\ (pollers > 0 => latestHeight \in Height) /\ chain \in Height
  BY <1>2 DEF EngineInv, PlacesOK
<1>6. session = "live" =>
        /\ \A c \in committed : c < i
        /\ \A k \in StartHeight .. fetcher.height : Accounted(k)
        /\ \A k \in latestHeight + 1 .. Top : k \in missed
  <2>1. ASSUME session = "live", NEW c \in committed PROVE c < i
    <3>1. c \in Nat /\ c <= fetcher.height
      BY <1>2, <1>3, <2>1 DEF EngineInv, LiveOK
    <3> QED
      BY <1>2, <3>1
  <2> QED
    BY <1>1, <1>2, <1>4, <2>1 DEF EngineInv, GapsOK
<1>7. Top' = Top /\ fetcher.state # "off"
  BY <1>1 DEF Top
<1>8. CASE i <= latestHeight
  <2>1. resolved' = Append(resolved, i)
    BY <1>1, <1>8 DEF FetchRound, Enqueue
  <2>2. i \in Nat /\ StartHeight <= i /\ resolved[n] < i
    BY <1>2, <1>3, <1>4
  <2>3. synced' = FALSE
    BY <1>1, <1>2, <1>8 DEF FetchRound, Enqueue, IInv, ProducersOK
  <2>4. session = "live" => \A k \in StartHeight .. i : k = i \/ Accounted(k)
    <3> SUFFICES ASSUME session = "live", NEW k \in StartHeight .. i, k # i
                 PROVE  Accounted(k)
      OBVIOUS
    <3>1. k \in StartHeight .. fetcher.height
      BY <1>2, <1>3
    <3> QED
      BY <1>6, <3>1
  <2> HIDE DEF n, i
  <2> QED
    BY <1>1, <1>3, <1>5, <1>6, <1>7, <1>8, <2>1, <2>2, <2>3, <2>4, AppendKeeps DEF n
<1>9. CASE ~(i <= latestHeight)
  <2>1. /\ resolved' = resolved /\ synced' = TRUE /\ fetcher'.state = "off"
    BY <1>1, <1>9 DEF FetchRound, SetSynced, FetcherOff
  <2>2. fetcher.height = latestHeight
    BY <1>2, <1>3, <1>9
  <2>3. PlacesOK'
    BY <1>1 DEF EngineInv, PlacesOK
  <2>4. QueueOK'
    <3>1. StartHeight <= latestHeight + 1
      BY <1>2, <1>3, <1>4, <2>2
    <3> QED
      BY <1>1, <2>1, <3>1 DEF EngineInv, QueueOK
  <2>5. Undelivered' = Undelivered /\ Underway' = Underway
    BY <1>1, <2>1 DEF Undelivered, Underway
  <2>6. LiveOK'
    BY <1>1, <2>1, <2>5 DEF EngineInv, LiveOK
  <2>7. GapsOK'
    <3>1. \A k : Accounted(k)' <=> Accounted(k)
      BY <1>1, <2>5 DEF Accounted
    <3>2. SkipsOnlyMissed' /\ (UsePolling => missed' = {})
      BY <1>1 DEF EngineInv, GapsOK, SkipsOnlyMissed
    <3>3. ASSUME session = "live", NEW k \in StartHeight .. Top PROVE Accounted(k)
      <4>1. Top \in Nat
        BY <1>3 DEF Top
      <4>2. CASE k \in StartHeight .. fetcher.height
        BY <1>6, <3>3, <4>2
      <4>3. CASE k \in latestHeight + 1 .. Top
        BY <1>6, <3>3, <4>3 DEF Accounted
      <4> QED
        BY <1>3, <2>2, <4>1, <4>2, <4>3
    <3>4. session = "live" =>
            \A j \in 1 .. Len(resolved) : \A k \in StartHeight .. resolved[j] : Accounted(k)
      BY DEF EngineInv, GapsOK
    <3> QED
      BY <1>1, <1>5, <1>7, <2>1, <3>1, <3>2, <3>3, <3>4 DEF GapsOK
  <2>8. EndOK' /\ HealthOK' /\ AtMostOneBeyondEnd'
    BY <1>1 DEF EngineInv, EndOK, HealthOK, AtMostOneBeyondEnd
  <2> QED
    BY <2>3, <2>4, <2>6, <2>7, <2>8 DEF EngineInv
<1> QED
  BY <1>8, <1>9

\* A new height is announced to a running process: it is appended to a synced queue, noted
\* for the fetcher, or too much for the ring.
LEMMA AnnounceKeeps ==
    ASSUME IInv, EngineInv, NEW h \in Height, NEW top \in Height,
           chain' = top, chain <= top, h <= top, Announce(h), UNCHANGED missed,
           IF UsePolling THEN h = latestHeight + 1 ELSE h = chain + 1 /\ h = top
    PROVE  EngineInv'
<1>1. /\ chain \in Nat /\ h \in Nat /\ top \in Nat /\ StartHeight \in Nat
      /\ latestHeight \in Nat /\ latestHeight <= chain /\ latestHeight < h
      /\ committed \subseteq StartHeight .. chain
  <2>1. chain \in Nat /\ h \in Nat /\ top \in Nat /\ StartHeight \in Nat
          /\ latestHeight \in Nat /\ latestHeight <= chain
          /\ committed \subseteq StartHeight .. chain
    BY QueueTypes, EngineFacts
  <2>2. latestHeight < h
    BY <2>1
  <2> QED
    BY <2>1, <2>2
<1>2. /\ UNCHANGED <<committed, pc, started, heightToProcess, health, pollers, subscribed,
                     session, fetcher, taken, delivered>>
      /\ latestHeight' = h
      /\ retryCount' \in Nat
  BY DEF Announce, AppendAtTip, NoteHeight, QueueFull, EngineInv, PlacesOK
<1>3. /\ SkipsOnlyMissed' /\ AtMostOneBeyondEnd' /\ (UsePolling => missed' = {})
      /\ EndOK' /\ HealthOK'
  BY <1>2 DEF EngineInv, GapsOK, SkipsOnlyMissed, AtMostOneBeyondEnd, EndOK, HealthOK
<1>4. PlacesOK'
  <2>1. committed \subseteq StartHeight .. top /\ h \in 0 .. top
    BY <1>1
  <2> QED
    BY <1>2, <2>1 DEF EngineInv, PlacesOK
<1>5. Top' = h /\ Top \in Nat /\ Top' \in Nat /\ (UsePolling \/ Top' = top)
  BY <1>1, <1>2, EngineFacts DEF Top
<1>6. \A k \in h + 1 .. h : k \in missed
  BY <1>1
<1>7. session = "live" => \A c \in committed : c < h
  <2> SUFFICES ASSUME session = "live", NEW c \in committed PROVE c < h
    OBVIOUS
  <2>1. c \in Nat /\ c <= latestHeight
    BY <1>1 DEF EngineInv, LiveOK
  <2> QED
    BY <1>1, <2>1
<1>8. CASE AppendAtTip(h) /\ UNCHANGED retryCount
  <2>1. synced /\ ~tryToRecover /\ resolved' = Append(resolved, h)
    BY <1>8 DEF AppendAtTip, Enqueue
  <2>2. StartHeight <= h
    <3>1. StartHeight <= latestHeight + 1
      BY <2>1 DEF EngineInv, QueueOK
    <3> QED
      BY <1>1, <3>1
  <2>3. resolved # <<>> => resolved[Len(resolved)] < h
    <3> SUFFICES ASSUME resolved # <<>> PROVE resolved[Len(resolved)] < h
      OBVIOUS
    <3>1. resolved \in Seq(Nat) /\ Len(resolved) \in 1 .. Len(resolved)
      BY QueueTypes
    <3>2. resolved[Len(resolved)] \in Nat /\ resolved[Len(resolved)] <= latestHeight
      BY <3>1 DEF EngineInv, QueueOK
    <3> QED
      BY <1>1, <3>2
  <2>4. fetcher'.state = "off" /\ session # "starting"
    BY <1>2, <2>1 DEF IInv, ProducersOK
  <2>5. pc # "height"
    BY <2>4 DEF EngineInv, PlacesOK
  <2>6. session = "live" => \A k \in StartHeight .. h : k = h \/ Accounted(k)
    <3> SUFFICES ASSUME session = "live", NEW k \in StartHeight .. h, k # h
                 PROVE  Accounted(k)
      OBVIOUS
    <3>1. k \in StartHeight .. Top
      BY <1>1, EngineFacts DEF Top
    <3> QED
      BY <2>1, <3>1 DEF EngineInv, GapsOK
  <2> QED
    BY <1>1, <1>2, <1>5, <1>7, <1>8, <2>1, <2>2, <2>3, <2>4, <2>5, <2>6, AppendKeeps
<1>9. CASE NoteHeight(h) \/ QueueFull(h)
  <2>1. UNCHANGED ringVars /\ (synced' => tryToRecover') /\ (tryToRecover => tryToRecover')
    BY <1>9 DEF NoteHeight, QueueFull, ringVars
  <2>2. resolved' = resolved /\ synced' = synced
    BY <2>1 DEF ringVars
  <2>3. QueueOK'
    BY <1>1, <1>2, <2>2, QueueKept
  <2>4. Undelivered' = Undelivered /\ Underway' = Underway
    BY <1>2, <2>2 DEF Undelivered, Underway
  <2>5. LiveOK'
    <3>1. session = "live" => \A c \in committed : c <= h
      BY <1>1, <1>7
    <3> QED
      BY <1>2, <2>2, <2>4, <3>1 DEF EngineInv, LiveOK
  <2>6. GapsOK'
    <3>1. \A k : Accounted(k)' <=> Accounted(k)
      BY <1>2, <2>4 DEF Accounted
    <3>2. session = "live" =>
            \A j \in 1 .. Len(resolved) : \A k \in StartHeight .. resolved[j] : Accounted(k)
      BY DEF EngineInv, GapsOK
    <3>3. ~UsePolling => \A k \in h + 1 .. top : k \in missed
      BY <1>6
    <3> QED
      BY <1>2, <1>3, <1>5, <1>6, <2>1, <2>2, <3>1, <3>2, <3>3 DEF GapsOK
  <2> QED
    BY <1>3, <1>4, <2>3, <2>5, <2>6 DEF EngineInv
<1> QED
  BY <1>8, <1>9 DEF Announce

\* The chain grows by a block nobody announces: it was missed, unless a poller is to find
\* it or no session is there to miss it.
LEMMA UnannouncedKeeps ==
    ASSUME IInv, EngineInv, NEW top \in Height, top = chain + 1, chain' = top,
           missed' = IF ~UsePolling /\ pc \in InLoop \cup {"height"}
                     THEN missed \cup {top} ELSE missed,
           UNCHANGED <<allPipeVars, committed, pc, memoryVars>>
    PROVE  EngineInv'
<1>1. /\ chain \in Nat /\ top \in Nat /\ StartHeight \in Nat /\ latestHeight \in Nat
      /\ latestHeight <= chain /\ committed \subseteq StartHeight .. chain
  BY QueueTypes, EngineFacts
<1>2. /\ resolved' = resolved /\ synced' = synced /\ delivered' = delivered
      /\ UNCHANGED <<session, latestHeight, tryToRecover, fetcher, taken>>
      /\ UNCHANGED <<started, heightToProcess, retryCount, health, pollers, subscribed>>
  BY DEF allPipeVars, ringVars, pipeVars, memoryVars
<1>3. PlacesOK'
  <2>1. committed \subseteq StartHeight .. top /\ latestHeight \in 0 .. top
    BY <1>1
  <2> QED
    BY <1>2, <2>1 DEF EngineInv, PlacesOK
<1>4. QueueOK'
  BY <1>2 DEF EngineInv, QueueOK
<1>5. Undelivered' = Undelivered /\ Underway' = Underway
  BY <1>2 DEF Undelivered, Underway
<1>6. LiveOK'
  BY <1>2, <1>5 DEF EngineInv, LiveOK
<1>7. missed \subseteq missed'
  OBVIOUS
<1>8. \A k : Accounted(k) => Accounted(k)'
  BY <1>5, <1>7 DEF Accounted
<1>9. ~UsePolling /\ (session = "live" \/ pc = "height") => top \in missed'
  BY DEF EngineInv, PlacesOK, InLoop
<1>10. \A k \in StartHeight .. top : k \in StartHeight .. chain \/ k = top
  BY <1>1
<1>11. \A k \in latestHeight + 1 .. top : k \in latestHeight + 1 .. chain \/ k = top
  BY <1>1
<1>12. GapsOK'
  <2>1. SkipsOnlyMissed' /\ (UsePolling => missed' = {})
    BY <1>7 DEF EngineInv, GapsOK, SkipsOnlyMissed
  <2>2. CASE UsePolling
    <3>1. Top' = Top /\ missed' = missed
      BY <1>2, <2>2 DEF Top
    <3> QED
      BY <1>2, <1>8, <2>1, <2>2, <3>1 DEF EngineInv, GapsOK
  <2>3. CASE ~UsePolling
    <3>1. Top = chain /\ Top' = top
      BY <2>3 DEF Top
    <3>2. session = "live" =>
            \A j \in 1 .. Len(resolved) : \A k \in StartHeight .. resolved[j] : Accounted(k)'
      BY <1>8 DEF EngineInv, GapsOK
    <3>3. session = "live" /\ synced /\ ~tryToRecover =>
            \A k \in StartHeight .. top : Accounted(k)'
      <4>1. Accounted(top)' <=> top \in committed \/ top \in missed' \/ top \in Underway
        BY <1>5 DEF Accounted
      <4> QED
        BY <1>8, <1>9, <1>10, <2>3, <3>1, <4>1 DEF EngineInv, GapsOK
    <3>4. session = "live" /\ fetcher.state # "off" /\ ~tryToRecover =>
            \A k \in latestHeight + 1 .. top : k \in missed'
      BY <1>7, <1>9, <1>11, <2>3, <3>1 DEF EngineInv, GapsOK
    <3>5. pc = "height" => \A k \in latestHeight + 1 .. top : k \in missed'
      BY <1>7, <1>9, <1>11, <2>3 DEF EngineInv, GapsOK
    <3> QED
      BY <1>2, <2>1, <2>3, <3>1, <3>2, <3>3, <3>4, <3>5 DEF GapsOK
  <2> QED
    BY <2>2, <2>3
<1>13. EndOK' /\ HealthOK' /\ AtMostOneBeyondEnd'
  BY <1>2 DEF EngineInv, EndOK, HealthOK, AtMostOneBeyondEnd
<1> QED
  BY <1>3, <1>4, <1>6, <1>12, <1>13 DEF EngineInv

\* A session is launched at the height after the newest block in the database, or the end
\* height is behind it and the loop is not entered.
LEMMA LaunchKeeps ==
    ASSUME IInv, EngineInv, LearnNextHeight
    PROVE  EngineInv'
<1>1. PICK h : h = NextHeight
  OBVIOUS
<1> DEFINE loops == started /\ BeforeEnd(h)
<1>2. /\ pc = "height" /\ Launch(h, loops) /\ heightToProcess' = h
      /\ pollers' = IF UsePolling /\ pollers < MaxPollers THEN pollers + 1 ELSE pollers
      /\ subscribed' = ~UsePolling
      /\ IF loops THEN pc' = "begin" /\ UNCHANGED started ELSE LeaveLoop(h, retryCount)
      /\ UNCHANGED <<chain, committed, retryCount, health, missed>>
  BY <1>1 DEF LearnNextHeight
<1>3. /\ session = "starting" /\ h <= latestHeight + 1 /\ FetchRound(h)
      /\ session' = (IF loops THEN "live" ELSE "over") /\ tryToRecover' = FALSE
      /\ UNCHANGED <<latestHeight, taken, delivered>>
  BY <1>2 DEF Launch
<1>4. /\ chain \in Nat /\ latestHeight \in Nat /\ latestHeight <= chain
      /\ StartHeight \in Nat /\ committed \subseteq StartHeight .. chain
      /\ chain \in Height /\ latestHeight \in Height
  BY <1>2, QueueTypes, EngineFacts DEF EngineInv, PlacesOK
<1>5. /\ h \in StartHeight .. chain + 1 \cup {StartHeight}
      /\ \A c \in committed : c < h
      /\ committed # {} => h - 1 \in committed
      /\ committed = {} => h = StartHeight
  BY <1>1, <1>4, NextHeightFacts
<1>6. h \in Nat /\ StartHeight <= h
  BY <1>4, <1>5
<1>7. /\ resolved = <<>> /\ synced = FALSE
      /\ Len(delivered) = 0
  <2>1. resolved = <<>> /\ synced = FALSE
    BY <1>3 DEF IInv, ProducersOK
  <2>2. Len(delivered) \in Nat /\ Len(delivered) <= Len(resolved)
    BY QueueTypes
  <2> QED
    BY <2>1, <2>2
<1>8. \A k \in StartHeight .. h - 1 : k \in committed \cup missed
  <2> SUFFICES ASSUME NEW k \in StartHeight .. h - 1 PROVE k \in committed \cup missed
    OBVIOUS
  <2>1. committed # {}
    BY <1>4, <1>5, <1>6
  <2> QED
    BY <1>5, <2>1 DEF EngineInv, GapsOK, SkipsOnlyMissed
<1>9. PICK now : now = pollers'
  OBVIOUS
<1>10. now \in Nat /\ (now > 0 => UsePolling \/ pollers > 0)
  <2>1. pollers \in Nat
    BY DEF EngineInv, PlacesOK
  <2> QED
    BY <1>2, <1>9, <2>1
<1>11. started' \in BOOLEAN
  BY <1>2 DEF LeaveLoop, EngineInv, PlacesOK
<1>12. loops \/ pc' = "stopped"
  <2> SUFFICES ASSUME ~loops PROVE pc' = "stopped"
    OBVIOUS
  <2>1. LeaveLoop(h, retryCount)
    BY <1>2
  <2>2. ~started' \/ (started /\ ~ReachedEnd(h))
    BY <2>1 DEF LeaveLoop
  <2>3. ~(started /\ ~ReachedEnd(h))
    <3>1. started => EndHeight # NoEndHeight /\ ~(h <= EndHeight)
      BY DEF BeforeEnd
    <3>2. started => h >= EndHeight
      BY <1>6, <3>1, EngineFacts
    <3> QED
      BY <3>1, <3>2 DEF ReachedEnd
  <2> QED
    BY <2>1, <2>2, <2>3 DEF LeaveLoop
<1>13. PlacesOK'
  <2>1. taken' = NoPromise
    BY <1>2, <1>3 DEF EngineInv, PlacesOK
  <2> QED
    BY <1>2, <1>3, <1>6, <1>9, <1>10, <1>11, <1>12, <2>1
       DEF EngineInv, PlacesOK, InLoop, Working
<1>14. AtMostOneBeyondEnd' /\ SkipsOnlyMissed' /\ (UsePolling => missed' = {})
  BY <1>2 DEF EngineInv, GapsOK, AtMostOneBeyondEnd, SkipsOnlyMissed
<1>15. HealthOK'
  BY <1>2, <1>12 DEF HealthOK
<1>16. EndOK'
  <2> SUFFICES ASSUME EndHeight # NoEndHeight, loops, NEW c \in committed
               PROVE  c <= EndHeight
    BY <1>2, <1>12 DEF EndOK, InLoop
  <2>1. h <= EndHeight /\ EndHeight \in Nat
    BY EngineFacts DEF BeforeEnd
  <2>2. c < h /\ c \in Nat
    BY <1>4, <1>5
  <2> QED
    BY <1>6, <2>1, <2>2
<1>17. \A c \in committed : c <= latestHeight /\ c <= h
  <2> SUFFICES ASSUME NEW c \in committed PROVE c <= latestHeight /\ c <= h
    OBVIOUS
  <2>1. c < h /\ c \in Nat
    BY <1>4, <1>5
  <2> QED
    BY <1>3, <1>4, <1>6, <2>1
<1>18. pc' \notin Working /\ pc' # "height"
  BY <1>2, <1>12 DEF Working
<1>19. ~UsePolling => \A k \in latestHeight + 1 .. chain : k \in missed
  BY <1>2 DEF EngineInv, GapsOK
<1>20. \A k \in latestHeight + 1 .. Top' : k \in missed
  <2>1. CASE UsePolling
    <3>1. Top' = latestHeight
      BY <1>3, <2>1 DEF Top
    <3> QED
      BY <1>4, <3>1
  <2>2. CASE ~UsePolling
    BY <1>2, <1>19, <2>2 DEF Top
  <2> QED
    BY <2>1, <2>2
<1>21. CASE h <= latestHeight
  <2>1. resolved' = Append(resolved, h) /\ synced' = FALSE
    BY <1>3, <1>7, <1>21 DEF FetchRound, Enqueue
  <2>2. /\ QueueOK'
        /\ Undelivered' = Undelivered \cup {h}
        /\ resolved' # <<>> /\ resolved'[Len(resolved')] = h
        /\ Len(resolved') = Len(resolved) + 1
    BY <1>3, <1>4, <1>6, <1>7, <1>21, <2>1, Appended
  <2>3. Undelivered' = {h} /\ Len(resolved') = 1 /\ resolved'[1] = h
    <3>1. Undelivered = {}
      BY <1>7 DEF Undelivered
    <3> QED
      BY <1>7, <2>2, <3>1
  <2>4. Underway' = {h}
    BY <1>18, <2>3 DEF Underway
  <2>5. LiveOK'
    BY <1>2, <1>3, <1>5, <1>17, <1>18, <2>2, <2>4 DEF LiveOK
  <2>6. \A k \in StartHeight .. h : Accounted(k)'
    <3> SUFFICES ASSUME NEW k \in StartHeight .. h PROVE Accounted(k)'
      OBVIOUS
    <3>1. k = h \/ k \in StartHeight .. h - 1
      BY <1>4, <1>6
    <3> QED
      BY <1>2, <1>8, <2>4, <3>1 DEF Accounted
  <2>7. GapsOK'
    <3>1. ASSUME NEW j \in 1 .. Len(resolved'), NEW k \in StartHeight .. resolved'[j]
          PROVE  Accounted(k)'
      <4>1. j = 1
        BY <2>3
      <4> QED
        BY <2>3, <2>6, <4>1
    <3> QED
      BY <1>2, <1>3, <1>14, <1>18, <1>20, <2>1, <3>1 DEF GapsOK
  <2> QED
    BY <1>13, <1>14, <1>15, <1>16, <2>2, <2>5, <2>7 DEF EngineInv
<1>22. CASE ~(h <= latestHeight)
  <2>1. resolved' = <<>> /\ synced' = TRUE /\ fetcher'.state = "off" /\ h = latestHeight + 1
    <3>1. h = latestHeight + 1
      BY <1>3, <1>4, <1>6, <1>22
    <3> QED
      BY <1>3, <1>7, <1>22, <3>1 DEF FetchRound, SetSynced, FetcherOff
  <2>2. QueueOK'
    <3>1. StartHeight <= latestHeight + 1
      BY <1>6, <2>1
    <3> QED
      BY <1>3, <2>1, <3>1 DEF QueueOK
  <2>3. Underway' = {}
    BY <1>3, <1>7, <1>18, <2>1 DEF Underway, Undelivered
  <2>4. LiveOK'
    BY <1>2, <1>3, <1>17, <1>18, <2>1, <2>3 DEF LiveOK
  <2>5. \A k \in StartHeight .. Top' : Accounted(k)'
    <3> SUFFICES ASSUME NEW k \in StartHeight .. Top' PROVE Accounted(k)'
      OBVIOUS
    <3>1. PICK top \in Nat : top = Top'
      BY <1>2, <1>3, <1>4 DEF Top
    <3>2. k \in StartHeight .. h - 1 \/ k \in latestHeight + 1 .. top
      BY <1>4, <1>6, <2>1, <3>1
    <3> QED
      BY <1>2, <1>8, <1>20, <3>1, <3>2 DEF Accounted
  <2>6. GapsOK'
    BY <1>3, <1>14, <1>18, <1>20, <2>1, <2>5 DEF GapsOK
  <2> QED
    BY <1>13, <1>14, <1>15, <1>16, <2>2, <2>4, <2>6 DEF EngineInv
<1> QED
  BY <1>21, <1>22

\* The loop takes a promise from the ring: the queue of heights stays as it is.
LEMMA TakeKeeps ==
    ASSUME IInv, EngineInv, BeginSucceeds
    PROVE  EngineInv'
<1>1. /\ pc = "begin" /\ pc' = "wait" /\ session = "live" /\ Dequeue /\ fetcher' = Woken
      /\ UNCHANGED <<session, latestHeight, tryToRecover, delivered>>
      /\ UNCHANGED <<chain, committed, started, heightToProcess, retryCount, health,
                     pollers, subscribed, missed>>
  BY DEF BeginSucceeds, Take, memoryVars
<1>2. /\ resolved' = resolved /\ synced' = synced
      /\ fetcher'.state # "off" => fetcher.state # "off"
  BY <1>1 DEF Dequeue, Woken
<1>3. PlacesOK'
  BY <1>1 DEF EngineInv, PlacesOK, InLoop, Working
<1>4. QueueOK'
  BY <1>1, <1>2 DEF EngineInv, QueueOK
<1>5. Undelivered' = Undelivered /\ Underway' = Underway
  BY <1>1, <1>2 DEF Undelivered, Underway, Working
<1>6. LiveOK'
  BY <1>1, <1>2, <1>5 DEF EngineInv, LiveOK, Working
<1>7. GapsOK'
  <2>1. \A k : Accounted(k)' <=> Accounted(k)
    BY <1>1, <1>5 DEF Accounted
  <2>2. SkipsOnlyMissed' /\ Top' = Top
    BY <1>1 DEF EngineInv, GapsOK, SkipsOnlyMissed, Top
  <2> QED
    BY <1>1, <1>2, <2>1, <2>2 DEF EngineInv, GapsOK
<1>8. EndOK' /\ HealthOK' /\ AtMostOneBeyondEnd'
  BY <1>1 DEF EngineInv, EndOK, InLoop, HealthOK, AtMostOneBeyondEnd
<1> QED
  BY <1>3, <1>4, <1>6, <1>7, <1>8 DEF EngineInv

\* A block that arrives goes from the queue into the hands of the handlers.
LEMMA ArrivalKeeps ==
    ASSUME IInv, EngineInv, BlockArrives
    PROVE  EngineInv'
<1> DEFINE n == Len(delivered)
<1>1. /\ pc = "wait" /\ pc' = "process" /\ session = "live"
      /\ taken # NoPromise /\ taken < Placeholder
      /\ delivered' = Append(delivered, resolved[taken + 1])
      /\ heightToProcess' = resolved[taken + 1] /\ taken' = NoPromise
      /\ UNCHANGED <<ringVars, session, latestHeight, tryToRecover, fetcher>>
      /\ UNCHANGED <<chain, committed, started, retryCount, health, pollers,
                     subscribed, missed>>
  BY DEF BlockArrives, Deliver
<1>2. resolved' = resolved /\ synced' = synced
  BY <1>1 DEF ringVars
<1>3. /\ resolved \in Seq(Nat) /\ Len(resolved) \in Nat /\ delivered \in Seq(Nat)
      /\ taken = n /\ n \in Nat /\ n + 1 \in 1 .. Len(resolved)
  <2>1. resolved \in Seq(Nat) /\ delivered \in Seq(Nat) /\ taken = n
    BY <1>1 DEF IInv, RingOK
  <2> QED
    BY <1>1, <2>1
<1>4. PICK h \in Nat : h = resolved[n + 1]
  BY <1>3
<1>5. delivered' = Append(delivered, h) /\ heightToProcess' = h
        /\ Len(delivered') = n + 1 /\ delivered'[n + 1] = h /\ delivered' # <<>>
  <2>1. delivered' = Append(delivered, h) /\ heightToProcess' = h
    BY <1>1, <1>3, <1>4
  <2> QED
    BY <1>3, <2>1
<1>6. PlacesOK'
  BY <1>1, <1>5 DEF EngineInv, PlacesOK, InLoop, Working
<1>7. QueueOK'
  BY <1>1, <1>2 DEF EngineInv, QueueOK
<1>8. Underway' = Underway
  <2>1. Underway = {resolved[j] : j \in n + 1 .. Len(resolved)}
    BY <1>1 DEF Underway, Undelivered, Working
  <2>2. Underway' = {resolved[j] : j \in n + 2 .. Len(resolved)} \cup {h}
    <3>1. n + 1 + 1 = n + 2
      BY <1>3
    <3> QED
      BY <1>1, <1>2, <1>5, <3>1 DEF Underway, Undelivered, Working
  <2>3. n + 1 .. Len(resolved) = (n + 2 .. Len(resolved)) \cup {n + 1}
    BY <1>3
  <2> QED
    BY <1>4, <2>1, <2>2, <2>3
<1>9. LiveOK'
  BY <1>1, <1>2, <1>5, <1>8 DEF EngineInv, LiveOK
<1>10. GapsOK'
  <2>1. \A k : Accounted(k)' <=> Accounted(k)
    BY <1>1, <1>8 DEF Accounted
  <2>2. SkipsOnlyMissed' /\ Top' = Top
    BY <1>1 DEF EngineInv, GapsOK, SkipsOnlyMissed, Top
  <2> QED
    BY <1>1, <1>2, <2>1, <2>2 DEF EngineInv, GapsOK
<1>11. EndOK' /\ HealthOK' /\ AtMostOneBeyondEnd'
  BY <1>1 DEF EngineInv, EndOK, InLoop, HealthOK, AtMostOneBeyondEnd
<1> QED
  BY <1>6, <1>7, <1>9, <1>10, <1>11 DEF EngineInv

\* The handlers are done, and the transaction is to be committed.
LEMMA HandlersKeep ==
    ASSUME IInv, EngineInv, HandlersFinish
    PROVE  EngineInv'
<1>1. /\ pc = "process" /\ pc' = "commit"
      /\ UNCHANGED <<ringVars, session, latestHeight, tryToRecover, fetcher, taken, delivered>>
      /\ UNCHANGED <<chain, committed, started, heightToProcess, retryCount, health,
                     pollers, subscribed, missed>>
  BY DEF HandlersFinish, allPipeVars, pipeVars, memoryVars
<1>2. resolved' = resolved /\ synced' = synced
  BY <1>1 DEF ringVars
<1>3. PlacesOK'
  BY <1>1 DEF EngineInv, PlacesOK, InLoop, Working
<1>4. QueueOK'
  BY <1>1, <1>2 DEF EngineInv, QueueOK
<1>5. Undelivered' = Undelivered /\ Underway' = Underway
  BY <1>1, <1>2 DEF Undelivered, Underway, Working
<1>6. LiveOK'
  BY <1>1, <1>2, <1>5 DEF EngineInv, LiveOK, Working
<1>7. GapsOK'
  <2>1. \A k : Accounted(k)' <=> Accounted(k)
    BY <1>1, <1>5 DEF Accounted
  <2>2. SkipsOnlyMissed' /\ Top' = Top
    BY <1>1 DEF EngineInv, GapsOK, SkipsOnlyMissed, Top
  <2> QED
    BY <1>1, <1>2, <2>1, <2>2 DEF EngineInv, GapsOK
<1>8. EndOK' /\ HealthOK' /\ AtMostOneBeyondEnd'
  BY <1>1 DEF EngineInv, EndOK, InLoop, HealthOK, AtMostOneBeyondEnd
<1> QED
  BY <1>3, <1>4, <1>6, <1>7, <1>8 DEF EngineInv

\* A block is committed: it joins the table, and the loop goes on or is left at it.
LEMMA CommitKeeps ==
    ASSUME IInv, EngineInv, CommitSucceeds
    PROVE  EngineInv'
<1>1. /\ pc = "commit" /\ committed' = committed \cup {heightToProcess}
      /\ retryCount' = 0 /\ health' = "OK"
      /\ UNCHANGED <<chain, heightToProcess, pollers, subscribed, missed>>
  BY DEF CommitSucceeds
<1>2. pc \in Working /\ pc \in InLoop
  BY <1>1 DEF Working, InLoop
<1>3. TableOK'
  BY <1>1, CommitKeepsTable
<1>4. CASE LoopCondition
  <2>1. /\ pc' = "begin"
        /\ UNCHANGED <<ringVars, session, latestHeight, tryToRecover, fetcher, taken,
                       delivered, started>>
    BY <1>4 DEF CommitSucceeds, allPipeVars, pipeVars
  <2>2. resolved' = resolved /\ synced' = synced
    BY <2>1 DEF ringVars
  <2>3. /\ session = "live" /\ latestHeight \in Nat
        /\ committed \subseteq StartHeight .. chain /\ StartHeight \in Nat
    BY <1>2, QueueTypes, EngineFacts DEF EngineInv, PlacesOK
  <2>4. PlacesOK'
    BY <1>1, <1>2, <1>3, <2>1 DEF EngineInv, PlacesOK, TableOK, InLoop, Working
  <2>5. QueueOK'
    BY <2>1, <2>2 DEF EngineInv, QueueOK
  <2>6. Underway' = Undelivered /\ Underway = Undelivered \cup {heightToProcess}
    BY <1>1, <1>2, <2>1, <2>2 DEF Underway, Undelivered, Working
  <2>7. LiveOK'
    <3>1. heightToProcess <= latestHeight /\ heightToProcess <= resolved[Len(resolved)]
            /\ \A k \in Undelivered : heightToProcess < k
      BY <1>2, BlockInHand
    <3>2. \A c \in committed' : c <= latestHeight
            /\ (resolved # <<>> => c <= resolved[Len(resolved)])
      BY <1>1, <2>3, <3>1 DEF EngineInv, LiveOK
    <3>3. \A c \in committed', k \in Undelivered : c < k
      BY <1>1, <2>3, <2>6, <3>1 DEF EngineInv, LiveOK
    <3>4. pc' \notin Working
      BY <2>1 DEF Working
    <3> QED
      BY <2>1, <2>2, <2>6, <3>2, <3>3, <3>4 DEF LiveOK
  <2>8. GapsOK'
    <3>1. \A k : Accounted(k)' <=> Accounted(k)
      BY <1>1, <2>6 DEF Accounted
    <3>2. Top' = Top
      BY <1>1, <2>1 DEF Top
    <3> QED
      BY <1>1, <1>3, <2>1, <2>2, <2>3, <3>1, <3>2 DEF EngineInv, GapsOK, TableOK
  <2>9. EndOK'
    <3> SUFFICES ASSUME EndHeight # NoEndHeight PROVE \A c \in committed' : c <= EndHeight
      BY DEF EndOK
    <3>1. heightToProcess <= EndHeight
      BY <1>4 DEF LoopCondition, BeforeEnd
    <3> QED
      BY <1>1, <1>2, <3>1 DEF EngineInv, EndOK
  <2>10. HealthOK' /\ AtMostOneBeyondEnd'
    BY <1>3, <2>1 DEF HealthOK, TableOK
  <2> QED
    BY <2>4, <2>5, <2>7, <2>8, <2>9, <2>10 DEF EngineInv
<1>5. CASE ~LoopCondition
  <2>1. Quit /\ LeaveLoop(heightToProcess, 0)
    BY <1>5 DEF CommitSucceeds
  <2>2. /\ session' = "over" /\ UNCHANGED <<ringVars, latestHeight>>
        /\ pc' \in {"delay", "stopped"} /\ started' \in BOOLEAN
    <3>1. 0 < MaxRetries
      BY DEF MaxRetries
    <3> QED
      BY <2>1, <3>1 DEF Quit, LeaveLoop, EngineInv, PlacesOK
  <2> QED
    BY <1>1, <2>2, LeaveKeeps
<1> QED
  BY <1>4, <1>5

\* A queue that was cleared is in order.
LEMMA ClearedQueue ==
    ASSUME Clear
    PROVE  QueueOK'
<1>1. resolved' = <<>> /\ synced' = FALSE
  BY DEF Clear
<1> QED
  BY <1>1 DEF QueueOK

\* Between two sessions: the rollback ends, start() runs again, asks for the newest height,
\* or fails, and the process dies.
LEMMA RestartKeeps ==
    ASSUME IInv, EngineInv,
           RollbackEnds \/ Start \/ LearnLatestHeight \/ StartFails \/ Crash
    PROVE  EngineInv'
<1>1. CASE RollbackEnds
  <2>1. /\ pc = "rollback" /\ session' = session
        /\ UNCHANGED <<ringVars, latestHeight, taken, chain, committed, heightToProcess,
                       health, pollers, subscribed, missed>>
        /\ retryCount' = retryCount + 1
        /\ started' \in BOOLEAN /\ pc' \in {"stopped", "delay", "fatal"}
    BY <1>1 DEF RollbackEnds, NoticeTrouble, LeaveLoop, EngineInv, PlacesOK
  <2>2. session = "over" /\ health = "FAILED"
    BY <2>1 DEF EngineInv, PlacesOK, HealthOK
  <2>3. PlacesOK'
    BY <2>1, <2>2 DEF EngineInv, PlacesOK, InLoop
  <2>4. QueueOK' /\ HealthOK'
    BY <2>1, <2>2 DEF EngineInv, QueueOK, HealthOK, ringVars
  <2>5. TableOK'
    BY <2>1, CommitKeepsTable
  <2> QED
    BY <2>1, <2>2, <2>3, <2>4, <2>5, NoSessionKeeps
<1>2. CASE Start
  <2>1. /\ Clear /\ session' = "starting" /\ taken' = NoPromise /\ pc' = "status"
        /\ started' = TRUE /\ subscribed' = FALSE
        /\ UNCHANGED <<latestHeight, chain, committed, heightToProcess, retryCount,
                       pollers, missed>>
    BY <1>2 DEF Start, StartSession
  <2>2. PlacesOK' /\ HealthOK'
    BY <2>1 DEF EngineInv, PlacesOK, InLoop, HealthOK
  <2>3. TableOK'
    BY <2>1, CommitKeepsTable
  <2> QED
    BY <2>1, <2>2, <2>3, ClearedQueue, NoSessionKeeps
<1>3. CASE LearnLatestHeight
  <2>1. /\ pc = "status" /\ pc' = "height" /\ session = "starting" /\ latestHeight' = chain
        /\ UNCHANGED <<ringVars, session, taken, chain, committed, started, heightToProcess,
                       retryCount, pollers, subscribed, missed>>
    BY <1>3 DEF LearnLatestHeight, StatusReply, memoryVars
  <2>2. PlacesOK' /\ HealthOK'
    <3>1. chain \in 0 .. chain
      BY EngineFacts DEF EngineInv, PlacesOK
    <3> QED
      BY <2>1, <3>1 DEF EngineInv, PlacesOK, InLoop, HealthOK
  <2>3. QueueOK'
    BY <2>1, QueueTypes, QueueKept DEF ringVars
  <2>4. TableOK'
    BY <2>1, CommitKeepsTable
  <2> QED
    BY <2>1, <2>2, <2>3, <2>4, NoSessionKeeps
<1>4. CASE StartFails
  <2>1. /\ pc \in {"status", "height"} /\ pc' = "crashed"
        /\ UNCHANGED <<ringVars, session, latestHeight, taken, chain, committed, started,
                       heightToProcess, retryCount, pollers, subscribed, missed>>
    BY <1>4 DEF StartFails, allPipeVars, pipeVars
  <2>2. session = "starting"
    BY <2>1 DEF EngineInv, PlacesOK
  <2>3. PlacesOK' /\ HealthOK'
    BY <2>1, <2>2 DEF EngineInv, PlacesOK, InLoop, HealthOK
  <2>4. QueueOK'
    BY <2>1 DEF EngineInv, QueueOK, ringVars
  <2>5. TableOK'
    BY <2>1, CommitKeepsTable
  <2> QED
    BY <2>1, <2>2, <2>3, <2>4, <2>5, NoSessionKeeps
<1>5. CASE Crash
  <2>1. /\ Clear /\ session' = "over" /\ latestHeight' = 0 /\ taken' = NoPromise
        /\ pc' = "boot" /\ started' = FALSE /\ heightToProcess' = 0 /\ retryCount' = 0
        /\ pollers' = 0 /\ subscribed' = FALSE /\ UNCHANGED <<chain, missed>>
    BY <1>5 DEF Crash, Reboot
  <2>2. committed' = committed \/ (pc = "commit" /\ committed' = committed \cup {heightToProcess})
    BY <1>5 DEF Crash
  <2>3. TableOK'
    BY <2>1, <2>2, CommitKeepsTable
  <2>4. PlacesOK' /\ HealthOK'
    <3>1. 0 \in 0 .. chain /\ 0 \in Nat
      BY QueueTypes
    <3>2. ~(pollers' > 0)
      BY <2>1
    <3>3. chain \in Height
      BY DEF EngineInv, PlacesOK
    <3> QED
      BY <2>1, <2>3, <3>1, <3>2, <3>3 DEF EngineInv, PlacesOK, TableOK, InLoop, HealthOK
  <2> QED
    BY <2>1, <2>3, <2>4, ClearedQueue, NoSessionKeeps
<1> QED
  BY <1>1, <1>2, <1>3, <1>4, <1>5

\* A round that fails leaves the loop for the rollback.
LEMMA FailureKeeps ==
    ASSUME IInv, EngineInv,
           \/ BeginFails \/ AwaitTimesOut \/ IdleTimeout \/ NoBlockData
           \/ HandlerFails \/ CommitFails
    PROVE  EngineInv'
<1>1. /\ Quit \/ Abandon
      /\ ToRollback
      /\ retryCount' = retryCount \/ retryCount' = retryCount + 1
      /\ committed' = committed
           \/ (pc = "commit" /\ committed' = committed \cup {heightToProcess})
  BY DEF BeginFails, AwaitTimesOut, IdleTimeout, NoBlockData, HandlerFails, CommitFails
<1>2. session' = "over" /\ UNCHANGED <<ringVars, latestHeight>>
  BY <1>1 DEF Quit, Abandon
<1>3. /\ pc' = "rollback" /\ health' = "FAILED"
      /\ UNCHANGED <<chain, started, heightToProcess, pollers, subscribed, missed>>
  BY <1>1 DEF ToRollback
<1>4. started \in BOOLEAN /\ retryCount' \in Nat
  BY <1>1 DEF EngineInv, PlacesOK
<1> QED
  BY <1>1, <1>2, <1>3, <1>4, LeaveKeeps

-----------------------------------------------------------------------------
\* The invariant holds when the process starts.
LEMMA EngineInitOK == Init => IInv /\ EngineInv
<1> SUFFICES ASSUME Init PROVE IInv /\ EngineInv
  OBVIOUS
<1>1. IInv
  BY InitOK DEF Init
<1>2. /\ pc = "boot" /\ session = "over" /\ latestHeight = 0 /\ resolved = <<>>
      /\ synced = FALSE /\ taken = NoPromise /\ started = FALSE /\ heightToProcess = 0
      /\ retryCount = 0 /\ health = "CONNECTING" /\ pollers = 0 /\ subscribed = FALSE
      /\ chain \in Height /\ committed = {} /\ missed = {}
  BY DEF Init, PipelineInit, BufferInit
<1>3. PlacesOK
  <2>1. latestHeight \in 0 .. chain
    BY <1>2, EngineFacts
  <2>2. ~(pollers > 0)
    BY <1>2
  <2> QED
    BY <1>2, <2>1, <2>2 DEF PlacesOK, InLoop
<1>4. QueueOK /\ LiveOK /\ GapsOK /\ EndOK /\ HealthOK /\ AtMostOneBeyondEnd
  BY <1>2 DEF QueueOK, LiveOK, GapsOK, SkipsOnlyMissed, EndOK, HealthOK, AtMostOneBeyondEnd,
              Working
<1> QED
  BY <1>1, <1>3, <1>4 DEF EngineInv

\* One step of each kind preserves it.
LEMMA EngineStepOK == IInv /\ EngineInv /\ [Next]_vars => IInv' /\ EngineInv'
<1> SUFFICES ASSUME IInv, EngineInv, [Next]_vars PROVE IInv' /\ EngineInv'
  OBVIOUS
<1>1. IInv'
  BY EngineStepIsPipelineStep, StepOK DEF EngineInv
<1>2. CASE RollbackEnds \/ Start \/ LearnLatestHeight \/ StartFails \/ Crash
  BY <1>1, <1>2, RestartKeeps
<1>3. CASE \/ BeginFails \/ AwaitTimesOut \/ IdleTimeout \/ NoBlockData
           \/ HandlerFails \/ CommitFails
  BY <1>1, <1>3, FailureKeeps
<1>4. CASE LearnNextHeight
  BY <1>1, <1>4, LaunchKeeps
<1>5. CASE BeginSucceeds
  BY <1>1, <1>5, TakeKeeps
<1>6. CASE BlockArrives
  BY <1>1, <1>6, ArrivalKeeps
<1>7. CASE HandlersFinish
  BY <1>1, <1>7, HandlersKeep
<1>8. CASE CommitSucceeds
  BY <1>1, <1>8, CommitKeeps
<1>9. CASE FetcherFetches
  BY <1>1, <1>9, FetcherKeeps
<1>10. CASE PollTick
  <2>1. /\ UsePolling /\ latestHeight \in Height /\ chain \in Height /\ latestHeight < chain
        /\ Announce(latestHeight + 1) /\ UNCHANGED <<chain, missed>>
    BY <1>10 DEF PollTick, Announce, EngineInv, PlacesOK
  <2>2. chain \in Nat /\ latestHeight \in Nat
    BY QueueTypes
  <2>3. latestHeight + 1 \in latestHeight .. chain /\ chain <= chain /\ latestHeight + 1 <= chain
    BY <2>1, <2>2
  <2>4. latestHeight + 1 \in Height
    BY <2>1, <2>3, EngineFacts
  <2> QED
    BY <1>1, <2>1, <2>3, <2>4, AnnounceKeeps
<1>11. CASE NewBlock
  <2>1. chain + 1 \in Height /\ chain' = chain + 1 /\ chain \in Nat
    BY <1>11, QueueTypes DEF NewBlock
  <2>2. CASE subscribed /\ Announce(chain + 1)
    <3>1. ~UsePolling /\ UNCHANGED missed /\ chain <= chain + 1 /\ chain + 1 <= chain + 1
      BY <2>1, <2>2 DEF Announce, EngineInv, PlacesOK
    <3> QED
      BY <1>1, <2>1, <2>2, <3>1, AnnounceKeeps
  <2>3. CASE /\ missed' = IF ~UsePolling /\ pc \in InLoop \cup {"height"}
                          THEN missed \cup {chain + 1} ELSE missed
             /\ UNCHANGED <<allPipeVars, committed, pc, memoryVars>>
    BY <1>1, <2>1, <2>3, UnannouncedKeeps
  <2> QED
    BY <1>11, <2>2, <2>3 DEF NewBlock
<1>12. CASE FetcherStops \/ PollFails \/ FetchFails \/ BlockTimeout \/ Stop \/ UNCHANGED vars
  <2>1. UNCHANGED <<ringVars, session, latestHeight, taken, delivered, chain, committed, pc,
                    heightToProcess, missed>>
    BY <1>12 DEF FetcherStops, FetcherGivesUp, PollFails, FetchFails, BlockTimeout,
                 NoticeTrouble, Stop, vars, allPipeVars, pipeVars, engineVars, memoryVars
  <2>2. /\ ~tryToRecover' => ~tryToRecover
        /\ fetcher'.state # "off" => fetcher.state # "off"
        /\ health' \in {health, "FAILED"}
        /\ subscribed' => subscribed
    BY <1>12 DEF FetcherStops, FetcherGivesUp, FetcherOff, PollFails, FetchFails, BlockTimeout,
                 NoticeTrouble, Stop, vars, allPipeVars, pipeVars, engineVars, memoryVars
  <2>3. started \in BOOLEAN /\ retryCount \in Nat /\ pollers \in Nat
    BY DEF EngineInv, PlacesOK
  <2>4. started' \in BOOLEAN
    BY <1>12, <2>3 DEF FetcherStops, PollFails, FetchFails, BlockTimeout, Stop, vars,
                       engineVars, memoryVars
  <2>5. retryCount' = retryCount \/ retryCount' = retryCount + 1
    BY <1>12 DEF FetcherStops, PollFails, FetchFails, BlockTimeout, Stop, vars,
                 engineVars, memoryVars
  <2>6. pollers' = pollers \/ (pollers > 0 /\ pollers' = pollers - 1)
    BY <1>12 DEF FetcherStops, PollFails, FetchFails, BlockTimeout, Stop, vars,
                 engineVars, memoryVars
  <2>7. retryCount' \in Nat
    BY <2>3, <2>5
  <2>8. pollers' \in Nat /\ (pollers' > 0 => pollers > 0)
    BY <2>3, <2>6
  <2> QED
    BY <1>1, <2>1, <2>2, <2>4, <2>7, <2>8, QuietKeeps
<1> QED
  BY <1>2, <1>3, <1>4, <1>5, <1>6, <1>7, <1>8, <1>9, <1>10, <1>11, <1>12
     DEF Next, MainStep, FetcherStep, Failure, FetcherFetches

\* The invariant holds in every state of every execution.
THEOREM EngineInvariance == SafetySpec => [](IInv /\ EngineInv)
<1>1. Init => IInv /\ EngineInv
  BY EngineInitOK
<1>2. IInv /\ EngineInv /\ [Next]_vars => (IInv /\ EngineInv)'
  BY EngineStepOK
<1> QED
  BY <1>1, <1>2, PTL DEF SafetySpec

\* The engine uses the queue as BlockPipeline lets its users do, so that what is proved
\* of the queue holds in it.
THEOREM EngineUsesQueue == SafetySpec => PipelineSafety
<1>1. Init => PipelineInit
  BY DEF Init
<1>2. EngineInv /\ [Next]_vars => [PipelineNext]_allPipeVars
  BY EngineStepIsPipelineStep DEF EngineInv
<1> QED
  BY <1>1, <1>2, EngineInvariance, PTL DEF SafetySpec, PipelineSafety

\* No restart, crash or commit that was reported as failed makes the indexer run the
\* handlers of a height that is in the database, or of one below it.
THEOREM NothingIsReprocessed == SafetySpec => []NeverReprocesses
<1>1. IInv /\ EngineInv => NeverReprocesses
  BY BlockInHand DEF NeverReprocesses, Working
<1> QED
  BY <1>1, EngineInvariance, PTL

\* With polling, everything below the block in hand is in the database.
LEMMA PrefixCommitted ==
    ASSUME IInv, EngineInv, UsePolling, pc \in Working
    PROVE  /\ heightToProcess \in Height
           /\ \A h \in committed : h < heightToProcess
           /\ IF committed = {} THEN heightToProcess = StartHeight
              ELSE heightToProcess - 1 \in committed
<1>1. /\ heightToProcess \in StartHeight .. chain
      /\ \A h \in committed : h < heightToProcess
      /\ \A k \in StartHeight .. heightToProcess :
            k = heightToProcess \/ k \in committed \cup missed
  BY BlockInHand
<1>2. missed = {} /\ chain \in Height /\ committed \subseteq StartHeight .. chain
  BY DEF EngineInv, GapsOK, PlacesOK
<1>3. StartHeight \in Nat /\ chain \in Nat /\ heightToProcess \in Nat
        /\ StartHeight <= heightToProcess /\ heightToProcess \in Height
  BY <1>1, <1>2, EngineFacts
<1>4. \A k \in StartHeight .. heightToProcess - 1 : k \in committed
  BY <1>1, <1>2, <1>3
<1>5. CASE committed = {}
  <2>1. ~(StartHeight < heightToProcess)
    BY <1>3, <1>4, <1>5
  <2>2. heightToProcess = StartHeight
    BY <1>3, <2>1
  <2> QED
    BY <1>1, <1>3, <1>5, <2>2
<1>6. CASE committed # {}
  <2>1. PICK h \in committed : TRUE
    BY <1>6
  <2>2. StartHeight <= h /\ h < heightToProcess /\ h \in Nat
    BY <1>1, <1>2, <1>3, <2>1
  <2>3. heightToProcess - 1 \in StartHeight .. heightToProcess - 1
    BY <1>3, <2>2
  <2> QED
    BY <1>1, <1>3, <1>4, <1>6, <2>3
<1> QED
  BY <1>5, <1>6

\* With polling, the block in hand is always the successor of the newest block in the
\* database: no height is skipped and none repeated.
THEOREM SuccessorIsProcessed == SafetySpec => []ProcessesNextHeight
<1>1. IInv /\ EngineInv => ProcessesNextHeight
  <2> SUFFICES ASSUME IInv, EngineInv, UsePolling, pc \in Working
               PROVE  heightToProcess = NextHeight
    BY DEF ProcessesNextHeight, Working
  <2>1. /\ heightToProcess \in Height
        /\ \A h \in committed : h < heightToProcess
        /\ IF committed = {} THEN heightToProcess = StartHeight
           ELSE heightToProcess - 1 \in committed
    BY PrefixCommitted
  <2>2. chain \in Height /\ committed \subseteq StartHeight .. chain
    BY DEF EngineInv, PlacesOK
  <2>3. PICK n : n = NextHeight
    OBVIOUS
  <2>4. /\ n \in StartHeight .. chain + 1 \cup {StartHeight}
        /\ \A h \in committed : h < n
        /\ committed # {} => n - 1 \in committed
        /\ committed = {} => n = StartHeight
    BY <2>2, <2>3, NextHeightFacts
  <2>5. CASE committed # {}
    <3>1. heightToProcess - 1 < n /\ n - 1 < heightToProcess
      BY <2>1, <2>4, <2>5
    <3>2. n \in Nat /\ heightToProcess \in Nat
      BY <2>1, <2>2, <2>4, EngineFacts
    <3> QED
      BY <2>3, <3>1, <3>2
  <2> QED
    BY <2>1, <2>3, <2>4, <2>5
<1> QED
  BY <1>1, EngineInvariance, PTL

\* However often it restarts, the indexer takes one block beyond its end height at most.
THEOREM StopsAtTheEnd == SafetySpec => []AtMostOneBeyondEnd
<1>1. IInv /\ EngineInv => AtMostOneBeyondEnd
  BY DEF EngineInv
<1> QED
  BY <1>1, EngineInvariance, PTL

\* An indexer that gave up is reported as failed.
THEOREM GivingUpIsReported == SafetySpec => []FatalIsUnhealthy
<1>1. IInv /\ EngineInv => FatalIsUnhealthy
  BY DEF EngineInv, HealthOK, FatalIsUnhealthy
<1> QED
  BY <1>1, EngineInvariance, PTL

\* Below the newest block in the database, only heights that were never announced are
\* left out.
THEOREM NothingAnnouncedIsSkipped == SafetySpec => []SkipsOnlyMissed
<1>1. IInv /\ EngineInv => SkipsOnlyMissed
  BY DEF EngineInv, GapsOK
<1> QED
  BY <1>1, EngineInvariance, PTL

-----------------------------------------------------------------------------
\* Only a commit, reported or not, changes the table, and it adds the block in hand.
LEMMA TableGrows ==
    [Next]_vars => \/ committed' = committed
                   \/ pc = "commit" /\ committed' = committed \cup {heightToProcess}
<1> SUFFICES ASSUME [Next]_vars
             PROVE  \/ committed' = committed
                    \/ pc = "commit" /\ committed' = committed \cup {heightToProcess}
  OBVIOUS
<1>1. CASE MainStep
  BY <1>1 DEF MainStep, Start, LearnLatestHeight, LearnNextHeight, BeginSucceeds, BlockArrives,
              HandlersFinish, CommitSucceeds, AwaitTimesOut, RollbackEnds
<1>2. CASE FetcherStep \/ PollTick \/ NewBlock \/ Stop
  BY <1>2 DEF FetcherStep, FetcherFetches, FetcherStops, PollTick, NewBlock, Stop, Announce,
              engineVars
<1>3. CASE Failure
  BY <1>3 DEF Failure, StartFails, BeginFails, IdleTimeout, NoBlockData, HandlerFails,
              CommitFails, PollFails, FetchFails, BlockTimeout, Crash
<1>4. CASE UNCHANGED vars
  BY <1>4 DEF vars, engineVars
<1> QED
  BY <1>1, <1>2, <1>3, <1>4 DEF Next

\* With polling, the blocks table implements the chain that grows one height at a time,
\* whatever fails.
THEOREM TableIsChain ==
    ASSUME UsePolling
    PROVE  SafetySpec => ImplementsIndexedChain
<1>1. Init => Chain!ChainInit
  BY DEF Init, Chain!ChainInit
<1>2. IInv /\ EngineInv /\ [Next]_vars => [Chain!ChainNext]_committed
  <2> SUFFICES ASSUME IInv, EngineInv, [Next]_vars, committed' # committed
               PROVE  Chain!ChainNext
    OBVIOUS
  <2>1. pc \in Working /\ committed' = committed \cup {heightToProcess}
    BY TableGrows DEF Working
  <2>2. /\ heightToProcess \in Height
        /\ \A h \in committed : h < heightToProcess
        /\ IF committed = {} THEN heightToProcess = StartHeight
           ELSE heightToProcess - 1 \in committed
    BY <2>1, PrefixCommitted
  <2>3. Chain!Index(heightToProcess)
    BY <2>1, <2>2 DEF Chain!Index
  <2> QED
    BY <2>2, <2>3 DEF Chain!ChainNext
<1>3. ImplementsIndexedChain <=> Chain!ChainInit /\ [][Chain!ChainNext]_committed
  BY DEF ImplementsIndexedChain, Chain!ChainSpec
<1> QED
  BY <1>1, <1>2, <1>3, EngineInvariance, PTL DEF SafetySpec
=============================================================================

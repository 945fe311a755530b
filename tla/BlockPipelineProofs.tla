------------------------- MODULE BlockPipelineProofs -------------------------
(***************************************************************************)
(* Proofs about the block queue and its users, for every batch size, every *)
(* set of heights and both ways of announcing blocks.                      *)
(*                                                                         *)
(* The inductive invariant has three parts: RingOK says how the slots, the *)
(* counters and the continuePromise fit together, ProducersOK who may      *)
(* enqueue when, HeightsOK which heights were enqueued.                    *)
(***************************************************************************)
EXTENDS BlockPipeline, TLAPS

RingOK ==
    /\ items \in [Slots -> Nat \cup {NoPromise}]
    /\ count \in 0 .. BatchSize
    /\ next \in Slots
    /\ nextAvail = SlotAt(count)
    /\ resolved \in Seq(Nat)
    /\ delivered \in Seq(Nat)
    /\ taken \in Nat \cup {NoPromise}
    /\ taken # NoPromise => taken = Len(delivered)
    /\ Len(delivered) <= Len(resolved)
    /\ \A j \in 1 .. Len(delivered) : delivered[j] = resolved[j]
    /\ continueOpen \in BOOLEAN
    /\ continueOpen <=> count < BatchSize
    /\ HoldsUndelivered

ProducersOK ==
    /\ synced \in BOOLEAN
    /\ session \in {"over", "starting", "live"}
    /\ latestHeight \in Nat
    /\ tryToRecover \in BOOLEAN
    /\ fetcher \in [state : {"off", "ready", "waiting"}, height : Nat]
    /\ synced => fetcher.state = "off"
    /\ synced => count < BatchSize
    /\ fetcher.state = "ready" => count < BatchSize
    /\ fetcher.state = "waiting" => count = BatchSize
    /\ session = "starting" =>
          ~synced /\ fetcher.state = "off" /\ count < BatchSize /\ resolved = <<>>

HeightsOK ==
    /\ \A j \in 2 .. Len(resolved) : UsePolling => resolved[j] = resolved[j - 1] + 1
    /\ fetcher.state # "off" =>
          /\ resolved # <<>>
          /\ resolved[Len(resolved)] = fetcher.height
          /\ fetcher.height <= latestHeight
    /\ SyncedIsCaughtUp

IInv == RingOK /\ ProducersOK /\ HeightsOK

USE BatchSizeAssumption DEF Slots, NoPromise, Placeholder

-----------------------------------------------------------------------------
\* A ring that was cleared is in order.
LEMMA ClearedRing ==
    ASSUME Clear, taken' = NoPromise, delivered' = <<>>
    PROVE  RingOK' /\ count' = 1
<1>1. count' = 1 /\ next' = 0 /\ resolved' = <<>> /\ continueOpen' = TRUE
  BY DEF Clear
<1>2. nextAvail' = SlotAt(count)'
  BY <1>1 DEF Clear, SlotAt, Advance
<1>3. items' \in [Slots -> Nat \cup {NoPromise}] /\ items'[0] = 0
  BY DEF Clear, FreshItems
<1>4. Dequeued' = 0
  BY DEF Dequeued
<1>5. HoldsUndelivered'
  BY <1>1, <1>3, <1>4 DEF HoldsUndelivered, SlotAt
<1> QED
  BY <1>1, <1>2, <1>3, <1>4, <1>5 DEF RingOK

\* An enqueue into a ring with a free slot keeps it in order: the new placeholder
\* lands in the slot behind the last promise.
LEMMA EnqueueKeepsRing ==
    ASSUME RingOK, count < BatchSize, NEW item \in Nat, Enqueue(item),
           taken' = taken, delivered' = delivered
    PROVE  RingOK' /\ count' = count + 1
<1>1. /\ count' = count + 1 /\ next' = next
      /\ nextAvail' = Advance(nextAvail)
      /\ continueOpen' = (continueOpen /\ Advance(nextAvail) # next)
  BY DEF Enqueue
<1>2. nextAvail \in Slots /\ nextAvail' = SlotAt(count)'
  <2>1. count \in Nat /\ next \in Nat /\ next < BatchSize /\ nextAvail = SlotAt(count)
    BY DEF RingOK
  <2> QED
    BY <1>1, <2>1 DEF SlotAt, Advance
<1>3. resolved' \in Seq(Nat) /\ Len(resolved') = Len(resolved) + 1
        /\ \A j \in 1 .. Len(resolved) : resolved'[j] = resolved[j]
  BY DEF RingOK, Enqueue
<1>4. continueOpen' \in BOOLEAN /\ (continueOpen' <=> count' < BatchSize)
  <2>1. count \in Nat /\ next \in Nat /\ next < BatchSize /\ nextAvail = SlotAt(count)
          /\ continueOpen
    BY DEF RingOK
  <2>2. Advance(nextAvail) # next <=> count + 1 < BatchSize
    BY <2>1 DEF SlotAt, Advance
  <2> QED
    BY <1>1, <2>1, <2>2
<1>5. items' \in [Slots -> Nat \cup {NoPromise}]
  BY <1>2 DEF RingOK, Enqueue
<1>6. HoldsUndelivered'
  <2>0. Dequeued \in Nat /\ Dequeued' = Dequeued /\ count \in Nat /\ Len(resolved) \in Nat
    BY DEF RingOK, Dequeued
  <2>1. count = Len(resolved) + 1 - Dequeued /\ count' = Placeholder' + 1 - Dequeued'
    BY <1>1, <1>3, <2>0 DEF RingOK, HoldsUndelivered
  <2>2. ASSUME NEW k \in 0 .. count' - 1
        PROVE  items'[SlotAt(k)'] = Dequeued' + k
    <3>1. SlotAt(k)' = SlotAt(k) /\ SlotAt(k) \in Slots
      <4>1. k \in Nat /\ k < BatchSize /\ next \in Nat /\ next < BatchSize
        BY <1>1, <2>0 DEF RingOK
      <4> QED
        BY <1>1, <4>1 DEF SlotAt
    <3>2. CASE k = count
      <4>1. SlotAt(k) = nextAvail
        BY <3>2 DEF RingOK
      <4>2. items'[nextAvail] = Len(resolved) + 1
        BY <1>2 DEF RingOK, Enqueue
      <4>3. Len(resolved) + 1 = Dequeued + k
        BY <2>0, <2>1, <3>2
      <4> QED
        BY <2>0, <3>1, <4>1, <4>2, <4>3
    <3>3. CASE k # count
      <4>1. SlotAt(k) # nextAvail
        <5>1. k \in Nat /\ k < count /\ count < BatchSize /\ count \in Nat
          BY <1>1, <2>0, <3>3
        <5>2. next \in Nat /\ next < BatchSize /\ nextAvail = SlotAt(count)
          BY DEF RingOK
        <5> QED
          BY <5>1, <5>2 DEF SlotAt
      <4>2. items[SlotAt(k)] = Dequeued + k
        BY <1>1, <3>3 DEF RingOK, HoldsUndelivered
      <4> QED
        BY <2>0, <3>1, <4>1, <4>2 DEF RingOK, Enqueue
    <3> QED
      BY <3>2, <3>3
  <2> QED
    BY <2>1, <2>2 DEF HoldsUndelivered
<1> QED
  BY <1>1, <1>2, <1>3, <1>4, <1>5, <1>6 DEF RingOK

\* A dequeue hands out the oldest promise nobody has, number Len(delivered), and
\* keeps the rest of the ring in order.
LEMMA TakeKeepsRing ==
    ASSUME RingOK, taken = NoPromise, count > 0, Dequeue,
           taken' = items[next], delivered' = delivered
    PROVE  RingOK' /\ count' = count - 1
<1>1. count' = count - 1 /\ next' = Advance(next)
        /\ items' = items /\ nextAvail' = nextAvail /\ resolved' = resolved
        /\ continueOpen' = (continueOpen \/ count - 1 <= BatchSize)
  BY DEF Dequeue
<1>2. count \in Nat /\ count <= BatchSize /\ next \in Nat /\ next < BatchSize
        /\ Len(resolved) \in Nat /\ Len(delivered) \in Nat
  BY DEF RingOK
<1>3. next' \in Slots
  BY <1>1, <1>2 DEF Advance
<1>4. ASSUME NEW k \in 0 .. BatchSize - 1
      PROVE  SlotAt(k)' = SlotAt(k + 1)
  BY <1>1, <1>2 DEF SlotAt, Advance
<1>5. count - 1 \in 0 .. BatchSize - 1
  BY <1>2
<1>6. nextAvail' = SlotAt(count)'
  <2>1. SlotAt(count)' = SlotAt(count - 1 + 1)
    BY <1>1, <1>4, <1>5 DEF SlotAt
  <2> QED
    BY <1>1, <1>2, <2>1 DEF RingOK
<1>7. Dequeued = Len(delivered) /\ count = Len(resolved) + 1 - Len(delivered)
        /\ \A k \in 0 .. count - 1 : items[SlotAt(k)] = Len(delivered) + k
  BY <1>2 DEF RingOK, HoldsUndelivered, Dequeued
<1>8. taken' = Len(delivered)
  <2>1. SlotAt(0) = next
    BY <1>2 DEF SlotAt
  <2>2. items[SlotAt(0)] = Len(delivered) + 0
    BY <1>2, <1>7
  <2> QED
    BY <1>2, <2>1, <2>2
<1>9. Dequeued' = Len(delivered) + 1
  BY <1>2, <1>8 DEF Dequeued
<1>10. HoldsUndelivered'
  <2>1. count' = Placeholder' + 1 - Dequeued'
    BY <1>1, <1>2, <1>7, <1>9
  <2>2. ASSUME NEW k \in 0 .. count' - 1
        PROVE  items'[SlotAt(k)'] = Dequeued' + k
    <3>1. k \in 0 .. BatchSize - 1 /\ k + 1 \in 0 .. count - 1
      BY <1>1, <1>2
    <3>2. items[SlotAt(k + 1)] = Len(delivered) + (k + 1)
      BY <1>7, <3>1
    <3> QED
      BY <1>1, <1>2, <1>4, <1>9, <3>1, <3>2
  <2> QED
    BY <2>1, <2>2 DEF HoldsUndelivered
<1>11. continueOpen' \in BOOLEAN /\ (continueOpen' <=> count' < BatchSize)
  <2>1. count - 1 <= BatchSize /\ count' < BatchSize
    BY <1>1, <1>2
  <2>2. continueOpen' = TRUE
    BY <1>1, <2>1, Zenon
  <2> QED
    BY <2>1, <2>2
<1>12. taken' \in Nat \cup {NoPromise} /\ (taken' # NoPromise => taken' = Len(delivered'))
  BY <1>2, <1>8
<1>13. /\ items' \in [Slots -> Nat \cup {NoPromise}]
       /\ resolved' \in Seq(Nat) /\ delivered' \in Seq(Nat)
       /\ Len(delivered') <= Len(resolved')
       /\ \A j \in 1 .. Len(delivered') : delivered'[j] = resolved'[j]
  BY <1>1 DEF RingOK
<1>14. count' \in 0 .. BatchSize
  BY <1>1, <1>2
<1> QED
  BY <1>1, <1>3, <1>6, <1>10, <1>11, <1>12, <1>13, <1>14 DEF RingOK

\* The height the loop receives is the one at its place in the history.
LEMMA DeliverKeepsRing ==
    ASSUME RingOK, taken # NoPromise, taken < Placeholder, UNCHANGED ringVars,
           delivered' = Append(delivered, resolved[taken + 1]), taken' = NoPromise
    PROVE  RingOK' /\ count' = count
<1>1. items' = items /\ count' = count /\ next' = next /\ nextAvail' = nextAvail
        /\ resolved' = resolved /\ continueOpen' = continueOpen
  BY DEF ringVars
<1>2. taken = Len(delivered) /\ Len(delivered) \in Nat /\ Len(resolved) \in Nat
  BY DEF RingOK
<1>3. resolved[taken + 1] \in Nat
  BY <1>2 DEF RingOK
<1>4. delivered' \in Seq(Nat) /\ Len(delivered') = Len(delivered) + 1
        /\ \A j \in 1 .. Len(delivered) : delivered'[j] = delivered[j]
        /\ delivered'[Len(delivered) + 1] = resolved[Len(delivered) + 1]
  BY <1>2, <1>3 DEF RingOK
<1>5. \A j \in 1 .. Len(delivered') : delivered'[j] = resolved'[j]
  BY <1>1, <1>2, <1>4 DEF RingOK
<1>6. Dequeued' = Dequeued
  BY <1>2, <1>4 DEF Dequeued
<1>7. HoldsUndelivered'
  BY <1>1, <1>6 DEF RingOK, HoldsUndelivered, SlotAt
<1>8. nextAvail' = SlotAt(count)'
  BY <1>1 DEF RingOK, SlotAt
<1> QED
  BY <1>1, <1>2, <1>4, <1>5, <1>7, <1>8 DEF RingOK

\* What the ring invariant speaks of is left alone.
LEMMA UnchangedRing ==
    ASSUME RingOK, UNCHANGED ringVars, taken' = taken, delivered' = delivered
    PROVE  RingOK' /\ count' = count
BY DEF RingOK, ringVars, HoldsUndelivered, Dequeued, SlotAt

-----------------------------------------------------------------------------
\* A height appended behind its predecessor keeps the history consecutive.
LEMMA AppendConsecutive ==
    ASSUME resolved \in Seq(Nat), NEW h \in Nat, resolved' = Append(resolved, h),
           \A j \in 2 .. Len(resolved) : UsePolling => resolved[j] = resolved[j - 1] + 1,
           UsePolling /\ resolved # <<>> => h = resolved[Len(resolved)] + 1
    PROVE  /\ \A j \in 2 .. Len(resolved)' :
                  UsePolling => resolved'[j] = resolved'[j - 1] + 1
           /\ resolved' # <<>>
           /\ resolved'[Len(resolved')] = h
<1>1. Len(resolved') = Len(resolved) + 1 /\ Len(resolved) \in Nat
        /\ resolved'[Len(resolved) + 1] = h
        /\ \A j \in 1 .. Len(resolved) : resolved'[j] = resolved[j]
  OBVIOUS
<1>2. ASSUME NEW j \in 2 .. Len(resolved'), UsePolling
      PROVE  resolved'[j] = resolved'[j - 1] + 1
  <2>1. CASE j = Len(resolved) + 1
    <3>1. Len(resolved) >= 1 /\ j - 1 = Len(resolved)
      BY <1>1, <2>1
    <3>2. resolved # <<>>
      BY <3>1
    <3>3. h = resolved[Len(resolved)] + 1
      BY <1>2, <3>2
    <3> QED
      BY <1>1, <2>1, <3>1, <3>3
  <2>2. CASE j # Len(resolved) + 1
    BY <1>1, <1>2, <2>2
  <2> QED
    BY <2>1, <2>2
<1> QED
  BY <1>1, <1>2

\* A round of the fetcher that starts with room in the ring leaves everything in
\* order, whether it fetches, waits or declares the queue synced.
LEMMA FetchRoundKeeps ==
    ASSUME RingOK, count < BatchSize, synced = FALSE, latestHeight \in Nat,
           \A j \in 2 .. Len(resolved) : UsePolling => resolved[j] = resolved[j - 1] + 1,
           NEW i \in Nat,
           resolved # <<>> => resolved[Len(resolved)] + 1 = i /\ i <= latestHeight + 1,
           FetchRound(i), UNCHANGED <<latestHeight, taken, delivered>>
    PROVE  /\ RingOK'
           /\ synced' \in BOOLEAN
           /\ fetcher' \in [state : {"off", "ready", "waiting"}, height : Nat]
           /\ synced' => fetcher'.state = "off" /\ count' < BatchSize
           /\ fetcher'.state = "ready" => count' < BatchSize
           /\ fetcher'.state = "waiting" => count' = BatchSize
           /\ HeightsOK'
<1>1. CASE i <= latestHeight
  <2>1. Enqueue(i) /\ fetcher' = [state  |-> IF continueOpen' THEN "ready" ELSE "waiting",
                                  height |-> i]
    BY <1>1 DEF FetchRound
  <2>2. RingOK' /\ count' = count + 1
    BY <2>1, EnqueueKeepsRing
  <2>3. synced' = FALSE /\ resolved' = Append(resolved, i)
    BY <2>1 DEF Enqueue
  <2>4. count \in Nat /\ resolved \in Seq(Nat) /\ (continueOpen' <=> count' < BatchSize)
    BY <2>2 DEF RingOK
  <2>5. /\ \A j \in 2 .. Len(resolved)' : UsePolling => resolved'[j] = resolved'[j - 1] + 1
        /\ resolved' # <<>>
        /\ resolved'[Len(resolved')] = i
    <3>1. UsePolling /\ resolved # <<>> => i = resolved[Len(resolved)] + 1
      OBVIOUS
    <3> HIDE DEF Placeholder
    <3> QED
      BY <2>3, <2>4, <3>1, AppendConsecutive
  <2>6. HeightsOK'
    BY <1>1, <2>1, <2>3, <2>5 DEF HeightsOK, SyncedIsCaughtUp
  <2>7. /\ fetcher' \in [state : {"off", "ready", "waiting"}, height : Nat]
        /\ fetcher'.state = IF continueOpen' THEN "ready" ELSE "waiting"
    BY <2>1
  <2>8. count' \in 0 .. BatchSize
    BY <2>2 DEF RingOK
  <2>9. /\ fetcher'.state = "ready" => count' < BatchSize
        /\ fetcher'.state = "waiting" => count' = BatchSize
    BY <2>4, <2>7, <2>8
  <2> QED
    BY <2>2, <2>3, <2>6, <2>7, <2>9
<1>2. CASE ~(i <= latestHeight)
  <2>1. SetSynced /\ fetcher' = FetcherOff
    BY <1>2 DEF FetchRound
  <2>2. UNCHANGED <<items, count, next, nextAvail, resolved, continueOpen>> /\ synced' = TRUE
    BY <2>1 DEF SetSynced
  <2>3. RingOK'
    BY <2>2 DEF RingOK, HoldsUndelivered, Dequeued, SlotAt
  <2>4. resolved # <<>> => resolved[Len(resolved)] = latestHeight
    <3>1. SUFFICES ASSUME resolved # <<>>
                   PROVE  resolved[Len(resolved)] = latestHeight
      OBVIOUS
    <3>2. resolved[Len(resolved)] \in Nat
      BY <3>1 DEF RingOK
    <3> QED
      BY <1>2, <3>1, <3>2
  <2>5. HeightsOK'
    BY <2>1, <2>2, <2>4 DEF HeightsOK, SyncedIsCaughtUp, FetcherOff
  <2>6. fetcher' = [state |-> "off", height |-> 0]
    BY <2>1 DEF FetcherOff
  <2> QED
    BY <2>2, <2>3, <2>5, <2>6
<1> QED
  BY <1>1, <1>2

-----------------------------------------------------------------------------
\* Heights are numbers, and a chain misses none between two of its blocks.
LEMMA HeightFacts ==
    /\ Height \subseteq Nat /\ UsePolling \in BOOLEAN
    /\ \A h, k \in Height : h .. k \subseteq Height
BY HeightAssumption

\* The invariant holds when the process starts.
LEMMA InitOK == PipelineInit => IInv
<1> SUFFICES ASSUME PipelineInit PROVE IInv
  OBVIOUS
<1>1. /\ items = FreshItems /\ count = 1 /\ next = 0 /\ nextAvail = Advance(0)
      /\ resolved = <<>> /\ delivered = <<>> /\ taken = NoPromise
      /\ continueOpen = TRUE /\ synced = FALSE
  BY DEF PipelineInit, BufferInit
<1>2. RingOK
  <2>1. items \in [Slots -> Nat \cup {NoPromise}] /\ items[0] = 0
    BY <1>1 DEF FreshItems
  <2>2. Dequeued = 0 /\ nextAvail = SlotAt(count)
    BY <1>1 DEF Dequeued, SlotAt, Advance
  <2>3. HoldsUndelivered
    BY <1>1, <2>1, <2>2 DEF HoldsUndelivered, SlotAt
  <2> QED
    BY <1>1, <2>1, <2>2, <2>3 DEF RingOK
<1>3. ProducersOK
  BY <1>1 DEF PipelineInit, ProducersOK, FetcherOff
<1>4. HeightsOK
  BY <1>1 DEF PipelineInit, HeightsOK, SyncedIsCaughtUp, FetcherOff
<1> QED
  BY <1>2, <1>3, <1>4 DEF IInv

\* One step of each kind preserves the invariant.
LEMMA StepOK == IInv /\ [PipelineNext]_allPipeVars => IInv'
<1> SUFFICES ASSUME IInv, [PipelineNext]_allPipeVars PROVE IInv'
  OBVIOUS
<1> USE DEF IInv
<1>1. CASE StartSession
  <2>1. /\ Clear /\ taken' = NoPromise /\ delivered' = <<>> /\ fetcher' = FetcherOff
        /\ session' = "starting" /\ UNCHANGED <<latestHeight, tryToRecover>>
    BY <1>1 DEF StartSession
  <2>2. RingOK' /\ count' = 1
    BY <2>1, ClearedRing
  <2>3. resolved' = <<>> /\ synced' = FALSE
    BY <2>1 DEF Clear
  <2>4. fetcher' = [state |-> "off", height |-> 0]
    BY <2>1 DEF FetcherOff
  <2>5. latestHeight' \in Nat /\ tryToRecover' \in BOOLEAN
    BY <2>1 DEF ProducersOK
  <2>6. /\ fetcher'.state = "off"
        /\ fetcher' \in [state : {"off", "ready", "waiting"}, height : Nat]
    BY <2>4
  <2>7. ProducersOK'
    BY <2>1, <2>2, <2>3, <2>5, <2>6 DEF ProducersOK
  <2>8. HeightsOK'
    BY <2>3, <2>6 DEF HeightsOK, SyncedIsCaughtUp
  <2> QED
    BY <2>2, <2>7, <2>8
<1>2. ASSUME NEW h \in Height, StatusReply(h)
      PROVE  IInv'
  <2>1. RingOK' /\ count' = count
    BY <1>2, UnchangedRing DEF StatusReply
  <2>2. /\ session = "starting" /\ latestHeight' = h /\ h \in Nat
        /\ UNCHANGED <<ringVars, session, tryToRecover, fetcher, taken, delivered>>
    BY <1>2, HeightFacts DEF StatusReply
  <2>3. fetcher.state = "off" /\ synced = FALSE
    BY <2>2 DEF ProducersOK
  <2>4. ProducersOK'
    BY <2>1, <2>2 DEF ringVars, ProducersOK
  <2>5. HeightsOK'
    BY <2>2, <2>3 DEF ringVars, HeightsOK, SyncedIsCaughtUp
  <2> QED
    BY <2>1, <2>4, <2>5
<1>3. ASSUME NEW h \in Height \cup {latestHeight + 1}, NEW loops \in BOOLEAN,
             Launch(h, loops)
      PROVE  IInv'
  <2>1. /\ session = "starting" /\ FetchRound(h) /\ tryToRecover' = FALSE
        /\ session' \in {"over", "live"}
        /\ UNCHANGED <<latestHeight, taken, delivered>>
    BY <1>3 DEF Launch
  <2>2. count < BatchSize /\ synced = FALSE /\ resolved = <<>>
          /\ latestHeight \in Nat /\ h \in Nat
    BY <2>1, HeightFacts DEF ProducersOK
  <2>3. \A j \in 2 .. Len(resolved) : UsePolling => resolved[j] = resolved[j - 1] + 1
    BY DEF HeightsOK
  <2>4. /\ RingOK' /\ synced' \in BOOLEAN
        /\ fetcher' \in [state : {"off", "ready", "waiting"}, height : Nat]
        /\ synced' => fetcher'.state = "off" /\ count' < BatchSize
        /\ fetcher'.state = "ready" => count' < BatchSize
        /\ fetcher'.state = "waiting" => count' = BatchSize
        /\ HeightsOK'
    BY <2>1, <2>2, <2>3, FetchRoundKeeps
  <2> QED
    BY <2>1, <2>2, <2>4 DEF ProducersOK
<1>4. ASSUME NEW h \in Announced, AppendAtTip(h)
      PROVE  IInv'
  <2>1. /\ synced /\ ~tryToRecover /\ Enqueue(h) /\ latestHeight' = h
        /\ count + 1 # BatchSize
        /\ UNCHANGED <<session, tryToRecover, fetcher, taken, delivered>>
    BY <1>4 DEF AppendAtTip
  <2>2. h \in Nat /\ (UsePolling => h = latestHeight + 1)
    BY <1>4, HeightFacts DEF Announced
  <2>3. count \in Nat /\ count < BatchSize /\ fetcher.state = "off"
    BY <2>1 DEF RingOK, ProducersOK
  <2>4. RingOK' /\ count' = count + 1
    BY <2>1, <2>2, <2>3, EnqueueKeepsRing
  <2>5. resolved' = Append(resolved, h) /\ synced' = synced /\ resolved \in Seq(Nat)
    BY <2>1 DEF Enqueue, RingOK
  <2>6. ProducersOK'
    BY <2>1, <2>2, <2>3, <2>4, <2>5 DEF ProducersOK
  <2>7. /\ \A j \in 2 .. Len(resolved)' : UsePolling => resolved'[j] = resolved'[j - 1] + 1
        /\ resolved'[Len(resolved')] = h
    <3>1. UsePolling /\ resolved # <<>> => h = resolved[Len(resolved)] + 1
      BY <2>1, <2>2 DEF HeightsOK, SyncedIsCaughtUp
    <3>2. \A j \in 2 .. Len(resolved) : UsePolling => resolved[j] = resolved[j - 1] + 1
      BY DEF HeightsOK
    <3> QED
      BY <2>2, <2>5, <3>1, <3>2, AppendConsecutive
  <2>8. HeightsOK'
    BY <2>1, <2>3, <2>7 DEF HeightsOK, SyncedIsCaughtUp
  <2> QED
    BY <2>4, <2>6, <2>8
<1>5. ASSUME NEW h \in Announced, QueueFull(h) \/ NoteHeight(h)
      PROVE  IInv'
  <2>1. /\ UNCHANGED <<ringVars, session, fetcher, taken, delivered>>
        /\ latestHeight' = h /\ tryToRecover' \in BOOLEAN
        /\ (synced => tryToRecover')
    BY <1>5 DEF QueueFull, NoteHeight, ProducersOK
  <2>2. h \in Nat /\ h >= latestHeight
    BY <1>5, HeightFacts DEF Announced, ProducersOK
  <2>3. RingOK' /\ count' = count
    BY <2>1, UnchangedRing
  <2>4. ProducersOK'
    BY <2>1, <2>2, <2>3 DEF ringVars, ProducersOK
  <2>5. HeightsOK'
    <3>1. fetcher.height \in Nat /\ latestHeight \in Nat
      BY DEF ProducersOK
    <3> QED
      BY <2>1, <2>2, <3>1 DEF ringVars, HeightsOK, SyncedIsCaughtUp
  <2> QED
    BY <2>3, <2>4, <2>5
<1>6. CASE FetcherContinues
  <2>1. /\ fetcher.state = "ready" /\ FetchRound(fetcher.height + 1)
        /\ UNCHANGED <<session, latestHeight, tryToRecover, taken, delivered>>
    BY <1>6 DEF FetcherContinues
  <2>2. /\ count < BatchSize /\ synced = FALSE /\ latestHeight \in Nat
        /\ fetcher.height + 1 \in Nat /\ session # "starting"
    BY <2>1 DEF ProducersOK
  <2>3. /\ \A j \in 2 .. Len(resolved) : UsePolling => resolved[j] = resolved[j - 1] + 1
        /\ resolved # <<>> =>
              /\ resolved[Len(resolved)] + 1 = fetcher.height + 1
              /\ fetcher.height + 1 <= latestHeight + 1
    BY <2>1, <2>2 DEF HeightsOK, ProducersOK
  <2>4. /\ RingOK' /\ synced' \in BOOLEAN
        /\ fetcher' \in [state : {"off", "ready", "waiting"}, height : Nat]
        /\ synced' => fetcher'.state = "off" /\ count' < BatchSize
        /\ fetcher'.state = "ready" => count' < BatchSize
        /\ fetcher'.state = "waiting" => count' = BatchSize
        /\ HeightsOK'
    BY <2>1, <2>2, <2>3, FetchRoundKeeps
  <2> QED
    BY <2>1, <2>2, <2>4 DEF ProducersOK
<1>7. CASE FetcherGivesUp
  <2>1. RingOK' /\ count' = count
    BY <1>7, UnchangedRing DEF FetcherGivesUp
  <2> QED
    BY <1>7, <2>1 DEF FetcherGivesUp, FetcherOff, ringVars, ProducersOK, HeightsOK,
                      SyncedIsCaughtUp
<1>8. CASE Take
  <2>1. /\ session = "live" /\ taken = NoPromise /\ count > 0 /\ Dequeue
        /\ taken' = items[next] /\ fetcher' = Woken
        /\ UNCHANGED <<session, latestHeight, tryToRecover, delivered>>
    BY <1>8 DEF Take
  <2>2. RingOK' /\ count' = count - 1
    BY <2>1, TakeKeepsRing
  <2>3. /\ count \in Nat /\ count <= BatchSize
        /\ resolved' = resolved /\ synced' = synced
    BY <2>1 DEF RingOK, Dequeue
  <2>4. /\ fetcher' \in [state : {"off", "ready", "waiting"}, height : Nat]
        /\ fetcher'.height = fetcher.height
        /\ fetcher'.state = "off" <=> fetcher.state = "off"
        /\ fetcher'.state # "waiting"
    <3>1. continueOpen'
      BY <2>2, <2>3 DEF RingOK
    <3> QED
      BY <2>1, <3>1 DEF Woken, ProducersOK
  <2>5. ProducersOK'
    BY <2>1, <2>2, <2>3, <2>4 DEF ProducersOK
  <2>6. HeightsOK'
    BY <2>1, <2>3, <2>4 DEF HeightsOK, SyncedIsCaughtUp
  <2> QED
    BY <2>2, <2>5, <2>6
<1>9. CASE Deliver
  <2>1. RingOK' /\ count' = count
    BY <1>9, DeliverKeepsRing DEF Deliver
  <2> QED
    BY <1>9, <2>1 DEF Deliver, ringVars, ProducersOK, HeightsOK, SyncedIsCaughtUp
<1>10. CASE Abandon \/ Quit
  <2>1. RingOK' /\ count' = count
    BY <1>10, UnchangedRing DEF Abandon, Quit
  <2> QED
    BY <1>10, <2>1 DEF Abandon, Quit, ringVars, ProducersOK, HeightsOK, SyncedIsCaughtUp
<1>11. CASE NoticeTrouble
  <2>1. RingOK' /\ count' = count
    BY <1>11, UnchangedRing DEF NoticeTrouble
  <2> QED
    BY <1>11, <2>1 DEF NoticeTrouble, ringVars, ProducersOK, HeightsOK, SyncedIsCaughtUp
<1>12. CASE Reboot
  <2>1. /\ Clear /\ taken' = NoPromise /\ delivered' = <<>> /\ fetcher' = FetcherOff
        /\ session' = "over" /\ latestHeight' = 0 /\ tryToRecover' = FALSE
    BY <1>12 DEF Reboot
  <2>2. RingOK' /\ count' = 1
    BY <2>1, ClearedRing
  <2>3. resolved' = <<>> /\ synced' = FALSE
    BY <2>1 DEF Clear
  <2>4. fetcher' = [state |-> "off", height |-> 0]
    BY <2>1 DEF FetcherOff
  <2>5. /\ fetcher'.state = "off"
        /\ fetcher' \in [state : {"off", "ready", "waiting"}, height : Nat]
    BY <2>4
  <2>6. ProducersOK'
    BY <2>1, <2>2, <2>3, <2>5 DEF ProducersOK
  <2>7. HeightsOK'
    BY <2>3, <2>5 DEF HeightsOK, SyncedIsCaughtUp
  <2> QED
    BY <2>2, <2>6, <2>7
<1>13. CASE UNCHANGED allPipeVars
  <2>1. RingOK' /\ count' = count
    BY <1>13, UnchangedRing DEF allPipeVars, pipeVars
  <2> QED
    BY <1>13, <2>1 DEF allPipeVars, pipeVars, ringVars, ProducersOK, HeightsOK,
                       SyncedIsCaughtUp
<1> QED
  BY <1>1, <1>2, <1>3, <1>4, <1>5, <1>6, <1>7, <1>8, <1>9, <1>10, <1>11, <1>12, <1>13
     DEF PipelineNext, NewBlockReceived

-----------------------------------------------------------------------------
\* The invariant holds in every state of every execution.
THEOREM Invariance == PipelineSafety => []IInv
<1>1. PipelineInit => IInv
  BY InitOK
<1>2. IInv /\ [PipelineNext]_allPipeVars => IInv'
  BY StepOK
<1> QED
  BY <1>1, <1>2, PTL DEF PipelineSafety

\* Every variable of the queue and of its users keeps its type; in particular
\* count stays within the ring.
THEOREM TypeCorrect == PipelineSafety => []PipelineTypeOK
<1>1. IInv => PipelineTypeOK
  <2> SUFFICES ASSUME IInv PROVE PipelineTypeOK
    OBVIOUS
  <2>1. nextAvail \in Slots
    <3>1. count \in 0 .. BatchSize /\ next \in Slots /\ nextAvail = SlotAt(count)
      BY DEF IInv, RingOK
    <3> QED
      BY <3>1 DEF SlotAt
  <2> QED
    BY <2>1 DEF IInv, RingOK, ProducersOK, PipelineTypeOK
<1> QED
  BY <1>1, Invariance, PTL

\* Whatever its size, the ring never loses a promise that was not handed out.
THEOREM NothingOverwritten == PipelineSafety => []HoldsUndelivered
<1>1. IInv => HoldsUndelivered
  BY DEF IInv, RingOK
<1> QED
  BY <1>1, Invariance, PTL

\* Neither producer ever enqueues into a full ring.
THEOREM ProducersHaveRoom == PipelineSafety => []ProducerHasRoom
<1>1. IInv => ProducerHasRoom
  BY DEF IInv, ProducersOK, ProducerHasRoom
<1> QED
  BY <1>1, Invariance, PTL

\* No wake-up of the fetcher is lost.
THEOREM NoLostWakeUp == PipelineSafety => []FetcherWaitsForFullRing
<1>1. IInv => FetcherWaitsForFullRing
  BY DEF IInv, RingOK, ProducersOK, FetcherWaitsForFullRing
<1> QED
  BY <1>1, Invariance, PTL

\* The loop that comes back for a block finds a promise in the ring, so that the
\* test of size() in its condition is never what ends a session.
THEOREM LoopNeverStarves == PipelineSafety => []LoopFindsPromise
<1>1. IInv => LoopFindsPromise
  <2> SUFFICES ASSUME IInv, taken = NoPromise PROVE count > 0
    BY DEF LoopFindsPromise
  <2>1. /\ Len(delivered) \in Nat /\ Len(resolved) \in Nat
        /\ Len(delivered) <= Len(resolved)
        /\ count = Len(resolved) + 1 - Dequeued
    BY DEF IInv, RingOK, HoldsUndelivered
  <2>2. Dequeued = Len(delivered)
    BY <2>1 DEF Dequeued
  <2> QED
    BY <2>1, <2>2
<1> QED
  BY <1>1, Invariance, PTL

\* With polling, fetcher and block listener together hand the loop consecutive
\* heights.
THEOREM ConsecutiveDelivery == PipelineSafety => []DeliversConsecutiveHeights
<1>1. IInv => DeliversConsecutiveHeights
  <2> SUFFICES ASSUME IInv, UsePolling, NEW j \in 2 .. Len(delivered)
               PROVE  delivered[j] = delivered[j - 1] + 1
    BY DEF DeliversConsecutiveHeights
  <2>1. /\ Len(delivered) \in Nat /\ Len(resolved) \in Nat
        /\ Len(delivered) <= Len(resolved)
        /\ \A k \in 1 .. Len(delivered) : delivered[k] = resolved[k]
    BY DEF IInv, RingOK
  <2>2. j \in 2 .. Len(resolved) /\ j \in 1 .. Len(delivered) /\ j - 1 \in 1 .. Len(delivered)
    BY <2>1
  <2>3. resolved[j] = resolved[j - 1] + 1
    BY <2>2 DEF IInv, HeightsOK
  <2> QED
    BY <2>1, <2>2, <2>3
<1> QED
  BY <1>1, Invariance, PTL

\* With polling, no height falls between the fetcher and the block listener.
THEOREM HandOverLosesNothing == PipelineSafety => []SyncedIsCaughtUp
<1>1. IInv => SyncedIsCaughtUp
  BY DEF IInv, HeightsOK
<1> QED
  BY <1>1, Invariance, PTL

-----------------------------------------------------------------------------
(***************************************************************************)
(* The queue implements the bounded FIFO channel.                          *)
(***************************************************************************)
\* Only heights of the chain are heard of and fetched.
InChain ==
    /\ latestHeight \in Height \cup {0}
    /\ fetcher.state # "off" => fetcher.height \in Height

\* What a round of the fetcher is about to fetch is a height of the chain, since
\* it lies between one that was fetched or asked for and the newest one.
LEMMA NextIsInChain ==
    ASSUME InChain, latestHeight \in Nat, NEW i \in Nat, i <= latestHeight,
           \/ i \in Height
           \/ i - 1 \in Height
           \/ i = latestHeight + 1
    PROVE  i \in Height
<1>1. CASE i \in Height
  BY <1>1
<1>2. CASE i - 1 \in Height
  <2>1. latestHeight \in Height
    <3>1. i - 1 \in Nat
      BY <1>2, HeightFacts
    <3> QED
      BY <3>1 DEF InChain
  <2>2. i - 1 .. latestHeight \subseteq Height
    BY <1>2, <2>1, HeightFacts
  <2> QED
    BY <2>2
<1>3. CASE i = latestHeight + 1
  BY <1>3
<1> QED
  BY <1>1, <1>2, <1>3

\* A round of the fetcher fetches heights of the chain only.
LEMMA FetchRoundInChain ==
    ASSUME InChain, latestHeight \in Nat, NEW i \in Nat,
           i \in Height \/ i - 1 \in Height \/ i = latestHeight + 1,
           FetchRound(i), latestHeight' = latestHeight
    PROVE  InChain'
<1>1. CASE i <= latestHeight
  <2>1. i \in Height
    BY <1>1, NextIsInChain
  <2>2. fetcher'.height = i
    BY <1>1 DEF FetchRound
  <2> QED
    BY <2>1, <2>2 DEF InChain
<1>2. CASE ~(i <= latestHeight)
  <2>1. fetcher'.state = "off"
    BY <1>2 DEF FetchRound, FetcherOff
  <2> QED
    BY <2>1 DEF InChain
<1> QED
  BY <1>1, <1>2

\* Heights of the chain stay heights of the chain.
LEMMA InChainStep == IInv /\ InChain /\ [PipelineNext]_allPipeVars => InChain'
<1> SUFFICES ASSUME IInv, InChain, [PipelineNext]_allPipeVars PROVE InChain'
  OBVIOUS
<1>0. /\ latestHeight \in Nat
      /\ fetcher \in [state : {"off", "ready", "waiting"}, height : Nat]
  BY DEF IInv, ProducersOK
<1>1. CASE StartSession \/ Reboot
  BY <1>1 DEF StartSession, Reboot, InChain, FetcherOff
<1>2. ASSUME NEW h \in Height, StatusReply(h) PROVE InChain'
  BY <1>2 DEF StatusReply, InChain
<1>3. ASSUME NEW h \in Height \cup {latestHeight + 1}, NEW loops \in BOOLEAN,
             Launch(h, loops)
      PROVE  InChain'
  <2>1. FetchRound(h) /\ latestHeight' = latestHeight
    BY <1>3 DEF Launch
  <2>2. h \in Nat /\ (h \in Height \/ h = latestHeight + 1)
    BY <1>0, HeightFacts
  <2> QED
    BY <1>0, <2>1, <2>2, FetchRoundInChain
<1>4. ASSUME NEW h \in Announced, NewBlockReceived(h) PROVE InChain'
  <2>1. h \in Height
    BY DEF Announced
  <2> QED
    BY <1>4, <2>1 DEF NewBlockReceived, AppendAtTip, QueueFull, NoteHeight, InChain
<1>5. CASE FetcherContinues
  <2>1. FetchRound(fetcher.height + 1) /\ latestHeight' = latestHeight
    BY <1>5 DEF FetcherContinues
  <2>2. fetcher.height + 1 \in Nat /\ (fetcher.height + 1) - 1 \in Height
    <3>1. fetcher.height \in Height /\ fetcher.height \in Nat
      BY <1>0, <1>5 DEF FetcherContinues, InChain
    <3>2. (fetcher.height + 1) - 1 = fetcher.height
      BY <3>1
    <3> QED
      BY <3>1, <3>2
  <2> QED
    BY <1>0, <2>1, <2>2, FetchRoundInChain
<1>6. CASE FetcherGivesUp
  BY <1>6 DEF FetcherGivesUp, FetcherOff, InChain
<1>7. CASE Take
  <2>1. latestHeight' = latestHeight /\ fetcher' = Woken
    BY <1>7 DEF Take
  <2>2. fetcher'.height = fetcher.height /\ (fetcher.state = "off" => fetcher'.state = "off")
    BY <1>0, <2>1 DEF Woken
  <2> QED
    BY <2>1, <2>2 DEF InChain
<1>8. CASE Deliver \/ Abandon \/ Quit \/ NoticeTrouble
  BY <1>8 DEF Deliver, Abandon, Quit, NoticeTrouble, InChain
<1>9. CASE UNCHANGED allPipeVars
  BY <1>9 DEF allPipeVars, pipeVars, InChain
<1> QED
  BY <1>1, <1>2, <1>3, <1>4, <1>5, <1>6, <1>7, <1>8, <1>9 DEF PipelineNext

\* An enqueue into a ring with a free slot is a put into a channel with room: the
\* promise the loop may hold is the only one that left the ring undelivered.
LEMMA EnqueueIsPut ==
    ASSUME RingOK, count < BatchSize, NEW h \in Height, Enqueue(h), delivered' = delivered
    PROVE  Fifo!Put(h)
<1>1. /\ Len(delivered) \in Nat /\ Len(resolved) \in Nat /\ count \in Nat
      /\ count = Len(resolved) + 1 - Dequeued
  BY DEF RingOK, HoldsUndelivered
<1>2. Dequeued <= Len(delivered) + 1 /\ Dequeued \in Nat
  BY <1>1 DEF Dequeued
<1>3. Len(resolved) - Len(delivered) < BatchSize
  BY <1>1, <1>2
<1> QED
  BY <1>3 DEF Enqueue, Fifo!Put

\* So a round of the fetcher puts a height or leaves the channel alone.
LEMMA FetchRoundIsPut ==
    ASSUME RingOK, count < BatchSize, InChain, latestHeight \in Nat, NEW i \in Nat,
           i \in Height \/ i - 1 \in Height \/ i = latestHeight + 1,
           FetchRound(i), delivered' = delivered
    PROVE  [Fifo!FifoNext]_<<resolved, delivered>>
<1>1. CASE i <= latestHeight
  <2>1. i \in Height /\ Enqueue(i)
    BY <1>1, NextIsInChain DEF FetchRound
  <2>2. Fifo!Put(i)
    BY <2>1, EnqueueIsPut
  <2> QED
    BY <2>1, <2>2 DEF Fifo!FifoNext
<1>2. CASE ~(i <= latestHeight)
  BY <1>2 DEF FetchRound, SetSynced
<1> QED
  BY <1>1, <1>2

\* Every step of the queue is a step of the channel, or leaves it alone.
LEMMA StepIsFifoStep ==
    IInv /\ InChain /\ [PipelineNext]_allPipeVars => [Fifo!FifoNext]_<<resolved, delivered>>
<1> SUFFICES ASSUME IInv, InChain, [PipelineNext]_allPipeVars
             PROVE  [Fifo!FifoNext]_<<resolved, delivered>>
  OBVIOUS
<1>0. RingOK /\ latestHeight \in Nat
      /\ fetcher \in [state : {"off", "ready", "waiting"}, height : Nat]
  BY DEF IInv, ProducersOK
<1>1. CASE StartSession \/ Reboot
  <2>1. Fifo!Reset
    BY <1>1 DEF StartSession, Reboot, Clear, Fifo!Reset
  <2> QED
    BY <2>1 DEF Fifo!FifoNext
<1>2. CASE (\E h \in Height : StatusReply(h)) \/ FetcherGivesUp \/ Abandon \/ Quit \/ NoticeTrouble
  BY <1>2 DEF StatusReply, FetcherGivesUp, Abandon, Quit, NoticeTrouble, ringVars
<1>3. ASSUME NEW h \in Height \cup {latestHeight + 1}, NEW loops \in BOOLEAN,
             Launch(h, loops)
      PROVE  [Fifo!FifoNext]_<<resolved, delivered>>
  <2>1. session = "starting" /\ FetchRound(h) /\ delivered' = delivered
    BY <1>3 DEF Launch
  <2>2. count < BatchSize
    BY <2>1 DEF IInv, ProducersOK
  <2>3. h \in Nat /\ (h \in Height \/ h = latestHeight + 1)
    BY <1>0, HeightFacts
  <2> QED
    BY <1>0, <2>1, <2>2, <2>3, FetchRoundIsPut
<1>4. ASSUME NEW h \in Announced, AppendAtTip(h)
      PROVE  [Fifo!FifoNext]_<<resolved, delivered>>
  <2>1. synced /\ Enqueue(h) /\ delivered' = delivered
    BY <1>4 DEF AppendAtTip
  <2>2. count < BatchSize /\ h \in Height
    BY <2>1 DEF IInv, ProducersOK, Announced
  <2>3. Fifo!Put(h)
    BY <1>0, <2>1, <2>2, EnqueueIsPut
  <2> QED
    BY <2>2, <2>3 DEF Fifo!FifoNext
<1>5. ASSUME NEW h \in Announced, QueueFull(h) \/ NoteHeight(h)
      PROVE  [Fifo!FifoNext]_<<resolved, delivered>>
  BY <1>5 DEF QueueFull, NoteHeight, ringVars
<1>6. CASE FetcherContinues
  <2>1. /\ fetcher.state = "ready" /\ FetchRound(fetcher.height + 1)
        /\ delivered' = delivered
    BY <1>6 DEF FetcherContinues
  <2>2. count < BatchSize
    BY <2>1 DEF IInv, ProducersOK
  <2>3. fetcher.height + 1 \in Nat /\ (fetcher.height + 1) - 1 \in Height
    <3>1. fetcher.height \in Height /\ fetcher.height \in Nat
      BY <1>0, <2>1 DEF InChain
    <3>2. (fetcher.height + 1) - 1 = fetcher.height
      BY <3>1
    <3> QED
      BY <3>1, <3>2
  <2> QED
    BY <1>0, <2>1, <2>2, <2>3, FetchRoundIsPut
<1>7. CASE Take
  BY <1>7 DEF Take, Dequeue
<1>8. CASE Deliver
  <2>1. /\ taken = Len(delivered) /\ taken < Len(resolved)
        /\ delivered' = Append(delivered, resolved[taken + 1]) /\ resolved' = resolved
    BY <1>0, <1>8 DEF Deliver, RingOK, ringVars
  <2>2. Fifo!Get
    BY <2>1 DEF Fifo!Get
  <2> QED
    BY <2>2 DEF Fifo!FifoNext
<1>9. CASE UNCHANGED allPipeVars
  BY <1>9 DEF allPipeVars, pipeVars, ringVars
<1> QED
  BY <1>1, <1>2, <1>3, <1>4, <1>5, <1>6, <1>7, <1>8, <1>9 DEF PipelineNext, NewBlockReceived

\* For every batch size, the ring, its two producers and the loop implement a
\* first-in first-out channel that holds at most BatchSize heights.
THEOREM QueueIsFifo == PipelineSafety => ImplementsFifo
<1>1. PipelineInit => Fifo!FifoInit
  BY DEF PipelineInit, BufferInit, Fifo!FifoInit
<1>2. PipelineInit => InChain
  BY DEF PipelineInit, InChain, FetcherOff
<1>3. IInv /\ InChain /\ [PipelineNext]_allPipeVars => InChain'
  BY InChainStep
<1>4. IInv /\ InChain /\ [PipelineNext]_allPipeVars => [Fifo!FifoNext]_<<resolved, delivered>>
  BY StepIsFifoStep
<1>5. PipelineSafety => []InChain
  BY <1>2, <1>3, Invariance, PTL DEF PipelineSafety
<1>6. ImplementsFifo <=> Fifo!FifoInit /\ [][Fifo!FifoNext]_<<resolved, delivered>>
  BY DEF ImplementsFifo, Fifo!FifoSpec, Fifo!fifoVars
<1> QED
  BY <1>1, <1>4, <1>5, <1>6, Invariance, PTL DEF PipelineSafety
=============================================================================

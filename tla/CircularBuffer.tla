--------------------------- MODULE CircularBuffer ---------------------------
(***************************************************************************)
(* CircularBuffer<T> of indexer-engine/src/promise-queue: a ring of        *)
(* promises through which block fetches reach the processing loop.  The    *)
(* buffer always holds one placeholder promise that nobody has settled     *)
(* yet: enqueue settles it with the new item and puts the next placeholder *)
(* behind it, dequeue hands out the oldest promise, which may be that      *)
(* placeholder.                                                            *)
(*                                                                         *)
(* Promises are numbered in order of creation since the last clear(); the  *)
(* items they were settled with are the sequence `resolved', so that       *)
(* promise p is settled with resolved[p + 1] and the placeholder is the    *)
(* promise numbered Len(resolved).                                         *)
(***************************************************************************)
EXTENDS Integers, Sequences

CONSTANT BatchSize    \* length of the ring, the configured batchSize

\* The constructor throws on a batch size of 1 or less.
ASSUME BatchSizeAssumption == BatchSize \in Nat /\ BatchSize > 1

VARIABLES
    items,          \* the ring: slot |-> number of the promise in it
    count,          \* promises in the ring, the placeholder included
    next,           \* slot of the oldest promise
    nextAvail,      \* slot that receives the next placeholder
    resolved,       \* what the promises created so far were settled with
    continueOpen,   \* the current continuePromise is settled
    synced          \* the flag setSynced() raises

ringVars == <<items, count, next, nextAvail, resolved, continueOpen, synced>>

Slots     == 0 .. BatchSize - 1
NoPromise == -1

\* The promise that this.enqueuer settles.
Placeholder == Len(resolved)

Advance(slot) == IF slot + 1 >= BatchSize THEN 0 ELSE slot + 1

-----------------------------------------------------------------------------
\* The ring as the constructor and clear() leave it: placeholder 0 in slot 0.
FreshItems == [s \in Slots |-> IF s = 0 THEN 0 ELSE NoPromise]

BufferInit ==
    /\ items = FreshItems
    /\ count = 1
    /\ next = 0
    /\ nextAvail = Advance(0)
    /\ resolved = <<>>
    /\ continueOpen = TRUE
    /\ synced = FALSE

\* Mutant: clear() that does not reset nextAvail.
Clear_KeepsNextAvail ==
    /\ items' = FreshItems
    /\ count' = 1 /\ next' = 0
    /\ resolved' = <<>>
    /\ continueOpen' = TRUE /\ synced' = FALSE
    /\ UNCHANGED nextAvail

\* Mutant: clear() that counts the placeholder out.
Clear_Empty ==
    /\ items' = FreshItems
    /\ count' = 0 /\ next' = 0 /\ nextAvail' = Advance(0)
    /\ resolved' = <<>>
    /\ continueOpen' = TRUE /\ synced' = FALSE

Clear ==
    /\ items' = FreshItems
    /\ count' = 1
    /\ next' = 0
    /\ nextAvail' = Advance(0)
    /\ resolved' = <<>>
    /\ continueOpen' = TRUE
    /\ synced' = FALSE

\* enqueue(): there is no test for a full ring, only a closed continuePromise
\* for the producer that chooses to wait for it.
Enqueue(item) ==
    /\ resolved' = Append(resolved, item)
    /\ items' = [items EXCEPT ![nextAvail] = Len(resolved) + 1]
    /\ count' = count + 1
    /\ nextAvail' = Advance(nextAvail)
    /\ continueOpen' = (continueOpen /\ Advance(nextAvail) # next)
    /\ UNCHANGED <<next, synced>>

\* Mutant: dequeue() that settles the continuePromise only of a longer ring.
Dequeue_NoSignal ==
    /\ next' = Advance(next)
    /\ count' = count - 1
    /\ UNCHANGED <<items, nextAvail, resolved, continueOpen, synced>>

\* Mutant: dequeue() that counts the promise it leaves in the ring as well.
Dequeue_Twice ==
    /\ next' = Advance(next)
    /\ count' = count - 2
    /\ continueOpen' = (continueOpen \/ count - 2 <= BatchSize)
    /\ UNCHANGED <<items, nextAvail, resolved, synced>>

\* dequeue(): the caller gets the promise items[next].
Dequeue ==
    /\ next' = Advance(next)
    /\ count' = count - 1
    /\ continueOpen' = (continueOpen \/ count - 1 <= BatchSize)
    /\ UNCHANGED <<items, nextAvail, resolved, synced>>

SetSynced ==
    /\ synced' = TRUE
    /\ UNCHANGED <<items, count, next, nextAvail, resolved, continueOpen>>
=============================================================================

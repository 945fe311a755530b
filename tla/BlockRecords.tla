----------------------------- MODULE BlockRecords -----------------------------
(***************************************************************************)
(* The blocks modules (core-modules/src/blocks): their schema, the rows of *)
(* blocks and transactions, and the average block times of the last minute,*)
(* hour and day.                                                           *)
(*                                                                         *)
(* `chain' holds the blocks made so far.  Each listener is one action; what*)
(* it writes belongs to the transaction of the block.  The column of the   *)
(* block's time has no time zone: a time is stored as the clock of the     *)
(* indexer shows it, and read back as the first moment it shows so.  A     *)
(* listener that runs on after a failure has only queries to send and is   *)
(* done when start() comes back; its rows find no block to refer to.       *)
(***************************************************************************)
EXTENDS Integers, Sequences, FiniteSets, FiniteSetsExt

CONSTANTS
    Tx,            \* transactions, as raw bytes
    Unstorable,    \* of them, those saveTransaction() throws on
    Contents,      \* sequences of [raw, ok]: the transactions a block may have
    Proposer,
    Known,         \* of them, those in the validators table
    Window,        \* minute, hour, day -> their length
    Interval,      \* PERIODIC_INTERVALS.MEDIUM
    Steps,         \* times from a block to the next
    ClockSetBack,  \* the time at which the clock of the indexer is set back
    SetBackBy,     \* and by how much
    LastBlock,     \* bound: the chain has the blocks 1 .. LastBlock
    MaxContents,   \* bound on the blocks with transactions
    MaxFaults      \* bound on failures of handlers and on crashes

ASSUME RecordsAssumption ==
    /\ Unstorable \subseteq Tx /\ Known \subseteq Proposer
    /\ Contents \subseteq Seq([raw : Tx, ok : BOOLEAN])
    /\ Steps \subseteq Nat \ {0} /\ \A w \in DOMAIN Window : Window[w] \in Nat \ {0}
    /\ Interval \in Nat \ {0} /\ LastBlock \in Nat \ {0}
    /\ ClockSetBack \in Nat /\ SetBackBy \in Nat
    /\ MaxContents \in Nat /\ MaxFaults \in Nat

VARIABLES
    module,   \* the blocks module that runs: "full" or "minimal"
    schema,   \* whose tables the database has: "full", "minimal", "none"
    chain,    \* blocks made so far: [time, txs, proposer]
    saved,    \* the tables, committed
    work,     \* the tables as the open transaction sees them
    pc,       \* "setup", "idle", "periodic", "commit" or "rollback"
    height,   \* block in work, or to be taken next
    faults

vars == <<module, schema, chain, saved, work, pc, height, faults>>

Time(h) == IF h = 0 THEN 0 ELSE chain[h].time

\* What the clock shows at t, and what a Date makes of it.
Shown(t)  == IF t < ClockSetBack THEN t ELSE t - SetBackBy
Parsed(l) == IF l < ClockSetBack THEN l ELSE l + SetBackBy

Init ==
    /\ module \in {"full", "minimal"} /\ schema \in {"full", "minimal", "none"}
    /\ chain = <<>>
    /\ saved = [blocks |-> {}, txs |-> {}, averages |-> [w \in DOMAIN Window |-> {}]]
    /\ work = saved
    /\ pc = "setup" /\ height = 1
    /\ faults = 0

Fault == faults < MaxFaults /\ faults' = faults + 1

\* setup(): tables that are there are taken as they are.
Setup ==
    /\ pc = "setup"
    /\ schema' = IF schema = "none" THEN module ELSE schema
    /\ pc' = "idle"
    /\ UNCHANGED <<module, chain, saved, work, height, faults>>

WithTxs == Cardinality({h \in DOMAIN chain : chain[h].txs # <<>>})

\* A block that was not seen before is made now.
BlockOnChain ==
    IF height \in DOMAIN chain THEN UNCHANGED chain
    ELSE \E step \in Steps, p \in Proposer, c \in Contents \cup {<<>>} :
            /\ c # <<>> => WithTxs < MaxContents
            /\ chain' = Append(chain, [time |-> Time(height - 1) + step, txs |-> c, proposer |-> p])

-----------------------------------------------------------------------------
(***************************************************************************)
(* The listener of "block".                                                *)
(***************************************************************************)
FullRow(b) ==
    [height |-> height, shown |-> Shown(b.time), num_txs |-> Len(b.txs), proposer |-> b.proposer]

MinimalRow(b) == [height |-> height, shown |-> Shown(b.time)]

TxRow(tx) == [hash |-> tx.raw, height |-> height, success |-> tx.ok]

(***************************************************************************)
(* What the tables demand of the queries: the columns are those of the     *)
(* module, and the height, with which a block's hash goes, is the primary  *)
(* key.  For the full module the proposer is one of the validators (the    *)
(* staking module adds that constraint), and a transaction is stored once  *)
(* in its block.  An error comes too of a transaction or a message that    *)
(* cannot be decoded and of a NUL in a memo or in JSON.                    *)
(***************************************************************************)
PrimaryKey == \A row \in work.blocks : row.height # height

UniqueTx(b) ==
    /\ \A i, j \in DOMAIN b.txs : b.txs[i].raw = b.txs[j].raw => i = j
    /\ \A i \in DOMAIN b.txs : \A row \in work.txs :
          ~(row.hash = b.txs[i].raw /\ row.height = height)

Storable(b) ==
    /\ schema = "full" /\ PrimaryKey
    /\ b.proposer \in Known
    /\ \A i \in DOMAIN b.txs : b.txs[i].raw \notin Unstorable
    /\ UniqueTx(b)

\* Mutant: transactions that failed are left out.
TxRows_Successful(b) == {TxRow(b.txs[i]) : i \in {j \in DOMAIN b.txs : b.txs[j].ok}}

TxRows(b) == {TxRow(b.txs[i]) : i \in DOMAIN b.txs}

Refused == pc' = "rollback" /\ UNCHANGED work

SaveFullBlock ==
    /\ module = "full"
    /\ LET b == chain'[height] IN
         IF Storable(b)
         THEN /\ work' = [work EXCEPT !.blocks = @ \cup {FullRow(b)}, !.txs = @ \cup TxRows(b)]
              /\ pc' = IF height % Interval = 0 THEN "periodic" ELSE "commit"
         ELSE Refused

\* The row of the minimal module lacks columns the full table demands.
SaveMinimalBlock ==
    /\ module = "minimal"
    /\ IF schema = "minimal" /\ PrimaryKey
       THEN /\ work' = [work EXCEPT !.blocks = @ \cup {MinimalRow(chain'[height])}]
            /\ pc' = "commit"
       ELSE Refused

SaveBlock ==
    /\ pc = "idle" /\ height <= LastBlock
    /\ BlockOnChain
    /\ SaveFullBlock \/ SaveMinimalBlock
    /\ UNCHANGED <<module, schema, saved, height, faults>>

-----------------------------------------------------------------------------
(***************************************************************************)
(* The listener of "periodic/100".                                         *)
(***************************************************************************)
\* Mutant: the first block after that time.
BlockAt_After(t) ==
    LET rows == {row \in work.blocks : row.shown >= Shown(t)}
    IN  {row \in rows : \A other \in rows : row.shown <= other.shown}

\* getBlockHeightTime(): the last row up to that time; any of them if the clock
\* showed it twice.
BlockAt(t) ==
    LET rows == {row \in work.blocks : row.shown <= Shown(t)}
    IN  {row \in rows : \A other \in rows : other.shown <= row.shown}

\* An average as the blocks and the time it is the ratio of.
Since(row) ==
    [blocks |-> height - row.height, time |-> Time(height) - Parsed(row.shown), height |-> height]

\* A table of averages has one row at most, which no earlier block replaces.
Upserted(rows, new) ==
    IF \A row \in rows : row.height <= new.height THEN {new} ELSE rows

\* What the table of a window may be afterwards.
Updated(w) ==
    LET ago == BlockAt(Time(height) - Window[w])
    IN  IF ago = {} THEN {work.averages[w]}
        ELSE {Upserted(work.averages[w], Since(row)) : row \in ago}

SaveAverages ==
    /\ pc = "periodic"
    /\ \E averages \in [DOMAIN Window -> UNION {Updated(w) : w \in DOMAIN Window}] :
          /\ \A w \in DOMAIN Window : averages[w] \in Updated(w)
          /\ work' = [work EXCEPT !.averages = averages]
    /\ pc' = "commit"
    /\ UNCHANGED <<module, schema, chain, saved, height, faults>>

-----------------------------------------------------------------------------
CommitBlock ==
    /\ pc = "commit"
    /\ saved' = work
    /\ height' = height + 1
    /\ pc' = "idle"
    /\ UNCHANGED <<module, schema, chain, work, faults>>

\* The connection is lost while the server commits.
CommitLost ==
    /\ pc = "commit" /\ Fault
    /\ saved' \in {saved, work}
    /\ work' = saved'
    /\ pc' = "rollback"
    /\ UNCHANGED <<module, schema, chain, height>>

\* getNextHeight(), which start() asks for each time it comes back.
NextHeight == Max({row.height : row \in saved.blocks} \cup {0}) + 1

HandlerFails ==
    /\ pc \in {"periodic", "commit"}
    /\ Fault
    /\ pc' = "rollback"
    /\ UNCHANGED <<module, schema, chain, saved, work, height>>

\* Mutant: the loop goes on with the block it failed with.
RollBack_SameHeight ==
    /\ pc = "rollback"
    /\ work' = saved /\ pc' = "idle"
    /\ UNCHANGED <<module, schema, chain, saved, height, faults>>

RollBack ==
    /\ pc = "rollback"
    /\ work' = saved /\ height' = NextHeight /\ pc' = "idle"
    /\ UNCHANGED <<module, schema, chain, saved, faults>>

\* The process ends, in setup() also with the transaction that makes the tables, and
\* may be configured anew.
Crash ==
    /\ Fault
    /\ module' \in {"full", "minimal"}
    /\ work' = saved /\ height' = NextHeight /\ pc' = "setup"
    /\ UNCHANGED <<schema, chain, saved>>

Next ==
    \/ Setup \/ SaveBlock \/ SaveAverages \/ CommitBlock \/ CommitLost
    \/ HandlerFails \/ RollBack \/ Crash

Spec == Init /\ [][Next]_vars

-----------------------------------------------------------------------------
(***************************************************************************)
(* Properties                                                              *)
(***************************************************************************)
Committed == {row.height : row \in saved.blocks}

\* The tables have the blocks of the chain from the first one on, each once and each
\* with exactly its transactions and their outcome, whatever was rolled back.
RecordsMatchChain ==
    /\ Committed = 1 .. NextHeight - 1
    /\ Cardinality(saved.blocks) = NextHeight - 1
    /\ schema = "full" =>
          /\ \A row \in saved.blocks :
                row.num_txs = Cardinality({tx \in saved.txs : tx.height = row.height})
          /\ saved.txs = UNION {{[hash |-> chain[h].txs[i].raw, height |-> h, success |-> chain[h].txs[i].ok] :
                                   i \in DOMAIN chain[h].txs} : h \in Committed}

\* The last block that is at least as old as the window, at block h; 0 if none.
Ago(w, h) == Max({0} \cup {k \in 1 .. h : chain[k].time <= chain[h].time - Window[w]})

\* While the clock is not set back, an average is the one over the blocks since the
\* last block older than its window, as it was at the last block that is a multiple
\* of the interval and has one.
AveragesMatchChain ==
    LET periodic(w) == {h \in Committed : h % Interval = 0 /\ Ago(w, h) > 0}
        average(w, h) ==
            [blocks |-> h - Ago(w, h), time |-> chain[h].time - chain[Ago(w, h)].time, height |-> h]
    IN  schema = "full" /\ Time(NextHeight - 1) < ClockSetBack =>
           \A w \in DOMAIN Window :
              saved.averages[w] = IF periodic(w) = {} THEN {} ELSE {average(w, Max(periodic(w)))}

\* A block that could never be stored, for what it has in it or since the tables are
\* those of the other module.
Doomed(b) ==
    \/ schema # module
    \/ /\ module = "full"
       /\ \/ b.proposer \notin Known
          \/ \E i \in DOMAIN b.txs : b.txs[i].raw \in Unstorable
          \/ \E i, j \in DOMAIN b.txs : i # j /\ b.txs[i].raw = b.txs[j].raw

\* The listener refuses only such a block, and never for the rows it finds: neither a
\* commit whose answer was lost, nor an attempt that was rolled back, nor a restart
\* leads it to a block that is there, and a transaction of an earlier block may come
\* again.
OnlyDoomedBlocksRefused ==
    [][SaveBlock /\ pc' = "rollback" => Doomed(chain'[height])]_vars
=============================================================================

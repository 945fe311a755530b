------------------------- MODULE BlockTransactionMC -------------------------
(***************************************************************************)
(* Instances of BlockTransaction for TLC: who listens to the events of a   *)
(* block.  The blocks module and the bank and staking modules stand for    *)
(* the listeners that insert the block row, that query only the database,  *)
(* and that query the node first.                                          *)
(***************************************************************************)
EXTENDS BlockTransaction

CONSTANTS blocks, bank, auth, staking

\* "block", a message nobody handles, one that two modules handle with the database
\* alone, begin_block: the listener that waits for the node is the only one.
OwnEvent == <<{blocks}, {}, {auth, bank}, {staking}>>

\* "block", end_block with two listeners, a periodic event.
Shared == <<{blocks}, {bank, staking}, {bank}>>
=============================================================================

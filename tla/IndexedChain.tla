---------------------------- MODULE IndexedChain ----------------------------
(***************************************************************************)
(* What the indexer promises of the `blocks' table, whatever fails: blocks *)
(* are added one by one, each the successor of the highest one, starting   *)
(* with startHeight, and none is ever removed.                             *)
(***************************************************************************)
EXTENDS Integers

CONSTANTS Height, StartHeight

VARIABLE indexed

ChainInit == indexed = {}

Index(h) ==
    /\ IF indexed = {} THEN h = StartHeight
       ELSE h - 1 \in indexed /\ \A k \in indexed : k < h
    /\ indexed' = indexed \cup {h}

ChainNext == \E h \in Height : Index(h)

ChainSpec == ChainInit /\ [][ChainNext]_indexed
=============================================================================

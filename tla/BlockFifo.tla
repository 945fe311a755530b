------------------------------ MODULE BlockFifo ------------------------------
(***************************************************************************)
(* What the processing loop may rely on: between two resets the queue is a *)
(* bounded first-in first-out channel of block heights, given by the       *)
(* history of what was put in and of what was got out.                     *)
(***************************************************************************)
EXTENDS Integers, Sequences

CONSTANTS Height, Capacity

VARIABLES put, got

fifoVars == <<put, got>>

FifoInit == put = <<>> /\ got = <<>>

Put(h) ==
    /\ Len(put) - Len(got) < Capacity
    /\ put' = Append(put, h)
    /\ UNCHANGED got

Get ==
    /\ Len(got) < Len(put)
    /\ got' = Append(got, put[Len(got) + 1])
    /\ UNCHANGED put

Reset == put' = <<>> /\ got' = <<>>

FifoNext == Get \/ Reset \/ \E h \in Height : Put(h)

FifoSpec == FifoInit /\ [][FifoNext]_fifoVars
=============================================================================

---------------------------- MODULE BlockRecordsMC ----------------------------
(***************************************************************************)
(* An instance of BlockRecords for TLC: a payment that fails in one block  *)
(* and succeeds in another, a block with a transaction twice, one that     *)
(* cannot be stored; windows of two, four and six units of time, and an   *)
(* hour's change of the clock that only chains with slow blocks reach.     *)
(***************************************************************************)
EXTENDS BlockRecords, TLC

CONSTANTS pay, vote, garbage, minute, hour, day

Succeeds(tx) == [raw |-> tx, ok |-> TRUE]
Fails(tx)    == [raw |-> tx, ok |-> FALSE]

SomeContents ==
    {<<Succeeds(pay)>>, <<Fails(pay), Succeeds(vote)>>, <<Succeeds(pay), Fails(pay)>>,
     <<Fails(garbage)>>}

Windows == minute :> 2 @@ hour :> 4 @@ day :> 6
=============================================================================

------------------------------ MODULE EventCalls ------------------------------
(***************************************************************************)
(* What whoever awaits asyncEmit() may rely on: a call names its listeners,*)
(* is resolved when each of them has done its part, and rejected as soon   *)
(* as one of them fails.                                                   *)
(***************************************************************************)
EXTENDS Integers, Sequences

CONSTANTS Event, Listens    \* Listens[e]: the listeners of e

VARIABLE calls              \* the listeners a call waits for, and its outcome

WaitsFor(left) ==
    [left |-> left, outcome |-> IF left = {} THEN "resolved" ELSE "pending"]

CallsInit == calls = <<>>

Call(e) == calls' = Append(calls, WaitsFor(Listens[e]))

Done(i, l) ==
    /\ l \in calls[i].left
    /\ calls' = [calls EXCEPT ![i] = WaitsFor(calls[i].left \ {l})]

Fail(i, l) ==
    /\ l \in calls[i].left
    /\ calls' = [calls EXCEPT ![i] = [left |-> {}, outcome |-> "rejected"]]

CallsNext ==
    \/ \E e \in Event : Call(e)
    \/ \E i \in DOMAIN calls : \E l \in calls[i].left : Done(i, l) \/ Fail(i, l)

CallsSpec == CallsInit /\ [][CallsNext]_calls
=============================================================================

------------------------------- MODULE EventBus -------------------------------
(***************************************************************************)
(* The event bus: EclesiaEmitter (indexer-engine/src/emitter) and          *)
(* asyncEmit() of the indexer, by which the loop waits for the listeners   *)
(* of an event, and a listener for those of an event of its own.           *)
(*                                                                         *)
(* Every asyncEmit() puts a function on `uuid' that counts the answers to  *)
(* it; the answers of all listeners go through that one event.  An event   *)
(* nobody listens to is answered by the listener of `_unhandled'.  The loop*)
(* starts a block over when an event is rejected, and does not wait for    *)
(* the other listeners of that event.                                      *)
(***************************************************************************)
EXTENDS Integers, Sequences, FiniteSets

CONSTANTS
    Event, Listener,
    Listens,      \* event -> the listeners on() registered in init()
    Nested,       \* listeners that emit an event themselves -> that event
    Script,       \* the events of a block, in their order
    MaxFailures   \* bound on listeners that throw

ASSUME BusAssumption ==
    /\ Listens \in [Event -> SUBSET Listener]
    /\ \A e \in Event : IsFiniteSet(Listens[e])
    /\ DOMAIN Nested \subseteq Listener
    /\ \A l \in DOMAIN Nested :
          Nested[l] \in Event /\ Listens[Nested[l]] \cap DOMAIN Nested = {}
    /\ Script \in Seq(Event) /\ MaxFailures \in Nat

VARIABLES
    handled,       \* what the map of that name has for `uuid'; 0 if nothing
    returnFuncs,   \* the emissions whose function the emitter has for `uuid'
    emissions,     \* what was emitted, with the answers counted and the promise
    tasks,         \* listeners at work: [emission, listener, waits]
    step,          \* the event of the block that the loop emits next or awaits
    awaits,        \* the emission the loop awaits; 0 if none
    failures

busVars == <<handled, returnFuncs, emissions>>
vars == <<busVars, tasks, step, awaits, failures>>

Init ==
    /\ handled = 0 /\ returnFuncs = {} /\ emissions = <<>>
    /\ tasks = {}
    /\ step = 1 /\ awaits = 0
    /\ failures = 0

-----------------------------------------------------------------------------
(***************************************************************************)
(* The bus as a value, [handled, returnFuncs, emissions], and what on(),   *)
(* off(), the function of an emission and asyncEmit() make of it.          *)
(***************************************************************************)
Bus == [handled |-> handled, returnFuncs |-> returnFuncs, emissions |-> emissions]

Becomes(bus) ==
    /\ handled' = bus.handled
    /\ returnFuncs' = bus.returnFuncs
    /\ emissions' = bus.emissions

On(bus, i) == [bus EXCEPT !.handled = @ + 1, !.returnFuncs = @ \cup {i}]

\* Mutant: the entry of the map goes with the first function.
Off_Delete(bus, i) == [bus EXCEPT !.handled = 0, !.returnFuncs = @ \ {i}]

Off(bus, i) ==
    [bus EXCEPT !.handled = IF @ > 1 THEN @ - 1 ELSE 0, !.returnFuncs = @ \ {i}]

\* A promise is settled once.
Settle(bus, i, outcome) ==
    [bus EXCEPT !.emissions[i].promise = IF @ = "pending" THEN outcome ELSE @]

\* Mutant: a rejected emission takes its function off.
Rejected_Off(bus, i) == Settle(Off(bus, i), i, "rejected")

Rejected(bus, i) == Settle(bus, i, "rejected")

\* Mutant: one answer is enough.
Counted_Once(bus, i) == Settle(Off([bus EXCEPT !.emissions[i].responded = @ + 1], i), i, "resolved")

Counted(bus, i) ==
    LET counted == [bus EXCEPT !.emissions[i].responded = @ + 1]
        e       == counted.emissions[i]
    IN  IF e.responded = e.count THEN Settle(Off(counted, i), i, "resolved") ELSE counted

\* emit("uuid"): the function of the emission looks at the answer, if it is there
\* and the map has an entry.  Without an entry the answer goes to `_unhandled',
\* which answers it by emit("uuid"), and so on until the stack is exhausted.
Reply(bus, i, status) ==
    IF bus.handled = 0 \/ i \notin bus.returnFuncs THEN bus
    ELSE IF status THEN Counted(bus, i) ELSE Rejected(bus, i)

Emission(type) ==
    [type      |-> type,
     count     |-> IF Listens[type] = {} THEN 1 ELSE Cardinality(Listens[type]),
     responded |-> 0,
     promise   |-> "pending"]

NextEmission == Len(emissions) + 1

Emitted(type) == [Bus EXCEPT !.emissions = Append(@, Emission(type))]

\* Mutant: the answers are listened to after the event was emitted.
Dispatched_Late(type) ==
    IF Listens[type] = {} THEN On(Reply(Emitted(type), NextEmission, TRUE), NextEmission)
    ELSE On(Emitted(type), NextEmission)

\* asyncEmit() up to its return: `_unhandled' answers before that.
Dispatched(type) ==
    LET bus == On(Emitted(type), NextEmission)
    IN  IF Listens[type] = {} THEN Reply(bus, NextEmission, TRUE) ELSE bus

Task(i, l) == [emission |-> i, listener |-> l, waits |-> 0]
Started(type) == {Task(NextEmission, l) : l \in Listens[type]}

-----------------------------------------------------------------------------
(***************************************************************************)
(* The loop: the events of the block one by one.                           *)
(***************************************************************************)
Ids == DOMAIN emissions
Outcome(i) == emissions[i].promise
Resolved == {i \in Ids : Outcome(i) = "resolved"}

LoopEmits ==
    /\ awaits = 0 /\ step <= Len(Script)
    /\ Becomes(Dispatched(Script[step]))
    /\ tasks' = tasks \cup Started(Script[step])
    /\ awaits' = NextEmission
    /\ UNCHANGED <<step, failures>>

LoopGoesOn ==
    /\ awaits # 0 /\ Outcome(awaits) = "resolved"
    /\ step' = step + 1 /\ awaits' = 0
    /\ UNCHANGED <<busVars, tasks, failures>>

LoopStartsOver ==
    /\ awaits # 0 /\ Outcome(awaits) = "rejected"
    /\ step' = 1 /\ awaits' = 0
    /\ UNCHANGED <<busVars, tasks, failures>>

-----------------------------------------------------------------------------
(***************************************************************************)
(* The wrapper that on() puts around a listener.                           *)
(***************************************************************************)
Answers(t, status) ==
    /\ tasks' = tasks \ {t}
    /\ Becomes(Reply(Bus, t.emission, status))
    /\ UNCHANGED <<step, awaits>>

\* The auth module stores the genesis balances of the module accounts within its
\* listener of the first block, and has the bank module do it.
Nests(t) ==
    /\ t.waits = 0 /\ t.listener \in DOMAIN Nested
    /\ Becomes(Dispatched(Nested[t.listener]))
    /\ tasks' = (tasks \ {t}) \cup {[t EXCEPT !.waits = NextEmission]} \cup Started(Nested[t.listener])
    /\ UNCHANGED <<step, awaits, failures>>

Finishes(t) ==
    /\ t.waits \in {0} \cup Resolved
    /\ Answers(t, TRUE)
    /\ UNCHANGED failures

Throws(t) ==
    /\ t.waits \in {0} \cup Resolved
    /\ failures < MaxFailures /\ failures' = failures + 1
    /\ Answers(t, FALSE)

PassesOn(t) ==
    /\ t.waits # 0 /\ Outcome(t.waits) = "rejected"
    /\ Answers(t, FALSE)
    /\ UNCHANGED failures

LoopStep == LoopEmits \/ LoopGoesOn \/ LoopStartsOver
TaskEnds == \E t \in tasks : Finishes(t) \/ PassesOn(t)

Next == LoopStep \/ TaskEnds \/ \E t \in tasks : Nests(t) \/ Throws(t)

\* The microtask queue runs on, and the database and the node answer every query a
\* listener makes.
Fairness == WF_vars(LoopStep) /\ WF_vars(TaskEnds)

Spec == Init /\ [][Next]_vars /\ Fairness

-----------------------------------------------------------------------------
(***************************************************************************)
(* Properties                                                              *)
(***************************************************************************)
\* A listener at work finds the function that counts its answer, in the emitter and
\* in the map: also one whose event was rejected long ago and who answers while the
\* block is being processed anew.  Otherwise emit() and `_unhandled' would call each
\* other without an end.
AnswerFindsFunction == \A t \in tasks : handled > 0 /\ t.emission \in returnFuncs

\* The count of on() and off() stays that of the functions, and there is one for
\* every emission that was not resolved: a rejected one leaves its own for good.
OneFunctionEach ==
    /\ handled = Cardinality(returnFuncs)
    /\ returnFuncs = Ids \ Resolved

\* Answers are counted, not told apart, yet an emission is resolved by its own
\* listeners, each of them, and by nobody else.
Calls == INSTANCE EventCalls WITH
    calls <- [i \in Ids |->
                [left    |-> IF Outcome(i) = "pending"
                             THEN {t.listener : t \in {u \in tasks : u.emission = i}} ELSE {},
                 outcome |-> Outcome(i)]]

ImplementsCalls == Calls!CallsSpec

\* The block gets through: whoever awaits an emission is told its outcome, a listener
\* that emits within its own event included, whatever earlier attempts left behind.
BlockGetsThrough == <>(step > Len(Script) /\ tasks = {})
=============================================================================

---------------------------- MODULE EventBusProofs ----------------------------
(***************************************************************************)
(* Proofs about the event bus, for every set of events and listeners, any  *)
(* nesting of depth one and any number of failures.                        *)
(*                                                                         *)
(* The inductive invariant is BusOK, which ties the count of the map, the  *)
(* functions and the promises together, and TasksOK and CountOK, which say *)
(* that the answers counted and the listeners still at work add up.        *)
(***************************************************************************)
EXTENDS EventBus, FiniteSetTheorems, TLAPS

EmissionRecord ==
    [type : Event, count : Nat \ {0}, responded : Nat,
     promise : {"pending", "resolved", "rejected"}]

\* The listeners of an emission that did not answer yet.
Working(i) == {t.listener : t \in {u \in tasks : u.emission = i}}

BusOK ==
    /\ emissions \in Seq(EmissionRecord)
    /\ OneFunctionEach

TasksOK ==
    /\ \A t \in tasks :
          /\ t = [emission |-> t.emission, listener |-> t.listener, waits |-> t.waits]
          /\ t.emission \in Ids /\ Outcome(t.emission) # "resolved"
          /\ t.listener \in Listens[emissions[t.emission].type]
          /\ t.waits \in Ids \cup {0}
    /\ \A t, u \in tasks : t.emission = u.emission /\ t.listener = u.listener => t = u

CountOK ==
    \A i \in Ids :
        /\ Outcome(i) = "pending" =>
              emissions[i].responded + Cardinality(Working(i)) = emissions[i].count
        /\ Outcome(i) = "rejected" =>
              emissions[i].responded + Cardinality(Working(i)) < emissions[i].count

LoopOK ==
    /\ step \in 1 .. Len(Script) + 1
    /\ awaits \in Ids \cup {0}
    /\ awaits # 0 => step <= Len(Script)

IInv == BusOK /\ TasksOK /\ CountOK /\ LoopOK

-----------------------------------------------------------------------------
LEMMA ConstantFacts ==
    /\ \A type \in Event : /\ Listens[type] \subseteq Listener
                           /\ IsFiniteSet(Listens[type])
                           /\ Cardinality(Listens[type]) \in Nat
                           /\ Cardinality(Listens[type]) = 0 <=> Listens[type] = {}
    /\ \A l \in DOMAIN Nested : Nested[l] \in Event
    /\ Script \in Seq(Event)
BY BusAssumption, FS_CardinalityType, FS_EmptySet DEF BusAssumption

\* There are finitely many functions for `uuid', and the map has an entry if there
\* is one.
LEMMA FunctionsCounted ==
    ASSUME BusOK
    PROVE  /\ IsFiniteSet(returnFuncs) /\ handled \in Nat
           /\ \A i \in returnFuncs : handled > 0
<1>1. returnFuncs \in SUBSET (1 .. Len(emissions)) /\ Len(emissions) \in Nat
  BY DEF BusOK, OneFunctionEach, Ids
<1>2. IsFiniteSet(1 .. Len(emissions))
  BY <1>1, FS_Interval
<1>3. IsFiniteSet(returnFuncs)
  BY <1>1, <1>2, FS_Subset
<1>4. /\ Cardinality(returnFuncs) \in Nat
      /\ Cardinality(returnFuncs) = 0 <=> returnFuncs = {}
  BY <1>3, FS_CardinalityType, FS_EmptySet
<1>5. handled = Cardinality(returnFuncs)
  BY DEF BusOK, OneFunctionEach
<1> QED
  BY <1>3, <1>4, <1>5

-----------------------------------------------------------------------------
(***************************************************************************)
(* What the operations make of a bus.                                      *)
(***************************************************************************)
BusRecord == [handled : Nat, returnFuncs : SUBSET Nat, emissions : Seq(EmissionRecord)]

\* Another record in the place of one of a sequence.
LEMMA Replaced ==
    ASSUME NEW S, NEW es \in Seq(S), NEW i \in DOMAIN es, NEW r \in S
    PROVE  /\ [es EXCEPT ![i] = r] \in Seq(S)
           /\ Len([es EXCEPT ![i] = r]) = Len(es)
           /\ DOMAIN [es EXCEPT ![i] = r] = DOMAIN es
           /\ [es EXCEPT ![i] = r][i] = r
           /\ \A j \in DOMAIN es \ {i} : [es EXCEPT ![i] = r][j] = es[j]
OBVIOUS

\* A promise is settled unless it was settled before.
LEMMA SettleEffect ==
    ASSUME NEW bus \in BusRecord, NEW i \in DOMAIN bus.emissions,
           NEW outcome \in {"resolved", "rejected"}
    PROVE  LET new == Settle(bus, i, outcome)
               old == bus.emissions[i]
           IN  /\ new \in BusRecord
               /\ new.handled = bus.handled /\ new.returnFuncs = bus.returnFuncs
               /\ Len(new.emissions) = Len(bus.emissions)
               /\ \A j \in DOMAIN bus.emissions \ {i} : new.emissions[j] = bus.emissions[j]
               /\ new.emissions[i] =
                    [old EXCEPT !.promise = IF old.promise = "pending" THEN outcome
                                                                       ELSE old.promise]
<1> DEFINE old == bus.emissions[i]
           r == [old EXCEPT !.promise = IF old.promise = "pending" THEN outcome
                                                                    ELSE old.promise]
<1>1. /\ bus.emissions \in Seq(EmissionRecord) /\ bus.handled \in Nat
      /\ bus.returnFuncs \in SUBSET Nat
  BY DEF BusRecord
<1>2. old \in EmissionRecord
  BY <1>1
<1>3. r \in EmissionRecord
  BY <1>2 DEF EmissionRecord
<1>4. Settle(bus, i, outcome) = [bus EXCEPT !.emissions = [bus.emissions EXCEPT ![i] = r]]
  BY DEF Settle, BusRecord
<1> HIDE DEF r, old
<1>5. [bus.emissions EXCEPT ![i] = r] \in Seq(EmissionRecord)
  BY <1>1, <1>3, Replaced
<1>6. /\ Settle(bus, i, outcome) \in BusRecord
      /\ Settle(bus, i, outcome).handled = bus.handled
      /\ Settle(bus, i, outcome).returnFuncs = bus.returnFuncs
      /\ Settle(bus, i, outcome).emissions = [bus.emissions EXCEPT ![i] = r]
  BY <1>4, <1>5 DEF BusRecord
<1> QED
  BY <1>1, <1>3, <1>6, Replaced DEF r, old

\* An answer is added to the count.
LEMMA AddEffect ==
    ASSUME NEW bus \in BusRecord, NEW i \in DOMAIN bus.emissions
    PROVE  LET new == [bus EXCEPT !.emissions[i].responded = @ + 1]
               old == bus.emissions[i]
           IN  /\ new \in BusRecord
               /\ new.handled = bus.handled /\ new.returnFuncs = bus.returnFuncs
               /\ Len(new.emissions) = Len(bus.emissions)
               /\ \A j \in DOMAIN bus.emissions \ {i} : new.emissions[j] = bus.emissions[j]
               /\ new.emissions[i] = [old EXCEPT !.responded = old.responded + 1]
<1> DEFINE new == [bus EXCEPT !.emissions[i].responded = @ + 1]
           old == bus.emissions[i]
           r == [old EXCEPT !.responded = old.responded + 1]
<1>1. /\ bus.emissions \in Seq(EmissionRecord) /\ bus.handled \in Nat
      /\ bus.returnFuncs \in SUBSET Nat
  BY DEF BusRecord
<1>2. old \in EmissionRecord
  BY <1>1
<1>3. r \in EmissionRecord
  BY <1>2 DEF EmissionRecord
<1>4. new = [bus EXCEPT !.emissions = [bus.emissions EXCEPT ![i] = r]]
  BY DEF BusRecord
<1> HIDE DEF r, old, new
<1>5. [bus.emissions EXCEPT ![i] = r] \in Seq(EmissionRecord)
  BY <1>1, <1>3, Replaced
<1>6. /\ new \in BusRecord
      /\ new.handled = bus.handled
      /\ new.returnFuncs = bus.returnFuncs
      /\ new.emissions = [bus.emissions EXCEPT ![i] = r]
  BY <1>4, <1>5 DEF BusRecord
<1> QED
  BY <1>1, <1>3, <1>6, Replaced DEF r, old, new

\* off() counts down and takes the function away.
LEMMA OffEffect ==
    ASSUME NEW bus \in BusRecord, NEW i, bus.handled > 0
    PROVE  /\ Off(bus, i) \in BusRecord /\ Off(bus, i).handled = bus.handled - 1
           /\ Off(bus, i).returnFuncs = bus.returnFuncs \ {i}
           /\ Off(bus, i).emissions = bus.emissions
<1>1. bus.handled \in Nat /\ bus.returnFuncs \in SUBSET Nat
  BY DEF BusRecord
<1> DEFINE h == bus.handled - 1
           fs == bus.returnFuncs \ {i}
<1>2. h \in Nat /\ fs \in SUBSET Nat /\ h = IF bus.handled > 1 THEN bus.handled - 1 ELSE 0
  BY <1>1
<1>3. Off(bus, i) = [bus EXCEPT !.handled = h, !.returnFuncs = fs]
  BY <1>2 DEF Off
<1> HIDE DEF h, fs
<1>4. /\ Off(bus, i) \in BusRecord /\ Off(bus, i).handled = h
      /\ Off(bus, i).returnFuncs = fs
      /\ Off(bus, i).emissions = bus.emissions
  BY <1>2, <1>3 DEF BusRecord
<1> QED
  BY <1>4 DEF h, fs

\* on() counts up and puts the function there.
LEMMA OnEffect ==
    ASSUME NEW bus \in BusRecord, NEW i \in Nat
    PROVE  /\ On(bus, i) \in BusRecord /\ On(bus, i).handled = bus.handled + 1
           /\ On(bus, i).returnFuncs = bus.returnFuncs \cup {i}
           /\ On(bus, i).emissions = bus.emissions
<1> DEFINE h == bus.handled + 1
           fs == bus.returnFuncs \cup {i}
<1>1. h \in Nat /\ fs \in SUBSET Nat
  BY DEF BusRecord
<1>2. On(bus, i) = [bus EXCEPT !.handled = h, !.returnFuncs = fs]
  BY DEF On
<1> HIDE DEF h, fs
<1>3. /\ On(bus, i) \in BusRecord /\ On(bus, i).handled = h
      /\ On(bus, i).returnFuncs = fs
      /\ On(bus, i).emissions = bus.emissions
  BY <1>1, <1>2 DEF BusRecord
<1> QED
  BY <1>3 DEF h, fs

\* The last answer resolves the emission and takes its function off.
LEMMA CountedEffect ==
    ASSUME NEW bus \in BusRecord, NEW i \in DOMAIN bus.emissions, bus.handled > 0
    PROVE  LET new  == Counted(bus, i)
               old  == bus.emissions[i]
               last == old.responded + 1 = old.count
           IN  /\ new \in BusRecord
               /\ new.handled = IF last THEN bus.handled - 1 ELSE bus.handled
               /\ new.returnFuncs = IF last THEN bus.returnFuncs \ {i} ELSE bus.returnFuncs
               /\ Len(new.emissions) = Len(bus.emissions)
               /\ \A j \in DOMAIN bus.emissions \ {i} : new.emissions[j] = bus.emissions[j]
               /\ new.emissions[i].type = old.type
               /\ new.emissions[i].count = old.count
               /\ new.emissions[i].responded = old.responded + 1
               /\ new.emissions[i].promise =
                    IF last /\ old.promise = "pending" THEN "resolved" ELSE old.promise
<1> DEFINE counted == [bus EXCEPT !.emissions[i].responded = @ + 1]
           off == Off(counted, i)
           new == Settle(off, i, "resolved")
           old == bus.emissions[i]
<1>1. /\ counted \in BusRecord
      /\ counted.handled = bus.handled /\ counted.returnFuncs = bus.returnFuncs
      /\ Len(counted.emissions) = Len(bus.emissions)
      /\ \A j \in DOMAIN bus.emissions \ {i} : counted.emissions[j] = bus.emissions[j]
      /\ counted.emissions[i] = [old EXCEPT !.responded = old.responded + 1]
  BY AddEffect
<1> HIDE DEF counted
<1>2. /\ bus.handled \in Nat /\ bus.emissions \in Seq(EmissionRecord)
      /\ counted.emissions \in Seq(EmissionRecord)
  BY <1>1 DEF BusRecord
<1>3. /\ DOMAIN counted.emissions = DOMAIN bus.emissions /\ old \in EmissionRecord
  BY <1>1, <1>2
<1>4. /\ counted.emissions[i].type = old.type
      /\ counted.emissions[i].count = old.count
      /\ counted.emissions[i].responded = old.responded + 1
      /\ counted.emissions[i].promise = old.promise
  BY <1>1, <1>3 DEF EmissionRecord
<1>5. Counted(bus, i) = IF old.responded + 1 = old.count THEN new ELSE counted
  BY <1>4 DEF Counted, counted
<1>6. /\ off \in BusRecord /\ off.handled = bus.handled - 1
      /\ off.returnFuncs = bus.returnFuncs \ {i} /\ off.emissions = counted.emissions
  BY <1>1, <1>2, OffEffect
<1> HIDE DEF off
<1>7. /\ new \in BusRecord
      /\ new.handled = off.handled /\ new.returnFuncs = off.returnFuncs
      /\ Len(new.emissions) = Len(off.emissions)
      /\ \A j \in DOMAIN off.emissions \ {i} : new.emissions[j] = off.emissions[j]
      /\ new.emissions[i] = [off.emissions[i] EXCEPT
            !.promise = IF off.emissions[i].promise = "pending" THEN "resolved"
                                                     ELSE off.emissions[i].promise]
  BY <1>3, <1>6, SettleEffect
<1>8. /\ off.emissions[i] \in EmissionRecord
      /\ DOMAIN off.emissions = DOMAIN bus.emissions
  BY <1>2, <1>3, <1>6
<1>9. /\ new.emissions[i].type = old.type
      /\ new.emissions[i].count = old.count
      /\ new.emissions[i].responded = old.responded + 1
      /\ new.emissions[i].promise = IF old.promise = "pending" THEN "resolved" ELSE old.promise
  BY <1>4, <1>6, <1>7, <1>8 DEF EmissionRecord
<1> HIDE DEF new
<1>10. CASE old.responded + 1 = old.count
  <2>1. Counted(bus, i) = new
    BY <1>5, <1>10
  <2>2. /\ new.handled = bus.handled - 1 /\ new.returnFuncs = bus.returnFuncs \ {i}
        /\ Len(new.emissions) = Len(bus.emissions)
        /\ \A j \in DOMAIN bus.emissions \ {i} : new.emissions[j] = bus.emissions[j]
    BY <1>1, <1>6, <1>7, <1>8
  <2> QED
    BY <2>1, <2>2, <1>7, <1>9, <1>10
<1>11. CASE old.responded + 1 # old.count
  <2>1. Counted(bus, i) = counted
    BY <1>5, <1>11
  <2> QED
    BY <2>1, <1>1, <1>4, <1>11
<1> QED
  BY <1>10, <1>11

\* Bus as a record, before and after a step.
LEMMA BusFacts ==
    ASSUME BusOK
    PROVE  /\ Bus \in BusRecord /\ Bus.handled = handled
           /\ Bus.returnFuncs = returnFuncs /\ Bus.emissions = emissions
<1>1. returnFuncs \subseteq 1 .. Len(emissions) /\ Len(emissions) \in Nat
  BY DEF BusOK, OneFunctionEach, Ids
<1> QED
  BY <1>1, FunctionsCounted DEF Bus, BusRecord, BusOK

\* A new emission is the last one; it is pending, or was answered by `_unhandled'.
LEMMA DispatchEffect ==
    ASSUME BusOK, NEW type \in Event, Becomes(Dispatched(type))
    PROVE  /\ BusOK'
           /\ Len(emissions') = NextEmission
           /\ \A i \in Ids : emissions'[i] = emissions[i]
           /\ emissions'[NextEmission].type = type
           /\ IF Listens[type] = {}
              THEN emissions'[NextEmission].promise = "resolved"
              ELSE /\ emissions'[NextEmission].promise = "pending"
                   /\ emissions'[NextEmission].responded = 0
                   /\ emissions'[NextEmission].count = Cardinality(Listens[type])
<1> DEFINE n == NextEmission
           bus == On(Emitted(type), n)
           new == Dispatched(type)
           e == Emission(type)
<1>1. /\ emissions \in Seq(EmissionRecord) /\ n \in Nat /\ n \notin Ids
      /\ n = Len(emissions) + 1 /\ Len(emissions) \in Nat /\ Ids = 1 .. Len(emissions)
  BY DEF BusOK, NextEmission, Ids
<1>2. /\ e \in EmissionRecord /\ e.type = type /\ e.promise = "pending" /\ e.responded = 0
      /\ e.count = IF Listens[type] = {} THEN 1 ELSE Cardinality(Listens[type])
  BY ConstantFacts DEF Emission, EmissionRecord
<1> DEFINE es == Append(emissions, e)
<1> HIDE DEF e, n
<1>3. /\ es \in Seq(EmissionRecord) /\ Len(es) = n /\ DOMAIN es = Ids \cup {n} /\ es[n] = e
      /\ \A i \in Ids : es[i] = emissions[i]
  BY <1>1, <1>2
<1>4. /\ IsFiniteSet(returnFuncs) /\ handled \in Nat /\ n \notin returnFuncs
      /\ handled = Cardinality(returnFuncs) /\ returnFuncs = Ids \ Resolved
  BY <1>1, FunctionsCounted DEF BusOK, OneFunctionEach
<1>5. handled + 1 = Cardinality(returnFuncs \cup {n})
  BY <1>4, FS_AddElement
<1> HIDE DEF es
<1>6. Emitted(type) = [Bus EXCEPT !.emissions = es]
  BY BusFacts DEF Emitted, es, e
<1>7. /\ bus \in BusRecord /\ bus.handled = handled + 1
      /\ bus.returnFuncs = returnFuncs \cup {n} /\ bus.emissions = es
  <2> DEFINE em == Emitted(type)
  <2>1. /\ em \in BusRecord /\ em.handled = handled
        /\ em.returnFuncs = returnFuncs /\ em.emissions = es
    BY <1>3, <1>6, BusFacts DEF BusRecord
  <2> HIDE DEF em
  <2>2. /\ On(em, n) \in BusRecord /\ On(em, n).handled = em.handled + 1
        /\ On(em, n).returnFuncs = em.returnFuncs \cup {n}
        /\ On(em, n).emissions = em.emissions
    BY <1>1, <2>1, OnEffect
  <2> QED
    BY <2>1, <2>2 DEF em
<1>8. handled' = new.handled /\ returnFuncs' = new.returnFuncs /\ emissions' = new.emissions
  BY DEF Becomes
<1>9. new = IF Listens[type] = {} THEN Reply(bus, n, TRUE) ELSE bus
  BY DEF Dispatched, n
<1> HIDE DEF bus, new
<1>10. CASE Listens[type] # {}
  <2>1. /\ handled' = handled + 1 /\ returnFuncs' = returnFuncs \cup {n} /\ emissions' = es
    BY <1>7, <1>8, <1>9, <1>10
  <2>2. Ids' = Ids \cup {n} /\ Resolved' = Resolved
    BY <2>1, <1>1, <1>2, <1>3 DEF Ids, Resolved, Outcome
  <2>3. returnFuncs' = Ids' \ Resolved'
    BY <2>1, <2>2, <1>1, <1>4 DEF Resolved
  <2>4. BusOK'
    BY <2>1, <2>3, <1>3, <1>5 DEF BusOK, OneFunctionEach
  <2> QED
    BY <2>1, <2>4, <1>2, <1>3, <1>10 DEF n
<1>11. CASE Listens[type] = {}
  <2>0. handled + 1 > 0 /\ handled + 1 # 0
    BY <1>4
  <2>1. new = Counted(bus, n)
    BY <2>0, <1>7, <1>9, <1>11 DEF Reply
  <2>2. n \in DOMAIN bus.emissions /\ bus.handled > 0 /\ bus.emissions[n] = e
    BY <2>0, <1>3, <1>7
  <2>3. /\ new \in BusRecord /\ new.handled = bus.handled - 1
        /\ new.returnFuncs = bus.returnFuncs \ {n}
        /\ Len(new.emissions) = Len(bus.emissions)
        /\ \A j \in DOMAIN bus.emissions \ {n} : new.emissions[j] = bus.emissions[j]
        /\ new.emissions[n].type = type /\ new.emissions[n].promise = "resolved"
    <3>1. e.responded + 1 = e.count
      BY <1>2, <1>11
    <3> QED
      BY <2>1, <2>2, <3>1, <1>2, <1>7, CountedEffect
  <2>4. /\ handled' = handled /\ returnFuncs' = returnFuncs
        /\ emissions' \in Seq(EmissionRecord) /\ Len(emissions') = n
        /\ \A i \in Ids : emissions'[i] = emissions[i]
        /\ emissions'[n].type = type /\ emissions'[n].promise = "resolved"
    <3>1. new.emissions \in Seq(EmissionRecord)
      BY <2>3 DEF BusRecord
    <3> QED
      BY <3>1, <2>3, <1>1, <1>3, <1>4, <1>7, <1>8
  <2>5. Ids' = Ids \cup {n} /\ Resolved' = Resolved \cup {n}
    BY <2>4, <1>1 DEF Ids, Resolved, Outcome
  <2>6. BusOK'
    BY <2>4, <2>5, <1>1, <1>4 DEF BusOK, OneFunctionEach
  <2> QED
    BY <2>4, <2>6, <1>11 DEF n
<1> QED
  BY <1>10, <1>11

\* An answer changes the emission it is for, and no other.
LEMMA ReplyEffect ==
    ASSUME BusOK, CountOK, NEW i \in Ids, Outcome(i) # "resolved", NEW status \in BOOLEAN,
           Working(i) # {}, IsFiniteSet(Working(i)),
           Becomes(Reply(Bus, i, status))
    PROVE  /\ BusOK'
           /\ Len(emissions') = Len(emissions)
           /\ \A j \in Ids \ {i} : emissions'[j] = emissions[j]
           /\ emissions'[i].type = emissions[i].type
           /\ emissions'[i].count = emissions[i].count
           /\ emissions'[i].responded = emissions[i].responded + (IF status THEN 1 ELSE 0)
           /\ Outcome(i)' =
                IF Outcome(i) = "rejected" \/ ~status THEN "rejected"
                ELSE IF emissions[i].responded + 1 = emissions[i].count THEN "resolved"
                ELSE "pending"
<1> DEFINE new == Reply(Bus, i, status)
           old == emissions[i]
           last == old.responded + 1 = old.count
<1>1. /\ emissions \in Seq(EmissionRecord) /\ old \in EmissionRecord
      /\ Ids = 1 .. Len(emissions) /\ Len(emissions) \in Nat
      /\ handled = Cardinality(returnFuncs) /\ returnFuncs = Ids \ Resolved
  BY DEF BusOK, OneFunctionEach, Ids
<1>2. /\ i \in returnFuncs /\ handled > 0 /\ handled \in Nat /\ IsFiniteSet(returnFuncs)
  BY <1>1, FunctionsCounted DEF Resolved
<1>3. /\ Bus \in BusRecord /\ Bus.handled = handled /\ Bus.returnFuncs = returnFuncs
      /\ Bus.emissions = emissions /\ i \in DOMAIN Bus.emissions /\ Bus.emissions[i] = old
  BY <1>1, BusFacts
<1>4. new = IF status THEN Counted(Bus, i) ELSE Settle(Bus, i, "rejected")
  BY <1>2, <1>3 DEF Reply, Rejected
<1>5. handled' = new.handled /\ returnFuncs' = new.returnFuncs /\ emissions' = new.emissions
  BY DEF Becomes
<1>6. old.promise \in {"pending", "rejected"} /\ Outcome(i) = old.promise
      /\ old.responded \in Nat /\ old.count \in Nat
  BY <1>1 DEF Outcome, EmissionRecord
<1>7. old.promise = "rejected" => ~last
  <2>1. Cardinality(Working(i)) \in Nat /\ Cardinality(Working(i)) # 0
    BY FS_CardinalityType, FS_EmptySet
  <2> QED
    BY <2>1, <1>6 DEF CountOK
<1> HIDE DEF new
<1>8. CASE ~status
  <2>1. /\ new \in BusRecord
        /\ new.handled = handled /\ new.returnFuncs = returnFuncs
        /\ Len(new.emissions) = Len(emissions)
        /\ \A j \in Ids \ {i} : new.emissions[j] = emissions[j]
    BY <1>3, <1>4, <1>8, SettleEffect DEF Ids
  <2>2. /\ new.emissions[i].type = old.type /\ new.emissions[i].count = old.count
        /\ new.emissions[i].responded = old.responded
        /\ new.emissions[i].promise = "rejected"
    <3>1. new.emissions[i] = [old EXCEPT !.promise = IF old.promise = "pending"
                                               THEN "rejected" ELSE old.promise]
      BY <1>3, <1>4, <1>8, SettleEffect
    <3> QED
      BY <3>1, <1>1, <1>6 DEF EmissionRecord
  <2>3. emissions' \in Seq(EmissionRecord)
    BY <2>1, <1>5 DEF BusRecord
  <2>4. Ids' = Ids /\ Resolved' = Resolved
    BY <2>1, <2>2, <2>3, <1>1, <1>5, <1>6 DEF Ids, Resolved, Outcome
  <2>5. BusOK'
    BY <2>1, <2>3, <2>4, <1>1, <1>5 DEF BusOK, OneFunctionEach
  <2> QED
    BY <2>1, <2>2, <2>5, <1>5, <1>6, <1>8 DEF Outcome
<1>9. CASE status
  <2>1. /\ new \in BusRecord
        /\ new.handled = IF last THEN handled - 1 ELSE handled
        /\ new.returnFuncs = IF last THEN returnFuncs \ {i} ELSE returnFuncs
        /\ Len(new.emissions) = Len(emissions)
        /\ \A j \in Ids \ {i} : new.emissions[j] = emissions[j]
        /\ new.emissions[i].type = old.type /\ new.emissions[i].count = old.count
        /\ new.emissions[i].responded = old.responded + 1
        /\ new.emissions[i].promise =
              IF last /\ old.promise = "pending" THEN "resolved" ELSE old.promise
    BY <1>2, <1>3, <1>4, <1>9, CountedEffect DEF Ids
  <2>2. emissions' \in Seq(EmissionRecord)
    BY <2>1, <1>5 DEF BusRecord
  <2>3. Ids' = Ids /\ Resolved' = IF last THEN Resolved \cup {i} ELSE Resolved
    BY <2>1, <2>2, <1>1, <1>5, <1>6, <1>7 DEF Ids, Resolved, Outcome
  <2>4. handled' = Cardinality(returnFuncs')
    BY <2>1, <1>1, <1>2, <1>5, FS_RemoveElement
  <2>5. BusOK'
    BY <2>1, <2>2, <2>3, <2>4, <1>1, <1>5 DEF BusOK, OneFunctionEach
  <2> QED
    BY <2>1, <2>5, <1>5, <1>6, <1>7, <1>9 DEF Outcome
<1> QED
  BY <1>8, <1>9

-----------------------------------------------------------------------------
(***************************************************************************)
(* The steps.                                                              *)
(***************************************************************************)
\* The listeners at work for an emission are some of those of its event.
LEMMA WorkingFacts ==
    ASSUME IInv, NEW i \in Ids
    PROVE  /\ Working(i) \subseteq Listens[emissions[i].type]
           /\ IsFiniteSet(Working(i)) /\ Cardinality(Working(i)) \in Nat
           /\ Cardinality(Working(i)) = 0 <=> Working(i) = {}
           /\ emissions[i] \in EmissionRecord
<1>1. emissions[i] \in EmissionRecord
  BY DEF IInv, BusOK, Ids
<1>2. Working(i) \subseteq Listens[emissions[i].type]
  BY DEF Working, IInv, TasksOK
<1>3. IsFiniteSet(Listens[emissions[i].type])
  BY <1>1, ConstantFacts DEF EmissionRecord
<1>4. IsFiniteSet(Working(i))
  BY <1>2, <1>3, FS_Subset
<1> QED
  BY <1>1, <1>2, <1>4, FS_CardinalityType, FS_EmptySet

\* What an answer does to the bus and to the listeners at work.
LEMMA AnswerEffect ==
    ASSUME IInv, NEW t \in tasks, NEW status \in BOOLEAN, Answers(t, status)
    PROVE  LET i == t.emission
           IN  /\ i \in Ids /\ Outcome(i) # "resolved" /\ t.listener \in Working(i)
               /\ BusOK' /\ Ids' = Ids
               /\ \A j \in Ids \ {i} :
                     emissions'[j] = emissions[j] /\ Working(j)' = Working(j)
               /\ emissions'[i].type = emissions[i].type
               /\ emissions'[i].count = emissions[i].count
               /\ emissions'[i].responded = emissions[i].responded + (IF status THEN 1 ELSE 0)
               /\ Outcome(i)' =
                    IF Outcome(i) = "rejected" \/ ~status THEN "rejected"
                    ELSE IF emissions[i].responded + 1 = emissions[i].count THEN "resolved"
                    ELSE "pending"
               /\ Working(i)' = Working(i) \ {t.listener}
               /\ Cardinality(Working(i)') = Cardinality(Working(i)) - 1
<1> DEFINE i == t.emission
<1>1. i \in Ids /\ Outcome(i) # "resolved" /\ t.listener \in Working(i)
  BY DEF IInv, TasksOK, Working
<1>2. IsFiniteSet(Working(i)) /\ Working(i) # {}
  BY <1>1, WorkingFacts
<1>3. /\ BusOK' /\ Len(emissions') = Len(emissions)
      /\ \A j \in Ids \ {i} : emissions'[j] = emissions[j]
      /\ emissions'[i].type = emissions[i].type
      /\ emissions'[i].count = emissions[i].count
      /\ emissions'[i].responded = emissions[i].responded + (IF status THEN 1 ELSE 0)
      /\ Outcome(i)' =
           IF Outcome(i) = "rejected" \/ ~status THEN "rejected"
           ELSE IF emissions[i].responded + 1 = emissions[i].count THEN "resolved"
           ELSE "pending"
  BY <1>1, <1>2, ReplyEffect DEF IInv, Answers
<1>4. Ids' = Ids
  BY <1>3 DEF BusOK, Ids, IInv
<1>5. \A j \in Ids \ {i} : Working(j)' = Working(j)
  BY DEF Answers, Working
<1>6. Working(i)' = Working(i) \ {t.listener}
  BY DEF Answers, Working, IInv, TasksOK
<1>7. Cardinality(Working(i)') = Cardinality(Working(i)) - 1
  BY <1>1, <1>2, <1>6, FS_RemoveElement
<1> QED
  BY <1>1, <1>3, <1>4, <1>5, <1>6, <1>7

LEMMA AnswerOK ==
    ASSUME IInv, NEW t \in tasks, NEW status \in BOOLEAN, Answers(t, status)
    PROVE  IInv'
<1> DEFINE i == t.emission
<1>1. /\ i \in Ids /\ Outcome(i) # "resolved" /\ t.listener \in Working(i)
      /\ BusOK' /\ Ids' = Ids
      /\ \A j \in Ids \ {i} : emissions'[j] = emissions[j] /\ Working(j)' = Working(j)
      /\ emissions'[i].type = emissions[i].type
      /\ emissions'[i].count = emissions[i].count
      /\ emissions'[i].responded = emissions[i].responded + (IF status THEN 1 ELSE 0)
      /\ Outcome(i)' =
           IF Outcome(i) = "rejected" \/ ~status THEN "rejected"
           ELSE IF emissions[i].responded + 1 = emissions[i].count THEN "resolved"
           ELSE "pending"
      /\ Working(i)' = Working(i) \ {t.listener}
      /\ Cardinality(Working(i)') = Cardinality(Working(i)) - 1
  BY AnswerEffect
<1>2. /\ Cardinality(Working(i)) \in Nat /\ emissions[i] \in EmissionRecord
      /\ Cardinality(Working(i)) = 0 <=> Working(i) = {}
      /\ IsFiniteSet(Working(i))
  BY <1>1, WorkingFacts
<1>3. /\ emissions[i].responded \in Nat /\ emissions[i].count \in Nat
      /\ Outcome(i) \in {"pending", "rejected"}
      /\ \/ /\ Outcome(i) = "pending"
            /\ emissions[i].responded + Cardinality(Working(i)) = emissions[i].count
         \/ /\ Outcome(i) = "rejected"
            /\ emissions[i].responded + Cardinality(Working(i)) < emissions[i].count
  BY <1>1, <1>2 DEF EmissionRecord, Outcome, IInv, CountOK
<1>4. CountOK'
  <2>1. /\ Outcome(i)' = "pending" =>
             emissions'[i].responded + Cardinality(Working(i)') = emissions'[i].count
        /\ Outcome(i)' = "rejected" =>
             emissions'[i].responded + Cardinality(Working(i)') < emissions'[i].count
    BY <1>1, <1>2, <1>3
  <2>2. ASSUME NEW j \in Ids, j # i
        PROVE  /\ Outcome(j)' = Outcome(j) /\ emissions'[j] = emissions[j]
               /\ Working(j)' = Working(j)
    BY <1>1, <2>2 DEF Outcome
  <2> QED
    BY <1>1, <2>1, <2>2 DEF CountOK, IInv
<1>5. TasksOK'
  <2>1. tasks' = tasks \ {t}
    BY DEF Answers
  <2>2. ASSUME Outcome(i)' = "resolved"
        PROVE  \A u \in tasks' : u.emission # i
    <3>1. Cardinality(Working(i)) = 1
      BY <1>1, <1>2, <1>3, <2>2
    <3>2. Cardinality(Working(i)') = 0
      BY <3>1, <1>1
    <3>3. IsFiniteSet(Working(i) \ {t.listener})
      BY <1>2, FS_RemoveElement
    <3>4. Working(i)' = {}
      BY <3>2, <3>3, <1>1, FS_EmptySet
    <3> QED
      BY <3>4 DEF Working
  <2>3. ASSUME NEW u \in tasks'
        PROVE  /\ u = [emission |-> u.emission, listener |-> u.listener, waits |-> u.waits]
               /\ u.emission \in Ids' /\ Outcome(u.emission)' # "resolved"
               /\ u.listener \in Listens[emissions'[u.emission].type]
               /\ u.waits \in Ids' \cup {0}
    <3>1. u \in tasks
      BY <2>1, <2>3
    <3>2. /\ u = [emission |-> u.emission, listener |-> u.listener, waits |-> u.waits]
          /\ u.emission \in Ids /\ Outcome(u.emission) # "resolved"
          /\ u.listener \in Listens[emissions[u.emission].type]
          /\ u.waits \in Ids \cup {0}
      BY <3>1 DEF IInv, TasksOK
    <3>3. CASE u.emission = i
      BY <3>2, <3>3, <2>2, <2>3, <1>1
    <3>4. CASE u.emission # i
      BY <3>2, <3>4, <1>1 DEF Outcome
    <3> QED
      BY <3>3, <3>4
  <2> QED
    BY <2>1, <2>3 DEF TasksOK, IInv
<1> QED
  BY <1>1, <1>4, <1>5 DEF IInv, LoopOK, Answers

\* What asyncEmit() does, for a set `kept' of tasks that goes on as before but for
\* what it waits for.
SameTasks(kept) ==
    /\ \A u \in kept :
          /\ u = [emission |-> u.emission, listener |-> u.listener, waits |-> u.waits]
          /\ u.waits \in Ids \cup {0, NextEmission}
          /\ \E v \in tasks : v.emission = u.emission /\ v.listener = u.listener
    /\ \A v \in tasks : \E u \in kept : v.emission = u.emission /\ v.listener = u.listener
    /\ \A u, v \in kept : u.emission = v.emission /\ u.listener = v.listener => u = v

LEMMA EmitEffect ==
    ASSUME IInv, NEW type \in Event, Becomes(Dispatched(type)), NEW n, n = NextEmission,
           NEW kept, SameTasks(kept), tasks' = kept \cup Started(type)
    PROVE  /\ BusOK' /\ n \notin Ids /\ n # 0 /\ Ids' = Ids \cup {n}
           /\ \A j \in Ids : emissions'[j] = emissions[j] /\ Working(j)' = Working(j)
           /\ Working(n)' = Listens[type] /\ emissions'[n].type = type
           /\ IF Listens[type] = {}
              THEN Outcome(n)' = "resolved"
              ELSE /\ Outcome(n)' = "pending" /\ emissions'[n].responded = 0
                   /\ emissions'[n].count = Cardinality(Listens[type])
<1>1. /\ BusOK' /\ Len(emissions') = n
      /\ \A j \in Ids : emissions'[j] = emissions[j]
      /\ emissions'[n].type = type
      /\ IF Listens[type] = {}
         THEN Outcome(n)' = "resolved"
         ELSE /\ Outcome(n)' = "pending" /\ emissions'[n].responded = 0
              /\ emissions'[n].count = Cardinality(Listens[type])
  BY DispatchEffect, Zenon DEF IInv, Outcome
<1>2. Ids = 1 .. Len(emissions) /\ n = Len(emissions) + 1 /\ Len(emissions) \in Nat
  BY DEF IInv, BusOK, Ids, NextEmission
<1>3. Ids' = 1 .. n
  BY <1>1 DEF BusOK, Ids
<1>4. Ids' = Ids \cup {n} /\ n \notin Ids /\ n # 0
  BY <1>2, <1>3
<1>5. \A u \in kept : u.emission \in Ids /\ u.emission # n
  BY <1>4 DEF SameTasks, IInv, TasksOK
<1>6. \A u \in Started(type) : u.emission = n /\ u.listener \in Listens[type]
  BY DEF Started, Task
<1>7. \A l \in Listens[type] : Task(n, l) \in Started(type) /\ Task(n, l).listener = l
                             /\ Task(n, l).emission = n
  BY DEF Started, Task
<1>8. Working(n)' = Listens[type]
  BY <1>5, <1>6, <1>7 DEF Working
<1>9. \A j \in Ids : Working(j)' = Working(j)
  BY <1>4, <1>6 DEF Working, SameTasks
<1> QED
  BY <1>1, <1>4, <1>8, <1>9

LEMMA EmitOK ==
    ASSUME IInv, NEW type \in Event, Becomes(Dispatched(type)), NEW n, n = NextEmission,
           NEW kept, SameTasks(kept), tasks' = kept \cup Started(type)
    PROVE  BusOK' /\ TasksOK' /\ CountOK' /\ Ids' = Ids \cup {n}
<1>1. /\ BusOK' /\ n \notin Ids /\ n # 0 /\ Ids' = Ids \cup {n}
      /\ \A j \in Ids : emissions'[j] = emissions[j] /\ Working(j)' = Working(j)
      /\ Working(n)' = Listens[type] /\ emissions'[n].type = type
      /\ IF Listens[type] = {}
         THEN Outcome(n)' = "resolved"
         ELSE /\ Outcome(n)' = "pending" /\ emissions'[n].responded = 0
              /\ emissions'[n].count = Cardinality(Listens[type])
  BY EmitEffect
<1>2. \A j \in Ids : Outcome(j)' = Outcome(j)
  BY <1>1 DEF Outcome
<1>3. CountOK'
  <2>1. Cardinality(Listens[type]) \in Nat
    BY ConstantFacts
  <2>2. /\ Outcome(n)' = "pending" =>
             emissions'[n].responded + Cardinality(Working(n)') = emissions'[n].count
        /\ Outcome(n)' # "rejected"
    BY <1>1, <2>1
  <2> QED
    BY <1>1, <1>2, <2>2 DEF CountOK, IInv
<1>4. TasksOK'
  <2>1. ASSUME NEW u \in kept
        PROVE  /\ u = [emission |-> u.emission, listener |-> u.listener, waits |-> u.waits]
               /\ u.emission \in Ids /\ u.emission \in Ids' /\ u.emission # n
               /\ Outcome(u.emission)' # "resolved"
               /\ u.listener \in Listens[emissions'[u.emission].type]
               /\ u.waits \in Ids' \cup {0}
    <3>1. PICK v \in tasks : v.emission = u.emission /\ v.listener = u.listener
      BY DEF SameTasks
    <3>2. /\ v.emission \in Ids /\ Outcome(v.emission) # "resolved"
          /\ v.listener \in Listens[emissions[v.emission].type]
      BY DEF IInv, TasksOK
    <3> QED
      BY <3>1, <3>2, <1>1, <1>2 DEF SameTasks
  <2>2. ASSUME NEW u \in Started(type)
        PROVE  /\ u = [emission |-> u.emission, listener |-> u.listener, waits |-> u.waits]
               /\ u.emission = n /\ n \in Ids' /\ Outcome(n)' # "resolved"
               /\ u.listener \in Listens[emissions'[n].type]
               /\ u.waits \in Ids' \cup {0}
    BY <1>1 DEF Started, Task
  <2>3. \A u, v \in Started(type) : u.listener = v.listener => u = v
    BY DEF Started, Task
  <2>4. \A u, v \in tasks' : u.emission = v.emission /\ u.listener = v.listener => u = v
    BY <2>1, <2>2, <2>3 DEF SameTasks
  <2> QED
    BY <2>1, <2>2, <2>4 DEF TasksOK
<1> QED
  BY <1>1, <1>3, <1>4

LEMMA NestsKeepsTasks ==
    ASSUME IInv, NEW t \in tasks
    PROVE  /\ SameTasks(tasks)
           /\ SameTasks((tasks \ {t}) \cup {[t EXCEPT !.waits = NextEmission]})
<1>1. SameTasks(tasks)
  BY DEF IInv, TasksOK, SameTasks
<1> DEFINE w == [t EXCEPT !.waits = NextEmission]
<1>2. t = [emission |-> t.emission, listener |-> t.listener, waits |-> t.waits]
  BY DEF IInv, TasksOK
<1>3. /\ w = [emission |-> t.emission, listener |-> t.listener, waits |-> NextEmission]
      /\ w.emission = t.emission /\ w.listener = t.listener /\ w.waits = NextEmission
  BY <1>2
<1> HIDE DEF w
<1>4. SameTasks((tasks \ {t}) \cup {w})
  BY <1>3 DEF SameTasks, IInv, TasksOK
<1> QED
  BY <1>1, <1>4 DEF w

LEMMA InitOK == Init => IInv
<1> SUFFICES ASSUME Init PROVE IInv
  OBVIOUS
<1>1. emissions = <<>> /\ Ids = {} /\ Resolved = {}
  BY DEF Init, Ids, Resolved
<1>2. BusOK
  BY <1>1, FS_EmptySet DEF Init, BusOK, OneFunctionEach
<1>3. TasksOK /\ CountOK
  BY <1>1 DEF Init, TasksOK, CountOK
<1>4. LoopOK
  BY ConstantFacts DEF Init, LoopOK
<1> QED
  BY <1>2, <1>3, <1>4 DEF IInv

LEMMA StepOK == IInv /\ [Next]_vars => IInv'
<1> SUFFICES ASSUME IInv, [Next]_vars PROVE IInv'
  OBVIOUS
<1>1. CASE LoopEmits
  <2>1. /\ step \in 1 .. Len(Script) /\ Script[step] \in Event
        /\ Becomes(Dispatched(Script[step])) /\ tasks' = tasks \cup Started(Script[step])
    BY <1>1, ConstantFacts DEF LoopEmits, IInv, LoopOK
  <2> PICK n, type, kept : n = NextEmission /\ type = Script[step] /\ kept = tasks
    OBVIOUS
  <2>2. SameTasks(kept)
    BY DEF IInv, TasksOK, SameTasks
  <2>3. BusOK' /\ TasksOK' /\ CountOK' /\ Ids' = Ids \cup {n}
    BY <2>1, <2>2, EmitOK
  <2> QED
    BY <1>1, <2>1, <2>3 DEF LoopEmits, IInv, LoopOK
<1>2. CASE LoopGoesOn \/ LoopStartsOver
  <2>1. UNCHANGED <<busVars, tasks>>
    BY <1>2 DEF LoopGoesOn, LoopStartsOver
  <2>2. BusOK' /\ TasksOK' /\ CountOK'
    BY <2>1 DEF busVars, IInv, BusOK, OneFunctionEach, Ids, Resolved, Outcome, TasksOK,
                CountOK, Working
  <2>3. step' \in 1 .. Len(Script) + 1 /\ awaits' = 0
    BY <1>2, ConstantFacts DEF LoopGoesOn, LoopStartsOver, IInv, LoopOK
  <2> QED
    BY <2>2, <2>3 DEF IInv, LoopOK
<1>3. ASSUME NEW t \in tasks, Finishes(t) \/ PassesOn(t) \/ Throws(t)
      PROVE  IInv'
  BY <1>3, AnswerOK DEF Finishes, PassesOn, Throws
<1>4. ASSUME NEW t \in tasks, Nests(t)
      PROVE  IInv'
  <2> PICK n, type, kept :
           /\ n = NextEmission /\ type = Nested[t.listener]
           /\ kept = (tasks \ {t}) \cup {[t EXCEPT !.waits = NextEmission]}
    OBVIOUS
  <2>1. type \in Event /\ Becomes(Dispatched(type)) /\ tasks' = kept \cup Started(type)
    BY <1>4, ConstantFacts DEF Nests
  <2>2. SameTasks(kept)
    BY NestsKeepsTasks
  <2>3. BusOK' /\ TasksOK' /\ CountOK' /\ Ids' = Ids \cup {n}
    BY <2>1, <2>2, EmitOK
  <2> QED
    BY <1>4, <2>3 DEF Nests, IInv, LoopOK
<1>5. CASE UNCHANGED vars
  BY <1>5 DEF vars, busVars, IInv, BusOK, OneFunctionEach, Ids, Resolved, Outcome, TasksOK,
              CountOK, Working, LoopOK
<1> QED
  BY <1>1, <1>2, <1>3, <1>4, <1>5 DEF Next, LoopStep, TaskEnds

LEMMA Invariance == Spec => []IInv
BY InitOK, StepOK, PTL DEF Spec

-----------------------------------------------------------------------------
\* The count of on() and off() is that of the functions, and the functions are those
\* of the emissions that were not resolved, whoever failed and whoever is late.
THEOREM FunctionsMatchEmissions == Spec => []OneFunctionEach
<1>1. IInv => OneFunctionEach
  BY DEF IInv, BusOK
<1> QED
  BY <1>1, Invariance, PTL

\* No answer ever goes to `_unhandled', which would answer it in turn without an end.
THEOREM AnswersAreHeard == Spec => []AnswerFindsFunction
<1>1. IInv => AnswerFindsFunction
  <2> SUFFICES ASSUME IInv, NEW t \in tasks
               PROVE  handled > 0 /\ t.emission \in returnFuncs
    BY DEF AnswerFindsFunction
  <2>1. t.emission \in returnFuncs
    BY DEF IInv, TasksOK, BusOK, OneFunctionEach, Resolved
  <2> QED
    BY <2>1, FunctionsCounted DEF IInv
<1> QED
  BY <1>1, Invariance, PTL

-----------------------------------------------------------------------------
(***************************************************************************)
(* The bus implements EventCalls: a step that emits is a Call, an answer to*)
(* an emission that is pending is Done or Fail, all else is a stutter.     *)
(***************************************************************************)
CallOf(i) ==
    [left |-> IF Outcome(i) = "pending" THEN Working(i) ELSE {}, outcome |-> Outcome(i)]

Mapped == [i \in Ids |-> CallOf(i)]

LEMMA MappedSteps ==
    /\ Calls!CallsInit <=> Mapped = <<>>
    /\ \A e : Calls!Call(e) <=> Mapped' = Append(Mapped, Calls!WaitsFor(Listens[e]))
    /\ \A i, l : Calls!Done(i, l) <=>
          /\ l \in Mapped[i].left
          /\ Mapped' = [Mapped EXCEPT ![i] = Calls!WaitsFor(Mapped[i].left \ {l})]
    /\ \A i, l : Calls!Fail(i, l) <=>
          /\ l \in Mapped[i].left
          /\ Mapped' = [Mapped EXCEPT ![i] = [left |-> {}, outcome |-> "rejected"]]
    /\ Calls!CallsNext <=>
          \/ \E e \in Event : Calls!Call(e)
          \/ \E i \in DOMAIN Mapped : \E l \in Mapped[i].left :
                Calls!Done(i, l) \/ Calls!Fail(i, l)
BY DEF Calls!CallsInit, Calls!Call, Calls!Done, Calls!Fail, Calls!CallsNext, Mapped, CallOf,
       Working

LEMMA EmitIsCall ==
    ASSUME IInv, NEW type \in Event, Becomes(Dispatched(type)), NEW n, n = NextEmission,
           NEW kept, SameTasks(kept), tasks' = kept \cup Started(type)
    PROVE  Calls!CallsNext
<1>1. /\ BusOK' /\ n \notin Ids /\ n # 0 /\ Ids' = Ids \cup {n}
      /\ \A j \in Ids : emissions'[j] = emissions[j] /\ Working(j)' = Working(j)
      /\ Working(n)' = Listens[type]
      /\ Outcome(n)' = IF Listens[type] = {} THEN "resolved" ELSE "pending"
  BY EmitEffect
<1>2. \A j \in Ids : CallOf(j)' = CallOf(j)
  BY <1>1 DEF CallOf, Outcome
<1>3. CallOf(n)' = Calls!WaitsFor(Listens[type])
  BY <1>1 DEF CallOf, Calls!WaitsFor
<1>4. n = Len(emissions) + 1 /\ Len(emissions) \in Nat /\ Ids = 1 .. Len(emissions)
  BY DEF IInv, BusOK, Ids, NextEmission
<1>5. Mapped' = Append(Mapped, Calls!WaitsFor(Listens[type]))
  <2> DEFINE w == Calls!WaitsFor(Listens[type])
             S == {CallOf(j) : j \in Ids} \cup {w}
  <2>1. Mapped \in Seq(S) /\ Len(Mapped) = Len(emissions)
    BY <1>4 DEF Mapped
  <2>2. /\ Append(Mapped, w) \in Seq(S) /\ Len(Append(Mapped, w)) = n
        /\ Append(Mapped, w)[n] = w
        /\ \A j \in Ids : Append(Mapped, w)[j] = CallOf(j)
    BY <2>1, <1>4 DEF Mapped
  <2> QED
    BY <2>2, <1>1, <1>2, <1>3, <1>4 DEF Mapped
<1> QED
  BY <1>5, MappedSteps

LEMMA AnswerIsStep ==
    ASSUME IInv, NEW t \in tasks, NEW status \in BOOLEAN, Answers(t, status)
    PROVE  Calls!CallsNext \/ Mapped' = Mapped
<1> DEFINE i == t.emission
           l == t.listener
<1>1. /\ i \in Ids /\ Outcome(i) # "resolved" /\ l \in Working(i) /\ Ids' = Ids
      /\ \A j \in Ids \ {i} : emissions'[j] = emissions[j] /\ Working(j)' = Working(j)
      /\ Outcome(i)' =
           IF Outcome(i) = "rejected" \/ ~status THEN "rejected"
           ELSE IF emissions[i].responded + 1 = emissions[i].count THEN "resolved"
           ELSE "pending"
      /\ Working(i)' = Working(i) \ {l}
  BY AnswerEffect
<1>2. \A j \in Ids \ {i} : CallOf(j)' = CallOf(j)
  BY <1>1 DEF CallOf, Outcome
<1>3. /\ Outcome(i) \in {"pending", "rejected"}
      /\ Outcome(i) = "pending" =>
            /\ emissions[i].responded \in Nat /\ Cardinality(Working(i)) \in Nat
            /\ emissions[i].responded + Cardinality(Working(i)) = emissions[i].count
            /\ IsFiniteSet(Working(i))
  BY <1>1, WorkingFacts DEF EmissionRecord, Outcome, IInv, CountOK
<1>4. CASE Outcome(i) = "rejected"
  BY <1>1, <1>2, <1>4 DEF Mapped, CallOf
<1>5. CASE Outcome(i) = "pending" /\ ~status
  <2>1. CallOf(i)' = [left |-> {}, outcome |-> "rejected"]
    BY <1>1, <1>5 DEF CallOf
  <2>2. Mapped' = [Mapped EXCEPT ![i] = [left |-> {}, outcome |-> "rejected"]]
    BY <2>1, <1>1, <1>2 DEF Mapped
  <2>3. i \in DOMAIN Mapped /\ l \in Mapped[i].left
    BY <1>1, <1>5 DEF Mapped, CallOf
  <2> QED
    BY <2>2, <2>3, MappedSteps
<1>6. CASE Outcome(i) = "pending" /\ status
  <2>1. Outcome(i)' = IF Working(i) \ {l} = {} THEN "resolved" ELSE "pending"
    <3>1. Cardinality(Working(i)) = 1 <=> Working(i) = {l}
      <4>1. Cardinality(Working(i)) = 1 <=> \E x : Working(i) = {x}
        BY <1>3, <1>6, FS_Singleton
      <4> QED
        BY <4>1, <1>1
    <3> QED
      BY <3>1, <1>1, <1>3, <1>6
  <2>2. CallOf(i)' = Calls!WaitsFor(Working(i) \ {l})
    BY <2>1, <1>1 DEF CallOf, Calls!WaitsFor
  <2>3. i \in DOMAIN Mapped /\ Mapped[i].left = Working(i)
    BY <1>1, <1>6 DEF Mapped, CallOf
  <2>4. Mapped' = [Mapped EXCEPT ![i] = Calls!WaitsFor(Working(i) \ {l})]
    BY <2>2, <1>1, <1>2 DEF Mapped
  <2>5. Calls!Done(i, l)
    <3>1. Mapped' = [Mapped EXCEPT ![i] = Calls!WaitsFor(Mapped[i].left \ {l})]
      BY <2>3, <2>4
    <3> QED
      BY <3>1, <2>3, <1>1, MappedSteps
  <2> QED
    BY <2>3, <2>5, <1>1, MappedSteps
<1> QED
  BY <1>3, <1>4, <1>5, <1>6

LEMMA StepIsCallsStep == IInv /\ [Next]_vars => Calls!CallsNext \/ Mapped' = Mapped
<1> SUFFICES ASSUME IInv, [Next]_vars PROVE Calls!CallsNext \/ Mapped' = Mapped
  OBVIOUS
<1>1. CASE LoopEmits
  <2>1. /\ Script[step] \in Event
        /\ Becomes(Dispatched(Script[step])) /\ tasks' = tasks \cup Started(Script[step])
    BY <1>1, ConstantFacts DEF LoopEmits, IInv, LoopOK
  <2> PICK n, type, kept : n = NextEmission /\ type = Script[step] /\ kept = tasks
    OBVIOUS
  <2>2. SameTasks(kept)
    BY DEF IInv, TasksOK, SameTasks
  <2> QED
    BY <2>1, <2>2, EmitIsCall
<1>2. CASE LoopGoesOn \/ LoopStartsOver \/ UNCHANGED vars
  <2>1. UNCHANGED <<busVars, tasks>>
    BY <1>2 DEF LoopGoesOn, LoopStartsOver, vars
  <2> QED
    BY <2>1 DEF busVars, Mapped, CallOf, Ids, Outcome, Working
<1>3. ASSUME NEW t \in tasks, Finishes(t) \/ PassesOn(t) \/ Throws(t)
      PROVE  Calls!CallsNext \/ Mapped' = Mapped
  BY <1>3, AnswerIsStep DEF Finishes, PassesOn, Throws
<1>4. ASSUME NEW t \in tasks, Nests(t)
      PROVE  Calls!CallsNext
  <2> PICK n, type, kept :
           /\ n = NextEmission /\ type = Nested[t.listener]
           /\ kept = (tasks \ {t}) \cup {[t EXCEPT !.waits = NextEmission]}
    OBVIOUS
  <2>1. type \in Event /\ Becomes(Dispatched(type)) /\ tasks' = kept \cup Started(type)
    BY <1>4, ConstantFacts DEF Nests
  <2>2. SameTasks(kept)
    BY NestsKeepsTasks
  <2> QED
    BY <2>1, <2>2, EmitIsCall
<1> QED
  BY <1>1, <1>2, <1>3, <1>4 DEF Next, LoopStep, TaskEnds

\* Whoever awaits an emission is told "resolved" when each listener has done its part
\* and no earlier, "rejected" as soon as one fails, and never both, though the bus does
\* not tell the answers apart.
THEOREM BusImplementsCalls == Spec => ImplementsCalls
<1>1. Init => Calls!CallsInit
  <2>1. Init => Mapped = <<>>
    BY DEF Init, Mapped, Ids
  <2> QED
    BY <2>1, MappedSteps
<1>2. IInv /\ [Next]_vars => [Calls!CallsNext]_Mapped
  BY StepIsCallsStep
<1>3. ImplementsCalls <=> Calls!CallsInit /\ [][Calls!CallsNext]_Mapped
  BY DEF ImplementsCalls, Calls!CallsSpec, Mapped, CallOf, Working
<1> QED
  BY <1>1, <1>2, <1>3, Invariance, PTL DEF Spec
=============================================================================

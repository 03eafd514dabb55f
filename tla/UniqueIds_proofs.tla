-------------------------- MODULE UniqueIds_proofs --------------------------
(* Proofs about UniqueIdGenerator for any number of threads and calls.      *)
EXTENDS UniqueIds, TLAPS

\* The fields and locals of getUniqueId always hold values of their types.
THEOREM TypeCorrect == Spec => []TypeOK
<1> USE UniqueIdsAssumption
<1>1. Init => TypeOK
  <2> SUFFICES ASSUME Init PROVE TypeOK
    OBVIOUS
  <2>1. steppedBack \in BOOLEAN
    BY DEF Init
  <2>2. issued \in Seq(Id)
    BY DEF Init
  <2>3. QED
    BY <2>1, <2>2 DEF Init, TypeOK, PC, Id
<1>2. TypeOK /\ [Next]_vars => TypeOK'
  <2> SUFFICES ASSUME TypeOK, [Next]_vars PROVE TypeOK'
    OBVIOUS
  <2> USE DEF TypeOK, PC, Id, Goto, shared, time
  <2>1. ASSUME NEW t \in Threads, Enter(t) PROVE TypeOK'
    BY <2>1 DEF Enter
  <2>2. ASSUME NEW t \in Threads, GetUniqueId(t) PROVE TypeOK'
    <3>1. CASE ReadClock(t) \/ Compare(t)
      BY <3>1 DEF ReadClock, Compare
    <3>2. CASE LoadIndex(t)
      BY <3>2 DEF LoadIndex
    <3>2a. CASE ResetIndex(t)
      BY <3>2a DEF ResetIndex
    <3>3. CASE StoreIndex(t)
      <4>1. loaded[t] + 1 \in Nat
        OBVIOUS
      <4>2. QED
        BY <3>3, <4>1 DEF StoreIndex
    <3>4. CASE FormId(t)
      BY <3>4 DEF FormId
    <3>5. CASE StoreLastMs(t)
      BY <3>5 DEF StoreLastMs
    <3>6. QED
      BY <2>2, <3>1, <3>2, <3>2a, <3>3, <3>4, <3>5 DEF GetUniqueId
  <2>3. ASSUME NEW t \in Threads, Leave(t) PROVE TypeOK'
    BY <2>3 DEF Leave
  <2>4. CASE Tick
    BY <2>4 DEF Tick
  <2>5. CASE StepBack
    BY <2>5 DEF StepBack
  <2>6. CASE UNCHANGED vars
    BY <2>6 DEF vars
  <2>7. QED
    BY <2>1, <2>2, <2>3, <2>4, <2>5, <2>6 DEF Next
<1>3. QED
  BY <1>1, <1>2, PTL DEF Spec

-----------------------------------------------------------------------------

\* Two threads are never inside execute at once when they share the wrapper.
LEMMA OneInside ==
    ASSUME OneWrapper, TypeOK, InsideHoldsLock,
           NEW t \in Threads, NEW u \in Threads,
           pc[t] # "outside", pc[u] # "outside"
    PROVE  t = u
BY DEF OneWrapper, InsideHoldsLock

\* The part of the invariants that does not speak of the ids issued.
LEMMA LocalStep ==
    ASSUME OneWrapper, TypeOK, InsideHoldsLock, LocalInv, [Next]_vars
    PROVE  InsideHoldsLock' /\ LocalInv'
<1> USE UniqueIdsAssumption DEF TypeOK, Goto, shared, time, InsideHoldsLock
<1>1. ASSUME NEW t \in Threads, Enter(t)
      PROVE  InsideHoldsLock' /\ LocalInv'
  BY <1>1 DEF Enter, LocalInv, Coming
<1>2. ASSUME NEW t \in Threads, GetUniqueId(t)
      PROVE  InsideHoldsLock' /\ LocalInv'
  <2>1. pc[t] # "outside" /\ \A u \in Threads : pc[u] # "outside" => u = t
    BY <1>2, OneInside
       DEF GetUniqueId, ReadClock, Compare, LoadIndex, StoreIndex, ResetIndex,
           FormId, StoreLastMs
  <2>2. InsideHoldsLock'
    BY <1>2, <2>1
       DEF GetUniqueId, ReadClock, Compare, LoadIndex, StoreIndex, ResetIndex,
           FormId, StoreLastMs
  <2>3. CASE ReadClock(t)
    BY <2>1, <2>2, <2>3 DEF ReadClock, LocalInv, Coming
  <2>4. CASE Compare(t)
    BY <2>1, <2>2, <2>4 DEF Compare, LocalInv, Coming
  <2>5. CASE LoadIndex(t)
    BY <2>1, <2>2, <2>5 DEF LoadIndex, LocalInv, Coming
  <2>6. CASE StoreIndex(t) \/ ResetIndex(t)
    BY <2>1, <2>2, <2>6 DEF StoreIndex, ResetIndex, LocalInv, Coming
  <2>7. CASE FormId(t) \/ StoreLastMs(t)
    BY <2>1, <2>2, <2>7 DEF FormId, StoreLastMs, LocalInv, Coming
  <2>8. QED
    BY <1>2, <2>3, <2>4, <2>5, <2>6, <2>7 DEF GetUniqueId
<1>3. ASSUME NEW t \in Threads, Leave(t)
      PROVE  InsideHoldsLock' /\ LocalInv'
  <2>1. \A u \in Threads : u # t => pc[u] = "outside"
    BY <1>3, OneInside DEF Leave
  <2>2. QED
    BY <1>3, <2>1 DEF Leave, LocalInv, Coming
<1>4. CASE Tick \/ StepBack \/ UNCHANGED vars
  BY <1>4 DEF Tick, StepBack, vars, LocalInv, Coming
<1>5. QED
  BY <1>1, <1>2, <1>3, <1>4 DEF Next

-----------------------------------------------------------------------------

\* What is issued changes in StoreLastMs only, by one id at the end.
LEMMA IssuedStep ==
    ASSUME TypeOK, [Next]_vars
    PROVE  \/ UNCHANGED issued
           \/ \E t \in Threads :
                 /\ StoreLastMs(t)
                 /\ Len(issued') = Len(issued) + 1
                 /\ issued'[Len(issued)+1] = myId[t]
                 /\ \A i \in 1..Len(issued) : issued'[i] = issued[i]
<1>1. ASSUME NEW t \in Threads, StoreLastMs(t)
      PROVE  /\ Len(issued') = Len(issued) + 1
             /\ issued'[Len(issued)+1] = myId[t]
             /\ \A i \in 1..Len(issued) : issued'[i] = issued[i]
  BY <1>1 DEF StoreLastMs, TypeOK
<1>2. CASE \E t \in Threads : StoreLastMs(t)
  BY <1>1, <1>2
<1>3. CASE ~ \E t \in Threads : StoreLastMs(t)
  BY <1>3 DEF Next, vars, Enter, GetUniqueId, ReadClock, Compare, LoadIndex,
              StoreIndex, ResetIndex, FormId, Leave, Tick, StepBack
<1>4. QED
  BY <1>2, <1>3

\* With a clock that has not been set back, getUniqueId sees milliseconds that
\* only grow.
LEMMA ClockStep ==
    ASSUME OneWrapper, ~steppedBack', TypeOK, InsideHoldsLock, LocalInv,
           ClockInv, [Next]_vars
    PROVE  ClockInv'
<1> USE UniqueIdsAssumption DEF TypeOK, Goto, shared, time
<1>1. ASSUME NEW t \in Threads, Enter(t) PROVE ClockInv'
  BY <1>1 DEF Enter, ClockInv
<1>2. ASSUME NEW t \in Threads, GetUniqueId(t) PROVE ClockInv'
  <2>1. \A u \in Threads : pc[u] # "outside" => u = t
    BY <1>2, OneInside
       DEF GetUniqueId, ReadClock, Compare, LoadIndex, StoreIndex, ResetIndex,
           FormId, StoreLastMs
  <2>2. CASE ReadClock(t)
    <3>1. myMs'[t] = clock /\ clock' = clock /\ theLastMs' = theLastMs
      BY <2>2 DEF ReadClock
    <3>2. \A u \in Threads : u # t => pc'[u] = "outside"
      BY <2>1, <2>2 DEF ReadClock
    <3>3. QED
      BY <3>1, <3>2 DEF ClockInv
  <2>2a. CASE Compare(t)
    BY <2>1, <2>2a DEF Compare, ClockInv
  <2>3. CASE LoadIndex(t)
    BY <2>1, <2>3 DEF LoadIndex, ClockInv
  <2>4. CASE StoreIndex(t)
    BY <2>1, <2>4 DEF StoreIndex, ClockInv
  <2>5. CASE ResetIndex(t)
    BY <2>1, <2>5 DEF ResetIndex, ClockInv
  <2>6. CASE FormId(t)
    BY <2>1, <2>6 DEF FormId, ClockInv
  <2>7. CASE StoreLastMs(t)
    <3>1. myMs[t] \in Nat /\ myMs[t] <= clock
      BY <2>7 DEF StoreLastMs, ClockInv
    <3>2. myMs' = myMs /\ theLastMs' = myMs[t] /\ clock' = clock
      BY <2>7 DEF StoreLastMs
    <3>3. \A u \in Threads : u # t => pc'[u] = "outside"
      BY <2>1, <2>7 DEF StoreLastMs
    <3>4. QED
      BY <3>1, <3>2, <3>3 DEF ClockInv
  <2>8. QED
    BY <1>2, <2>2, <2>2a, <2>3, <2>4, <2>5, <2>6, <2>7 DEF GetUniqueId
<1>3. ASSUME NEW t \in Threads, Leave(t) PROVE ClockInv'
  BY <1>3 DEF Leave, ClockInv
<1>4. CASE Tick \/ StepBack \/ UNCHANGED vars
  BY <1>4 DEF Tick, StepBack, vars, ClockInv
<1>5. QED
  BY <1>1, <1>2, <1>3, <1>4 DEF Next

-----------------------------------------------------------------------------

LEMMA IssuedType ==
    ASSUME TypeOK PROVE \A i \in 1..Len(issued) : issued[i] \in Id
BY DEF TypeOK

LEMMA AtMostMs ==
    ASSUME NEW a \in Id, NEW ms \in Nat, NEW index \in Nat,
           AtMost(a, [ms |-> ms, index |-> index])
    PROVE  a.ms \in Nat /\ a.ms <= ms
BY DEF Id, AtMost, Below

LEMMA AtMostNext ==
    ASSUME NEW a \in Id, NEW ms \in Nat, NEW index \in Nat,
           AtMost(a, [ms |-> ms, index |-> index])
    PROVE  Below(a, [ms |-> ms, index |-> index + 1])
BY DEF Id, AtMost, Below

\* The order between the ids issued, the static fields and the id that is
\* being formed is kept by every step.
LEMMA OrderStep ==
    ASSUME OneWrapper, TypeOK, InsideHoldsLock, LocalInv, ClockInv, OrderInv,
           [Next]_vars
    PROVE  OrderInv'
<1> USE UniqueIdsAssumption
    DEF TypeOK, Goto, shared, time, OrderInv, Latest, Coming
<1>1. ASSUME NEW t \in Threads, Enter(t) PROVE OrderInv'
  BY <1>1 DEF Enter, Quiet
<1>2. ASSUME NEW t \in Threads, GetUniqueId(t) PROVE OrderInv'
  <2>1. \A u \in Threads : pc[u] # "outside" => u = t
    BY <1>2, OneInside
       DEF GetUniqueId, ReadClock, Compare, LoadIndex, StoreIndex, ResetIndex,
           FormId, StoreLastMs
  <2>2. CASE ReadClock(t)
    BY <2>1, <2>2 DEF ReadClock, Quiet
  <2>3. CASE Compare(t)
    BY <2>1, <2>3 DEF Compare, Quiet
  <2>4. CASE LoadIndex(t)
    BY <2>1, <2>4 DEF LoadIndex, Quiet
  <2>5. CASE StoreIndex(t)
    <3>1. Quiet
      BY <2>1, <2>5 DEF StoreIndex, Quiet
    <3>2. \A u \in Threads : u # t => pc'[u] = "outside"
      BY <2>1, <2>5 DEF StoreIndex
    <3>3. pc'[t] = "form" /\ ~Quiet'
      BY <2>5 DEF StoreIndex, Quiet
    <3>4. myMs[t] = theLastMs /\ loaded[t] = theIndex
      BY <2>5 DEF StoreIndex, LocalInv
    <3>5. \A i \in 1..Len(issued) : AtMost(issued[i], Latest)
      BY <3>1
    <3>6. \A i \in 1..Len(issued) : Below(issued'[i], Coming(t)')
      <4>1. /\ issued' = issued /\ theIndex \in Nat
            /\ Coming(t)' = [ms |-> theLastMs, index |-> theIndex + 1]
        BY <2>5, <3>4 DEF StoreIndex
      <4>2. ASSUME NEW i \in 1..Len(issued)
            PROVE  Below(issued[i], [ms |-> theLastMs, index |-> theIndex + 1])
        BY <3>5, <4>1, IssuedType, AtMostNext
      <4>3. QED
        BY <4>1, <4>2
    <3>7. QED
      BY <2>5, <3>2, <3>3, <3>6 DEF StoreIndex
  <2>6. CASE ResetIndex(t)
    <3>1. Quiet
      BY <2>1, <2>6 DEF ResetIndex, Quiet
    <3>2. \A u \in Threads : u # t => pc'[u] = "outside"
      BY <2>1, <2>6 DEF ResetIndex
    <3>3. pc'[t] = "form" /\ ~Quiet'
      BY <2>6 DEF ResetIndex, Quiet
    <3>4. theLastMs < myMs[t]
      <4>1. pc[t] = "reset" /\ myMs[t] \in Nat
        BY <2>6 DEF ResetIndex
      <4>2. myMs[t] # theLastMs
        BY <4>1 DEF LocalInv
      <4>3. theLastMs <= myMs[t]
        BY <4>1 DEF ClockInv
      <4>4. QED
        BY <4>1, <4>2, <4>3
    <3>5. \A i \in 1..Len(issued) : AtMost(issued[i], Latest)
      BY <3>1
    <3>6. \A i \in 1..Len(issued) : Below(issued'[i], Coming(t)')
      <4>1. Coming(t)' = [ms |-> myMs[t], index |-> 0] /\ issued' = issued
        BY <2>6 DEF ResetIndex
      <4>2. \A i \in 1..Len(issued) : issued[i].ms \in Nat /\ issued[i].ms <= theLastMs
        BY <3>5, IssuedType, AtMostMs
      <4>3. \A i \in 1..Len(issued) : issued[i].ms < myMs[t]
        BY <3>4, <4>2
      <4>4. QED
        BY <4>1, <4>3 DEF Below
    <3>7. QED
      BY <2>6, <3>2, <3>3, <3>6 DEF ResetIndex
  <2>7. CASE FormId(t)
    BY <2>1, <2>7 DEF FormId, Quiet
  <2>8. CASE StoreLastMs(t)
    <3>1. \A u \in Threads : pc'[u] \notin {"form", "last"}
      BY <2>1, <2>8 DEF StoreLastMs
    <3>2. myId[t] = Latest'
      BY <2>8 DEF StoreLastMs, LocalInv
    <3>3. \A i \in 1..Len(issued) : Below(issued[i], Latest')
      BY <2>8, <3>2 DEF StoreLastMs, LocalInv
    <3>4. \A i \in 1..Len(issued') : AtMost(issued'[i], Latest')
      <4>1. \A i \in 1..Len(issued') :
               issued'[i] = IF i = Len(issued) + 1 THEN myId[t] ELSE issued[i]
        BY <2>8 DEF StoreLastMs
      <4>2. \A i \in 1..Len(issued') : i = Len(issued) + 1 \/ i \in 1..Len(issued)
        BY <2>8 DEF StoreLastMs
      <4>3. QED
        BY <3>2, <3>3, <4>1, <4>2 DEF AtMost
    <3>5. QED
      BY <3>1, <3>4
  <2>9. QED
    BY <1>2, <2>2, <2>3, <2>4, <2>5, <2>6, <2>7, <2>8 DEF GetUniqueId
<1>3. ASSUME NEW t \in Threads, Leave(t) PROVE OrderInv'
  BY <1>3 DEF Leave, Quiet
<1>4. CASE Tick \/ StepBack \/ UNCHANGED vars
  BY <1>4 DEF Tick, StepBack, vars, Quiet
<1>5. QED
  BY <1>1, <1>2, <1>3, <1>4 DEF Next

-----------------------------------------------------------------------------

\* An id that is issued is above all the ids issued before.
LEMMA IssuedGrowStep ==
    ASSUME TypeOK, LocalInv, OrderInv, IssuedGrow, [Next]_vars
    PROVE  IssuedGrow'
<1>1. ASSUME NEW i \in 1..Len(issued'), NEW j \in 1..Len(issued'), i < j
      PROVE  Below(issued'[i], issued'[j])
  <2>1. CASE UNCHANGED issued
    BY <1>1, <2>1 DEF IssuedGrow
  <2>2. ASSUME NEW t \in Threads, StoreLastMs(t),
               Len(issued') = Len(issued) + 1,
               issued'[Len(issued)+1] = myId[t],
               \A k \in 1..Len(issued) : issued'[k] = issued[k]
        PROVE  Below(issued'[i], issued'[j])
    <3>1. Len(issued) \in Nat
      BY DEF TypeOK
    <3>2. i \in 1..Len(issued) /\ (j \in 1..Len(issued) \/ j = Len(issued) + 1)
      BY <1>1, <2>2, <3>1
    <3>3. CASE j \in 1..Len(issued)
      BY <1>1, <2>2, <3>2, <3>3 DEF IssuedGrow
    <3>4. CASE j = Len(issued) + 1
      <4>1. pc[t] = "last" /\ myId[t] = Coming(t)
        BY <2>2 DEF StoreLastMs, Goto, LocalInv
      <4>2. Below(issued[i], Coming(t))
        BY <3>2, <4>1 DEF OrderInv
      <4>3. QED
        BY <2>2, <3>2, <3>4, <4>1, <4>2
    <3>5. QED
      BY <3>2, <3>3, <3>4
  <2>3. QED
    BY <2>1, <2>2, IssuedStep
<1>2. QED
  BY <1>1 DEF IssuedGrow

LEMMA GrowStep ==
    ASSUME OneWrapper, TypeOK, GrowInv, [Next]_vars
    PROVE  GrowInv'
<1>1. InsideHoldsLock' /\ LocalInv'
  BY LocalStep DEF GrowInv
<1>2. ASSUME ~steppedBack' PROVE ClockInv' /\ OrderInv' /\ IssuedGrow'
  <2>1. ~steppedBack
    BY <1>2 DEF TypeOK, Next, vars, Enter, GetUniqueId, ReadClock, Compare,
                LoadIndex, StoreIndex, ResetIndex, FormId, StoreLastMs, Leave,
                Tick, StepBack, time
  <2>2. QED
    BY <1>2, <2>1, ClockStep, OrderStep, IssuedGrowStep DEF GrowInv
<1>3. QED
  BY <1>1, <1>2 DEF GrowInv

LEMMA InitGrow == Init => GrowInv
BY DEF Init, GrowInv, InsideHoldsLock, LocalInv, ClockInv, OrderInv, IssuedGrow

LEMMA GrowImpliesUnique == TypeOK /\ GrowInv => IdsUnique
<1> SUFFICES ASSUME TypeOK, GrowInv, ~steppedBack,
                    NEW i \in 1..Len(issued), NEW j \in 1..Len(issued),
                    issued[i] = issued[j]
             PROVE  i = j
  BY DEF IdsUnique
<1>1. ~ Below(issued[i], issued[j])
  <2>1. issued[i].ms \in Nat /\ issued[i].index \in Nat
    BY IssuedType DEF Id
  <2>2. QED
    BY <2>1 DEF Below
<1>2. ~ Below(issued[j], issued[i])
  BY <1>1
<1>3. QED
  BY <1>1, <1>2 DEF GrowInv, IssuedGrow, TypeOK

\* As long as every thread of the JVM calls through one wrapper, the ids of
\* UniqueIdGenerator.getUniqueId (l.5-14) are unique until the wall clock is
\* set back, however many threads and calls there are: the monitor of
\* XmlRpcClientWrapper.execute serialises the generator.
THEOREM SharedWrapperIdsUnique ==
    ASSUME OneWrapper PROVE Spec => []IdsUnique
<1>1. TypeOK /\ GrowInv /\ [Next]_vars => GrowInv'
  BY GrowStep
<1>2. QED
  BY <1>1, InitGrow, GrowImpliesUnique, TypeCorrect, PTL DEF Spec

-----------------------------------------------------------------------------

\* LastInv speaks of the last id only, so it does not need the clock.
LEMMA LastStep ==
    ASSUME OneWrapper, TypeOK, InsideHoldsLock, LocalInv, LastInv, [Next]_vars
    PROVE  LastInv'
<1> USE UniqueIdsAssumption DEF TypeOK, Goto, shared, time, LastInv, Latest, Coming
<1>1. ASSUME NEW t \in Threads, Enter(t) PROVE LastInv'
  BY <1>1 DEF Enter, Quiet
<1>2. ASSUME NEW t \in Threads, GetUniqueId(t) PROVE LastInv'
  <2>1. \A u \in Threads : pc[u] # "outside" => u = t
    BY <1>2, OneInside
       DEF GetUniqueId, ReadClock, Compare, LoadIndex, StoreIndex, ResetIndex,
           FormId, StoreLastMs
  <2>2. CASE ReadClock(t)
    BY <2>1, <2>2 DEF ReadClock, Quiet
  <2>3. CASE Compare(t)
    BY <2>1, <2>3 DEF Compare, Quiet
  <2>4. CASE LoadIndex(t)
    BY <2>1, <2>4 DEF LoadIndex, Quiet
  <2>5. CASE StoreIndex(t)
    <3>1. Quiet
      BY <2>1, <2>5 DEF StoreIndex, Quiet
    <3>2. \A u \in Threads : u # t => pc'[u] = "outside"
      BY <2>1, <2>5 DEF StoreIndex
    <3>3. pc'[t] = "form" /\ ~Quiet' /\ issued' = issued
      BY <2>5 DEF StoreIndex, Quiet
    <3>4. theIndex' = theIndex + 1
      BY <2>5 DEF StoreIndex, LocalInv
    <3>5. Len(issued) > 0 => issued[Len(issued)].index # theIndex'
      BY <3>1, <3>4
    <3>6. QED
      BY <2>5, <3>2, <3>3, <3>5 DEF StoreIndex
  <2>6. CASE ResetIndex(t)
    <3>1. Quiet
      BY <2>1, <2>6 DEF ResetIndex, Quiet
    <3>2. \A u \in Threads : u # t => pc'[u] = "outside"
      BY <2>1, <2>6 DEF ResetIndex
    <3>3. pc'[t] = "form" /\ ~Quiet' /\ issued' = issued /\ myMs' = myMs
      BY <2>6 DEF ResetIndex, Quiet
    <3>4. myMs[t] # theLastMs
      BY <2>6 DEF ResetIndex, LocalInv
    <3>5. Len(issued) > 0 => issued[Len(issued)].ms # myMs[t]
      BY <3>1, <3>4
    <3>6. QED
      BY <3>2, <3>3, <3>5
  <2>7. CASE FormId(t)
    BY <2>1, <2>7 DEF FormId, Quiet
  <2>8. CASE StoreLastMs(t)
    <3>1. \A u \in Threads : pc'[u] \notin {"form", "last"}
      BY <2>1, <2>8 DEF StoreLastMs
    <3>2. myId[t] = Latest'
      BY <2>8 DEF StoreLastMs, LocalInv
    <3>3. issued'[Len(issued')] = myId[t]
      BY <2>8 DEF StoreLastMs
    <3>4. QED
      BY <3>1, <3>2, <3>3
  <2>9. QED
    BY <1>2, <2>2, <2>3, <2>4, <2>5, <2>6, <2>7, <2>8 DEF GetUniqueId
<1>3. ASSUME NEW t \in Threads, Leave(t) PROVE LastInv'
  BY <1>3 DEF Leave, Quiet
<1>4. CASE Tick \/ StepBack \/ UNCHANGED vars
  BY <1>4 DEF Tick, StepBack, vars, Quiet
<1>5. QED
  BY <1>1, <1>2, <1>3, <1>4 DEF Next

LEMMA DifferStep ==
    ASSUME OneWrapper, TypeOK, DifferInv, [Next]_vars
    PROVE  DifferInv'
<1>1. InsideHoldsLock' /\ LocalInv'
  BY LocalStep DEF DifferInv
<1>2. LastInv'
  BY LastStep DEF DifferInv
<1>3. ASSUME NEW i \in 1..Len(issued') - 1 PROVE issued'[i] # issued'[i + 1]
  <2>1. CASE UNCHANGED issued
    BY <1>3, <2>1 DEF DifferInv, ConsecutiveIdsDiffer
  <2>2. ASSUME NEW t \in Threads, StoreLastMs(t),
               Len(issued') = Len(issued) + 1,
               issued'[Len(issued)+1] = myId[t],
               \A k \in 1..Len(issued) : issued'[k] = issued[k]
        PROVE  issued'[i] # issued'[i + 1]
    <3>1. Len(issued) \in Nat
      BY DEF TypeOK
    <3>2. i \in 1..Len(issued)
      BY <1>3, <2>2, <3>1
    <3>3. CASE i < Len(issued)
      <4>1. i \in 1..Len(issued) - 1 /\ i + 1 \in 1..Len(issued)
        BY <3>1, <3>2, <3>3
      <4>2. QED
        BY <2>2, <3>2, <4>1 DEF DifferInv, ConsecutiveIdsDiffer
    <3>4. CASE i = Len(issued)
      <4>1. pc[t] = "last" /\ myId[t] = Coming(t)
        BY <2>2 DEF StoreLastMs, Goto, DifferInv, LocalInv
      <4>2. issued[Len(issued)] # Coming(t)
        BY <3>1, <3>2, <3>4, <4>1 DEF DifferInv, LastInv
      <4>3. QED
        BY <2>2, <3>2, <3>4, <4>1, <4>2
    <3>5. QED
      BY <3>1, <3>2, <3>3, <3>4
  <2>3. QED
    BY <2>1, <2>2, IssuedStep
<1>4. QED
  BY <1>1, <1>2, <1>3 DEF DifferInv, ConsecutiveIdsDiffer

LEMMA InitDiffer == Init => DifferInv
BY DEF Init, DifferInv, InsideHoldsLock, LocalInv, LastInv, ConsecutiveIdsDiffer

\* As long as every thread of the JVM calls through one wrapper, two calls in
\* a row never get the same id from UniqueIdGenerator.getUniqueId (l.5-14),
\* even when the wall clock is set back at any point.
THEOREM SharedWrapperConsecutiveIdsDiffer ==
    ASSUME OneWrapper PROVE Spec => []ConsecutiveIdsDiffer
<1>1. TypeOK /\ DifferInv /\ [Next]_vars => DifferInv'
  BY DifferStep
<1>2. DifferInv => ConsecutiveIdsDiffer
  BY DEF DifferInv
<1>3. QED
  BY <1>1, <1>2, InitDiffer, TypeCorrect, PTL DEF Spec

=============================================================================

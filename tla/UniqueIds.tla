------------------------------ MODULE UniqueIds ------------------------------
(***************************************************************************)
(* UniqueIdGenerator.getUniqueId (XmppXmlRpcExample), the static method    *)
(* every XML-RPC client of a JVM takes its packet ids from, and the lock   *)
(* of XmlRpcClientWrapper.execute under which a client calls it.           *)
(*                                                                         *)
(* The method reads and writes two static fields without a lock of its     *)
(* own, so each access to shared memory is an action: the clock is read,   *)
(* theLastMs is compared, theIndex is loaded and stored (theIndex++ is not *)
(* atomic) or reset, read again to form the id, and theLastMs is stored.   *)
(* Two threads that hold the locks of different wrappers interleave these  *)
(* actions freely.                                                         *)
(***************************************************************************)
EXTENDS Integers, Sequences

CONSTANTS
    Threads,        \* threads that call execute
    Wrappers,       \* XmlRpcClientWrapper instances of the JVM
    WrapperOf,      \* the wrapper each thread calls
    NoThread,       \* an unlocked wrapper
    MaxClock,       \* BOUND: the clock stops at this millisecond
    MaxCalls        \* BOUND: calls of execute per thread

ASSUME UniqueIdsAssumption ==
    /\ WrapperOf \in [Threads -> Wrappers]
    /\ NoThread \notin Threads
    /\ MaxClock \in Nat
    /\ MaxCalls \in Nat

VARIABLES
    clock,          \* System.currentTimeMillis()
    steppedBack,    \* history: the clock has been set back
    theIndex,       \* static int theIndex
    theLastMs,      \* static long theLastMs
    lock,           \* lock[w]: the thread inside execute of wrapper w
    pc,             \* where each thread is in getUniqueId
    myMs,           \* local long myMs
    loaded,         \* operand of the unfinished theIndex++
    myId,           \* local String myId, as its two parts that vary
    calls,          \* calls each thread has begun
    issued          \* history: the ids returned so far, in that order

shared == <<theIndex, theLastMs>>
time == <<clock, steppedBack>>
vars == <<clock, steppedBack, theIndex, theLastMs, lock, pc, myMs, loaded, myId,
          calls, issued>>

\* "theHost + . + myMs + . + theIndex"; theHost is the empty string in every
\* JVM, so an id is told apart by the other two parts only.
Id == [ms : Nat, index : Nat]

PC == {"outside", "clock", "compare", "load", "store", "reset", "form",
       "last", "holding"}

TypeOK ==
    /\ clock \in Nat
    /\ steppedBack \in BOOLEAN
    /\ theIndex \in Nat
    /\ theLastMs \in Nat
    /\ lock \in [Wrappers -> Threads \cup {NoThread}]
    /\ pc \in [Threads -> PC]
    /\ myMs \in [Threads -> Nat]
    /\ loaded \in [Threads -> Nat]
    /\ myId \in [Threads -> Id]
    /\ calls \in [Threads -> Nat]
    /\ issued \in Seq(Id)

\* The statics start at 0; the clock is far from 0 when the class is loaded.
Init ==
    /\ clock = 1
    /\ steppedBack = FALSE
    /\ theIndex = 0
    /\ theLastMs = 0
    /\ lock = [w \in Wrappers |-> NoThread]
    /\ pc = [t \in Threads |-> "outside"]
    /\ myMs = [t \in Threads |-> 0]
    /\ loaded = [t \in Threads |-> 0]
    /\ myId = [t \in Threads |-> [ms |-> 0, index |-> 0]]
    /\ calls = [t \in Threads |-> 0]
    /\ issued = << >>

Goto(t, from, to) == pc[t] = from /\ pc' = [pc EXCEPT ![t] = to]

\* Mutant of Enter: execute is not synchronized.
Enter_NotSynchronized(t) ==
    /\ Goto(t, "outside", "clock")
    /\ calls[t] < MaxCalls
    /\ lock' = [lock EXCEPT ![WrapperOf[t]] = t]
    /\ calls' = [calls EXCEPT ![t] = @ + 1]
    /\ UNCHANGED <<time, shared, myMs, loaded, myId, issued>>

\* public synchronized Object execute: take the wrapper's monitor.
Enter(t) ==
    /\ Goto(t, "outside", "clock")
    /\ lock[WrapperOf[t]] = NoThread
    /\ calls[t] < MaxCalls
    /\ lock' = [lock EXCEPT ![WrapperOf[t]] = t]
    /\ calls' = [calls EXCEPT ![t] = @ + 1]
    /\ UNCHANGED <<time, shared, myMs, loaded, myId, issued>>

\* long myMs = System.currentTimeMillis();
ReadClock(t) ==
    /\ Goto(t, "clock", "compare")
    /\ myMs' = [myMs EXCEPT ![t] = clock]
    /\ UNCHANGED <<time, shared, lock, loaded, myId, calls, issued>>

\* if (myMs == theLastMs) theIndex++; else theIndex = 0;
Compare(t) ==
    /\ \/ myMs[t] = theLastMs /\ Goto(t, "compare", "load")
       \/ myMs[t] # theLastMs /\ Goto(t, "compare", "reset")
    /\ UNCHANGED <<time, shared, lock, myMs, loaded, myId, calls, issued>>

LoadIndex(t) ==
    /\ Goto(t, "load", "store")
    /\ loaded' = [loaded EXCEPT ![t] = theIndex]
    /\ UNCHANGED <<time, shared, lock, myMs, myId, calls, issued>>

StoreIndex(t) ==
    /\ Goto(t, "store", "form")
    /\ theIndex' = loaded[t] + 1
    /\ UNCHANGED <<time, theLastMs, lock, myMs, loaded, myId, calls, issued>>

ResetIndex(t) ==
    /\ Goto(t, "reset", "form")
    /\ theIndex' = 0
    /\ UNCHANGED <<time, theLastMs, lock, myMs, loaded, myId, calls, issued>>

\* String myId = theHost + "." + myMs + "." + theIndex;
FormId(t) ==
    /\ Goto(t, "form", "last")
    /\ myId' = [myId EXCEPT ![t] = [ms |-> myMs[t], index |-> theIndex]]
    /\ UNCHANGED <<time, shared, lock, myMs, loaded, calls, issued>>

\* Mutant of StoreLastMs: theLastMs is not updated.
StoreLastMs_NotStored(t) ==
    /\ Goto(t, "last", "holding")
    /\ issued' = Append(issued, myId[t])
    /\ UNCHANGED <<time, shared, lock, myMs, loaded, myId, calls>>

\* theLastMs = myMs; return myId;
StoreLastMs(t) ==
    /\ Goto(t, "last", "holding")
    /\ theLastMs' = myMs[t]
    /\ issued' = Append(issued, myId[t])
    /\ UNCHANGED <<time, theIndex, lock, myMs, loaded, myId, calls>>

\* The rest of execute, up to the release of the monitor.
Leave(t) ==
    /\ Goto(t, "holding", "outside")
    /\ lock' = [lock EXCEPT ![WrapperOf[t]] = NoThread]
    /\ UNCHANGED <<time, shared, myMs, loaded, myId, calls, issued>>

GetUniqueId(t) ==
    \/ ReadClock(t) \/ Compare(t) \/ LoadIndex(t) \/ StoreIndex(t)
    \/ ResetIndex(t) \/ FormId(t) \/ StoreLastMs(t)

\* The operating system's clock, outside the program.
Tick ==
    /\ clock < MaxClock
    /\ clock' = clock + 1
    /\ UNCHANGED <<steppedBack, shared, lock, pc, myMs, loaded, myId, calls,
                   issued>>

StepBack ==
    /\ clock > 1
    /\ clock' = clock - 1
    /\ steppedBack' = TRUE
    /\ UNCHANGED <<shared, lock, pc, myMs, loaded, myId, calls, issued>>

Next ==
    \/ \E t \in Threads : Enter(t) \/ GetUniqueId(t) \/ Leave(t)
    \/ Tick
    \/ StepBack

Spec == Init /\ [][Next]_vars

-----------------------------------------------------------------------------
(* What the generator is for: response queues are found by packet id, so   *)
(* two calls with one id can take each other's answer.                     *)

\* Until the wall clock is set back, no two calls are ever given the same id:
\* the ids that UniqueIdGenerator.getUniqueId returns (l.5-14) are unique in
\* the JVM.
IdsUnique ==
    ~steppedBack =>
        \A i, j \in 1..Len(issued) : issued[i] = issued[j] => i = j

\* Two calls in a row never get the same id, not even when the wall clock is
\* set back between them: theLastMs = myMs (l.11) makes the second of them
\* either count up or carry another millisecond.
ConsecutiveIdsDiffer ==
    \A i \in 1..Len(issued) - 1 : issued[i] # issued[i + 1]

-----------------------------------------------------------------------------
(* When and why the ids are unique: the assumption and the inductive        *)
(* invariants of the proofs in UniqueIds_proofs.                            *)

\* The threads of the JVM all call one wrapper, so its monitor serialises
\* every call of getUniqueId.
OneWrapper == \A t, u \in Threads : WrapperOf[t] = WrapperOf[u]

Below(a, b) == a.ms < b.ms \/ (a.ms = b.ms /\ a.index < b.index)
AtMost(a, b) == a = b \/ Below(a, b)

\* The id the static fields stand for between two calls.
Latest == [ms |-> theLastMs, index |-> theIndex]

\* The id a thread that has settled theIndex is about to form.
Coming(t) == [ms |-> myMs[t], index |-> theIndex]

\* A thread inside execute holds the monitor of its wrapper.
InsideHoldsLock ==
    \A t \in Threads : pc[t] # "outside" => lock[WrapperOf[t]] = t

\* No thread is between settling theIndex and storing theLastMs.
Quiet == \A t \in Threads : pc[t] \notin {"form", "last"}

\* What a thread knows at each point of getUniqueId: the branch it took, that
\* nobody has moved theIndex under its theIndex++, and that its id is the one
\* the static fields now hold.
LocalInv ==
    \A t \in Threads :
        /\ pc[t] \in {"load", "store"} => myMs[t] = theLastMs
        /\ pc[t] = "store" => loaded[t] = theIndex
        /\ pc[t] = "reset" => myMs[t] # theLastMs
        /\ pc[t] = "last" => myId[t] = Coming(t)

\* With a clock that has never gone back, the milliseconds only grow.
ClockInv ==
    /\ theLastMs <= clock
    /\ \A t \in Threads :
          pc[t] \notin {"outside", "clock"} =>
              theLastMs <= myMs[t] /\ myMs[t] <= clock

\* Every id issued is at most the one the static fields stand for, and below
\* the one that is being formed.
OrderInv ==
    \A i \in 1..Len(issued) :
        /\ Quiet => AtMost(issued[i], Latest)
        /\ \A t \in Threads :
              pc[t] \in {"form", "last"} => Below(issued[i], Coming(t))

IssuedGrow ==
    \A i, j \in 1..Len(issued) : i < j => Below(issued[i], issued[j])

\* The inductive invariant behind IdsUnique: the issued ids grow.
GrowInv == /\ InsideHoldsLock
           /\ LocalInv
           /\ ~steppedBack => ClockInv /\ OrderInv /\ IssuedGrow

\* The last id issued is the one the static fields stand for, and not the
\* one that is being formed.
LastInv ==
    Len(issued) > 0 =>
        /\ Quiet => issued[Len(issued)] = Latest
        /\ \A t \in Threads :
              pc[t] \in {"form", "last"} => issued[Len(issued)] # Coming(t)

\* The inductive invariant behind ConsecutiveIdsDiffer.
DifferInv == /\ InsideHoldsLock
             /\ LocalInv
             /\ LastInv
             /\ ConsecutiveIdsDiffer

=============================================================================

-------------------------- MODULE PoolClientsProofs --------------------------
(***************************************************************************)
(* For every pool size and every set of client threads: the free list and  *)
(* the counter agree, and every context is free or under one lease.        *)
(***************************************************************************)
EXTENDS PoolClients, EnginePoolProofs

\* A thread inside acquire() holds nothing, so the lease it is given does
\* not overwrite another.
AsksEmptyHanded == \A t \in Threads : pc[t] = "acquire" => lease[t] = NoContext

IInv == TypeOK /\ CountMatchesFreeList /\ AsksEmptyHanded /\ OneLeasePerContext

LEMMA NoContextIsNone == NoContext \notin Contexts
  BY SizeAssumption DEF NoContext, Contexts

LEMMA InitIInv == Init => IInv
<1>. SUFFICES ASSUME Init PROVE IInv
  OBVIOUS
<1>1. PoolInv
  BY PoolInitially DEF Init
<1>2. TypeOK /\ CountMatchesFreeList
  BY <1>1 DEF Init, TypeOK, PoolInv
<1>3. AsksEmptyHanded /\ OneLeasePerContext
  BY NoContextIsNone DEF Init, PoolInit, AsksEmptyHanded, OneLeasePerContext
<1>. QED
  BY <1>2, <1>3 DEF IInv

LEMMA NextIInv == IInv /\ [Next]_vars => IInv'
<1>. SUFFICES ASSUME IInv, [Next]_vars PROVE IInv'
  OBVIOUS
<1>. USE NoContextIsNone
<1>0. PoolInv /\ poolWaiters \in SUBSET Threads
  BY DEF IInv, PoolInv, TypeOK, PoolTypeOK
<1>1. ASSUME NEW t \in Threads, CallAcquire(t) PROVE IInv'
  BY <1>1 DEF CallAcquire, Goto, IInv, TypeOK, PoolTypeOK,
     CountMatchesFreeList, AsksEmptyHanded, OneLeasePerContext
<1>2. ASSUME NEW t \in Threads, Acquire(t) PROVE IInv'
  <2>1. PICK i \in Contexts : Take(i) /\ lease' = [lease EXCEPT ![t] = i]
    BY <1>2 DEF Acquire
  <2>2. /\ pc[t] = "acquire" /\ lease[t] = NoContext
        /\ pc' = [pc EXCEPT ![t] = "idle"] /\ poolWaiters' = poolWaiters
    BY <1>2 DEF Acquire, Goto, IInv, AsksEmptyHanded
  <2>3. PoolInv' /\ i \in free /\ free' = free \ {i}
    BY <1>0, <2>1, <2>2, TakePreserves DEF Take
  <2>4. TypeOK' /\ CountMatchesFreeList' /\ AsksEmptyHanded'
    BY <2>1, <2>2, <2>3 DEF IInv, TypeOK, PoolInv, AsksEmptyHanded
  <2>5. OneLeasePerContext'
    BY <2>1, <2>2, <2>3 DEF IInv, TypeOK, OneLeasePerContext
  <2>. QED
    BY <2>4, <2>5 DEF IInv
<1>3. ASSUME NEW t \in Threads, Sleep(t) PROVE IInv'
  BY <1>3 DEF Sleep, AwaitContext, IInv, TypeOK, PoolTypeOK,
     CountMatchesFreeList, AsksEmptyHanded, OneLeasePerContext
<1>4. ASSUME NEW t \in Threads, TryAcquire(t) PROVE IInv'
  <2>1. PICK i \in Contexts : Take(i) /\ lease' = [lease EXCEPT ![t] = i]
    BY <1>4 DEF TryAcquire
  <2>2. /\ pc[t] = "idle" /\ lease[t] = NoContext
        /\ pc' = pc /\ poolWaiters' = poolWaiters
    BY <1>4 DEF TryAcquire
  <2>3. PoolInv' /\ i \in free /\ free' = free \ {i}
    BY <1>0, <2>1, <2>2, TakePreserves DEF Take
  <2>4. TypeOK' /\ CountMatchesFreeList' /\ AsksEmptyHanded'
    BY <2>1, <2>2, <2>3 DEF IInv, TypeOK, PoolInv, AsksEmptyHanded
  <2>5. OneLeasePerContext'
    BY <2>1, <2>2, <2>3 DEF IInv, TypeOK, OneLeasePerContext
  <2>. QED
    BY <2>4, <2>5 DEF IInv
<1>5. ASSUME NEW t \in Threads, Release(t) PROVE IInv'
  <2>1. /\ lease[t] \in Contexts /\ GiveBack(lease[t])
        /\ lease' = [lease EXCEPT ![t] = NoContext]
        /\ pc' = [pc EXCEPT ![t] = "notify"] /\ poolWaiters' = poolWaiters
    BY <1>5 DEF Release, Goto, IInv, TypeOK
  <2>2. PoolInv' /\ free' = free \cup {lease[t]}
    BY <1>0, <2>1, GiveBackPreserves DEF GiveBack
  <2>3. TypeOK' /\ CountMatchesFreeList' /\ AsksEmptyHanded'
    BY <2>1, <2>2 DEF IInv, TypeOK, PoolInv, AsksEmptyHanded
  <2>4. OneLeasePerContext'
    BY <2>1, <2>2 DEF IInv, TypeOK, OneLeasePerContext
  <2>. QED
    BY <2>3, <2>4 DEF IInv
<1>6. ASSUME NEW t \in Threads, NEW u \in Threads, MoveLease(t, u)
      PROVE IInv'
  <2>1. /\ t # u /\ pc[t] = "idle" /\ pc[u] = "idle"
        /\ lease[t] \in Contexts /\ poolWaiters' = poolWaiters
        /\ lease' = [lease EXCEPT ![t] = NoContext, ![u] = lease[t]]
    BY <1>6 DEF MoveLease, IInv, TypeOK
  <2>2. CASE lease[u] = NoContext /\ UNCHANGED <<free, in_use, pc>>
    BY <2>1, <2>2 DEF IInv, TypeOK, PoolTypeOK, CountMatchesFreeList,
       AsksEmptyHanded, OneLeasePerContext
  <2>3. CASE lease[u] # NoContext /\ GiveBack(lease[u]) /\ Goto(t, "notify")
    <3>1. lease[u] \in Contexts
      BY <2>3 DEF IInv, TypeOK
    <3>2. PoolInv' /\ free' = free \cup {lease[u]}
      BY <1>0, <2>1, <2>3, <3>1, GiveBackPreserves DEF GiveBack
    <3>3. TypeOK' /\ CountMatchesFreeList' /\ AsksEmptyHanded'
      BY <2>1, <2>3, <3>2 DEF IInv, TypeOK, PoolInv, AsksEmptyHanded, Goto
    <3>4. OneLeasePerContext'
      BY <2>1, <2>3, <3>1, <3>2 DEF IInv, TypeOK, OneLeasePerContext
    <3>. QED
      BY <3>3, <3>4 DEF IInv
  <2>. QED
    BY <1>6, <2>2, <2>3 DEF MoveLease
<1>7. ASSUME NEW t \in Threads, Notify(t) PROVE IInv'
  BY <1>7 DEF Notify, NotifyOne, Goto, IInv, TypeOK, PoolTypeOK,
     CountMatchesFreeList, AsksEmptyHanded, OneLeasePerContext
<1>8. ASSUME NEW t \in Threads, SpuriousWakeup(t) PROVE IInv'
  BY <1>8 DEF SpuriousWakeup, IInv, TypeOK, PoolTypeOK,
     CountMatchesFreeList, AsksEmptyHanded, OneLeasePerContext
<1>9. CASE UNCHANGED vars
  BY <1>9 DEF vars, IInv, TypeOK, PoolTypeOK,
     CountMatchesFreeList, AsksEmptyHanded, OneLeasePerContext
<1>. QED
  BY <1>1, <1>2, <1>3, <1>4, <1>5, <1>6, <1>7, <1>8, <1>9 DEF Next

\* The free list and the in-use count never part, so acquire() never throws
\* "free-list and in-use count disagree".
THEOREM CountIsRight == Spec => []CountMatchesFreeList
  BY InitIInv, NextIInv, PTL DEF Spec, IInv

\* No two threads ever lease one context, and none is lost: whatever the
\* order of blocking and non-blocking acquisition, release and move.
THEOREM LeasesAreExclusive == Spec => []OneLeasePerContext
  BY InitIInv, NextIInv, PTL DEF Spec, IInv

\* Every variable keeps its type.
THEOREM ClientTypes == Spec => []TypeOK
  BY InitIInv, NextIInv, PTL DEF Spec, IInv

-----------------------------------------------------------------------------
(* No lost wakeup.                                                         *)

\* Whoever sleeps on cv_ is in acquire().
SleepersAsk == \A t \in poolWaiters : pc[t] = "acquire"

WakeInv == IInv /\ SleepersAsk /\ NoLostWakeup

\* What a step does to the free contexts, to the attentive threads and to
\* the sleepers: nothing that hurts, or it takes a context and with it a
\* thread that was awake, or it gives one back and is about to signal, or it
\* signals and the woken thread is attentive in the signaller's place.
Harmless ==
  /\ free' \subseteq free /\ Attentive \subseteq Attentive'
  /\ poolWaiters' \subseteq poolWaiters

SleepsOnNothing == free = {} /\ free' = {}

TakesOne == \E i \in free, t \in Attentive :
  /\ free' = free \ {i} /\ Attentive' = Attentive \ {t}
  /\ UNCHANGED poolWaiters

GivesOne == \E i \in Contexts : \E t \in Threads \ Attentive :
  /\ free' = free \cup {i} /\ Attentive' = Attentive \cup {t}
  /\ UNCHANGED poolWaiters

SignalsOne == \E t \in Attentive, w \in Threads \ Attentive :
  /\ Attentive' = (Attentive \ {t}) \cup {w}
  /\ UNCHANGED free
  /\ poolWaiters # {}

NobodySleeps == poolWaiters = {} /\ poolWaiters' = {}

WakeMove ==
  \/ Harmless \/ SleepsOnNothing \/ TakesOne \/ GivesOne \/ SignalsOne
  \/ NobodySleeps

\* Counting: each kind of move keeps the sleepers covered.
LEMMA WakeMoveKeeps ==
  ASSUME IsFiniteSet(Threads), IInv, IInv', NoLostWakeup, WakeMove
  PROVE  NoLostWakeup'
<1>. DEFINE F == Cardinality(free)
            A == Cardinality(Attentive)
<1>1. /\ IsFiniteSet(free) /\ F \in Nat
      /\ IsFiniteSet(free') /\ F' \in Nat
  <2>1. free \in SUBSET Contexts /\ free' \in SUBSET Contexts
    BY DEF IInv, TypeOK, PoolTypeOK
  <2>. QED
    BY <2>1, FreeFinite, FS_CardinalityType
<1>2. /\ IsFiniteSet(Attentive) /\ A \in Nat
      /\ IsFiniteSet(Attentive') /\ A' \in Nat
  <2>1. Attentive \in SUBSET Threads /\ Attentive' \in SUBSET Threads
    BY DEF Attentive
  <2>. QED
    BY <2>1, FS_Subset, FS_CardinalityType
<1>3. poolWaiters = {} \/ F <= A
  BY DEF NoLostWakeup
<1>. HIDE DEF F, A
<1>4. CASE Harmless
  <2>1. F' <= F /\ A <= A'
    BY <1>1, <1>2, <1>4, FS_Subset DEF Harmless, F, A
  <2>. QED
    BY <1>1, <1>2, <1>3, <1>4, <2>1 DEF Harmless, NoLostWakeup, F, A
<1>5. CASE SleepsOnNothing
  <2>1. F' = 0
    BY <1>5, FS_EmptySet DEF SleepsOnNothing, F
  <2>. QED
    BY <1>2, <2>1 DEF NoLostWakeup, F, A
<1>6. CASE TakesOne
  <2>1. F' = F - 1 /\ A' = A - 1 /\ UNCHANGED poolWaiters
    BY <1>1, <1>2, <1>6, FS_RemoveElement DEF TakesOne, F, A
  <2>. QED
    BY <1>1, <1>2, <1>3, <2>1 DEF NoLostWakeup, F, A
<1>7. CASE GivesOne
  <2>1. F' <= F + 1 /\ A' = A + 1 /\ UNCHANGED poolWaiters
    BY <1>1, <1>2, <1>7, FS_AddElement DEF GivesOne, F, A
  <2>. QED
    BY <1>1, <1>2, <1>3, <2>1 DEF NoLostWakeup, F, A
<1>8. CASE SignalsOne
  <2>1. PICK t \in Attentive, w \in Threads \ Attentive :
          Attentive' = (Attentive \ {t}) \cup {w}
    BY <1>8 DEF SignalsOne
  <2>2. /\ IsFiniteSet(Attentive \ {t})
        /\ Cardinality(Attentive \ {t}) = A - 1
    BY <1>2, FS_RemoveElement DEF A
  <2>3. Cardinality((Attentive \ {t}) \cup {w}) = A - 1 + 1
    <3>1. w \notin Attentive \ {t}
      OBVIOUS
    <3>. QED
      BY <2>2, <3>1, FS_AddElement
  <2>4. A' = A
    BY <1>2, <2>1, <2>3 DEF A
  <2>5. F' = F /\ poolWaiters # {}
    BY <1>8 DEF SignalsOne, F
  <2>. QED
    BY <1>3, <2>4, <2>5 DEF NoLostWakeup, F, A
<1>9. CASE NobodySleeps
  BY <1>9 DEF NobodySleeps, NoLostWakeup
<1>. QED
  BY <1>4, <1>5, <1>6, <1>7, <1>8, <1>9 DEF WakeMove

LEMMA WakeMoves ==
  ASSUME IInv, SleepersAsk, [Next]_vars
  PROVE  WakeMove /\ SleepersAsk'
<1>. USE DEF IInv, TypeOK, PoolTypeOK, SleepersAsk, Attentive, Goto,
       WakeMove
<1>1. ASSUME NEW t \in Threads, CallAcquire(t) PROVE WakeMove /\ SleepersAsk'
  BY <1>1 DEF CallAcquire, Harmless
<1>2. ASSUME NEW t \in Threads, Acquire(t) PROVE WakeMove /\ SleepersAsk'
  <2>1. PICK i \in Contexts : Take(i)
    BY <1>2 DEF Acquire
  <2>2. i \in free /\ free' = free \ {i}
    BY <2>1 DEF Take
  <2>3. t \in Attentive /\ Attentive' = Attentive \ {t}
    BY <1>2 DEF Acquire
  <2>4. UNCHANGED poolWaiters /\ SleepersAsk'
    BY <1>2 DEF Acquire
  <2>. QED
    BY <2>2, <2>3, <2>4 DEF TakesOne
<1>3. ASSUME NEW t \in Threads, Sleep(t)
      PROVE  WakeMove /\ SleepersAsk'
  <2>1. free = {}
    BY <1>3, PredicateMeansFree DEF Sleep, AwaitContext, PoolInv
  <2>. QED
    BY <1>3, <2>1 DEF Sleep, AwaitContext, SleepsOnNothing
<1>4. ASSUME NEW t \in Threads, TryAcquire(t) PROVE WakeMove /\ SleepersAsk'
  BY <1>4 DEF TryAcquire, Take, Harmless
<1>5. ASSUME NEW t \in Threads, Release(t) PROVE WakeMove /\ SleepersAsk'
  <2>1. lease[t] \in Contexts /\ free' = free \cup {lease[t]}
    BY <1>5 DEF Release, GiveBack
  <2>2. t \in Threads \ Attentive /\ Attentive' = Attentive \cup {t}
    BY <1>5 DEF Release
  <2>3. UNCHANGED poolWaiters /\ SleepersAsk'
    BY <1>5 DEF Release
  <2>. QED
    BY <2>1, <2>2, <2>3 DEF GivesOne
<1>6. ASSUME NEW t \in Threads, NEW u \in Threads, MoveLease(t, u)
      PROVE  WakeMove /\ SleepersAsk'
  <2>1. CASE UNCHANGED <<free, pc>>
    BY <1>6, <2>1 DEF MoveLease, Harmless
  <2>2. CASE lease[u] # NoContext /\ GiveBack(lease[u]) /\ Goto(t, "notify")
    <3>1. lease[u] \in Contexts /\ free' = free \cup {lease[u]}
      BY <2>2 DEF GiveBack
    <3>2. t \in Threads \ Attentive /\ Attentive' = Attentive \cup {t}
      BY <1>6, <2>2 DEF MoveLease
    <3>3. UNCHANGED poolWaiters /\ SleepersAsk'
      BY <1>6, <2>2 DEF MoveLease
    <3>. QED
      BY <3>1, <3>2, <3>3 DEF GivesOne
  <2>. QED
    BY <1>6, <2>1, <2>2 DEF MoveLease
<1>7. ASSUME NEW t \in Threads, Notify(t)
      PROVE  WakeMove /\ SleepersAsk'
  <2>1. CASE poolWaiters = {} /\ UNCHANGED poolWaiters
    BY <2>1 DEF NobodySleeps
  <2>2. ASSUME NEW w \in poolWaiters, poolWaiters' = poolWaiters \ {w}
        PROVE  WakeMove /\ SleepersAsk'
    <3>1. /\ t \in Attentive /\ w \in Threads \ Attentive
          /\ Attentive' = (Attentive \ {t}) \cup {w}
      BY <1>7, <2>2 DEF Notify
    <3>2. UNCHANGED free /\ SleepersAsk'
      BY <1>7, <2>2 DEF Notify
    <3>. QED
      BY <2>2, <3>1, <3>2 DEF SignalsOne
  <2>. QED
    BY <1>7, <2>1, <2>2 DEF Notify, NotifyOne
<1>8. ASSUME NEW t \in Threads, SpuriousWakeup(t)
      PROVE  WakeMove /\ SleepersAsk'
  BY <1>8 DEF SpuriousWakeup, Harmless
<1>9. CASE UNCHANGED vars
  BY <1>9 DEF vars, Harmless
<1>. HIDE DEF IInv, TypeOK, PoolTypeOK, SleepersAsk, WakeMove
<1>. QED
  BY <1>1, <1>2, <1>3, <1>4, <1>5, <1>6, <1>7, <1>8, <1>9 DEF Next

\* No thread sleeps in acquire() beside a free context nobody is about to
\* look at or to signal, for any pool and any finite number of clients.
THEOREM WakeupsAreNotLost ==
  ASSUME IsFiniteSet(Threads)
  PROVE  Spec => []NoLostWakeup
<1>1. Init => WakeInv
  BY InitIInv DEF Init, PoolInit, WakeInv, SleepersAsk, NoLostWakeup
<1>2. WakeInv /\ [Next]_vars => WakeInv'
  BY NextIInv, WakeMoves, WakeMoveKeeps DEF WakeInv
<1>. QED
  BY <1>1, <1>2, PTL DEF Spec, WakeInv
=============================================================================

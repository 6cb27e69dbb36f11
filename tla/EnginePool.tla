----------------------------- MODULE EnginePool -----------------------------
(***************************************************************************)
(* The state of rcdl::EnginePool and what one critical section on its      *)
(* mutex mu_ does to it (src/src/backend/engine_pool.cc).  The pool owns   *)
(* Size NPU contexts; a thread that runs an inference first takes one out  *)
(* as a Lease, and the lease puts it back.  Which variable of the program  *)
(* holds a lease is the business of the modules that EXTEND this one:      *)
(* PoolClients (arbitrary clients) and AsyncDetection (the pipeline).      *)
(***************************************************************************)
EXTENDS Integers, FiniteSets

CONSTANTS Size,      \* contexts in the pool, engines_.size()
          Threads    \* threads that may call acquire()

ASSUME SizeAssumption == Size \in Nat \ {0}   \* build() requires size >= 1

VARIABLES free,         \* free_: the indices whose flag is set
          in_use,       \* in_use_, counted separately from free_
          poolWaiters   \* threads asleep in acquire(), on cv_

poolVars == <<free, in_use, poolWaiters>>

Contexts  == 0 .. (Size - 1)
NoContext == -1   \* the index_ of an empty Lease

PoolTypeOK ==
  /\ free \in SUBSET Contexts
  /\ in_use \in 0 .. Size
  /\ poolWaiters \in SUBSET Threads

PoolInit ==
  /\ free = Contexts
  /\ in_use = 0
  /\ poolWaiters = {}

\* The predicate acquire() sleeps on.
ContextAvailable == in_use < Size

\* Seeded fault: tryAcquire() or acquire() forgets ++in_use_.
TakeUncounted(i) ==
  /\ i \in free
  /\ \A j \in free : i <= j
  /\ free' = free \ {i}
  /\ UNCHANGED in_use

\* The scan of acquire() and tryAcquire(): the lowest free index is taken.
Take(i) ==
  /\ i \in free
  /\ \A j \in free : i <= j
  /\ free' = free \ {i}
  /\ in_use' = in_use + 1

\* acquire() finds the predicate false and goes to sleep on cv_.
AwaitContext(t) ==
  /\ ~ContextAvailable
  /\ poolWaiters' = poolWaiters \cup {t}
  /\ UNCHANGED <<free, in_use>>

\* Seeded fault: give_back() takes the early return's side of the counter.
GiveBackUncounted(i) ==
  /\ free' = free \cup {i}
  /\ UNCHANGED in_use

\* give_back(): a context that is already free is left alone.  (It never is:
\* the invariants below say so.  So the notify always follows.)
GiveBack(i) ==
  /\ free' = free \cup {i}
  /\ in_use' = IF i \in free THEN in_use ELSE in_use - 1

\* Seeded fault: nobody is told.
NotifyNobody == UNCHANGED poolWaiters

\* cv_.notify_one(), a step of its own: it runs after mu_ is unlocked.
NotifyOne ==
  \/ /\ poolWaiters = {}
     /\ UNCHANGED poolWaiters
  \/ \E w \in poolWaiters : poolWaiters' = poolWaiters \ {w}

(***************************************************************************)
(* The free list and the counter agree: the wait predicate of acquire()    *)
(* reads in_use_ and the scan after it reads free_, and acquire() throws   *)
(* "free-list and in-use count disagree" if the two ever part.             *)
(***************************************************************************)
CountMatchesFreeList == in_use = Size - Cardinality(free)
=============================================================================

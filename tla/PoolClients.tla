----------------------------- MODULE PoolClients -----------------------------
(***************************************************************************)
(* EnginePool used by arbitrary clients.  Each thread owns one Lease       *)
(* variable and, in any order, acquires, tries to acquire, releases, and   *)
(* hands its lease over to another thread by move assignment -- the way    *)
(* AsyncDetectionPipeline moves a lease from its caller to a worker.  The  *)
(* one client rule assumed is that a thread asks for a context only while  *)
(* it holds none: a thread that blocks in acquire() holding the last       *)
(* context waits for itself.                                               *)
(***************************************************************************)
EXTENDS EnginePool

VARIABLES lease,   \* lease[t]: index_ of thread t's Lease, NoContext if empty
          pc       \* where thread t is: see TypeOK

vars == <<free, in_use, poolWaiters, lease, pc>>

TypeOK ==
  /\ PoolTypeOK
  /\ lease \in [Threads -> Contexts \cup {NoContext}]
  /\ pc \in [Threads -> {"idle", "acquire", "notify"}]

Init ==
  /\ PoolInit
  /\ lease = [t \in Threads |-> NoContext]
  /\ pc = [t \in Threads |-> "idle"]

Goto(t, where) == pc' = [pc EXCEPT ![t] = where]

CallAcquire(t) ==
  /\ pc[t] = "idle"
  /\ lease[t] = NoContext
  /\ Goto(t, "acquire")
  /\ UNCHANGED <<free, in_use, poolWaiters, lease>>

\* acquire() holds mu_ and its predicate is true.
Acquire(t) ==
  /\ pc[t] = "acquire"
  /\ t \notin poolWaiters
  /\ ContextAvailable
  /\ \E i \in Contexts : Take(i) /\ lease' = [lease EXCEPT ![t] = i]
  /\ Goto(t, "idle")
  /\ UNCHANGED poolWaiters

\* acquire() holds mu_ and its predicate is false.
Sleep(t) ==
  /\ pc[t] = "acquire"
  /\ t \notin poolWaiters
  /\ AwaitContext(t)
  /\ UNCHANGED <<lease, pc>>

\* tryAcquire(), which barges past whoever sleeps.  With nothing free it
\* returns an empty Lease and changes nothing.
TryAcquire(t) ==
  /\ pc[t] = "idle"
  /\ lease[t] = NoContext
  /\ \E i \in Contexts : Take(i) /\ lease' = [lease EXCEPT ![t] = i]
  /\ UNCHANGED <<poolWaiters, pc>>

\* Lease::release() or ~Lease.  On an empty lease it does nothing.
Release(t) ==
  /\ pc[t] = "idle"
  /\ lease[t] # NoContext
  /\ GiveBack(lease[t])
  /\ lease' = [lease EXCEPT ![t] = NoContext]
  /\ Goto(t, "notify")
  /\ UNCHANGED poolWaiters

\* Seeded fault: the defaulted move assignment, which overwrites index_.
MoveLeaseOverwrites(t, u) ==
  /\ t # u
  /\ pc[t] = "idle" /\ pc[u] = "idle"
  /\ lease[t] # NoContext
  /\ lease' = [lease EXCEPT ![t] = NoContext, ![u] = lease[t]]
  /\ UNCHANGED <<free, in_use, poolWaiters, pc>>

\* `lease of u = std::move(lease of t)`: what u held goes back first.
MoveLease(t, u) ==
  /\ t # u
  /\ pc[t] = "idle" /\ pc[u] = "idle"
  /\ lease[t] # NoContext
  /\ lease' = [lease EXCEPT ![t] = NoContext, ![u] = lease[t]]
  /\ \/ /\ lease[u] = NoContext
        /\ UNCHANGED <<free, in_use, pc>>
     \/ /\ lease[u] # NoContext
        /\ GiveBack(lease[u])
        /\ Goto(t, "notify")
  /\ UNCHANGED poolWaiters

\* give_back() has unlocked mu_ and signals cv_.
Notify(t) ==
  /\ pc[t] = "notify"
  /\ NotifyOne
  /\ Goto(t, "idle")
  /\ UNCHANGED <<free, in_use, lease>>

\* A condition variable may wake a sleeper nobody signalled.
SpuriousWakeup(t) ==
  /\ t \in poolWaiters
  /\ poolWaiters' = poolWaiters \ {t}
  /\ UNCHANGED <<free, in_use, lease, pc>>

Next == \E t \in Threads :
  \/ CallAcquire(t) \/ Acquire(t) \/ Sleep(t) \/ TryAcquire(t)
  \/ Release(t) \/ Notify(t) \/ SpuriousWakeup(t)
  \/ \E u \in Threads : MoveLease(t, u)

(***************************************************************************)
(* A thread inside a pool call is scheduled until the call returns, and a  *)
(* holder releases eventually: inference runs finish.  Nothing obliges a   *)
(* thread to ask for a context, to move a lease, or to wake spuriously.    *)
(***************************************************************************)
Fairness == \A t \in Threads :
  /\ WF_vars(Acquire(t) \/ Sleep(t))
  /\ WF_vars(Notify(t))
  /\ WF_vars(Release(t))

Spec == Init /\ [][Next]_vars /\ Fairness

-----------------------------------------------------------------------------

(***************************************************************************)
(* Every context is either free or named by exactly one lease: no context  *)
(* is handed to two threads (two infer() calls on one context), and none   *)
(* leaks out of circulation, whatever order of acquire, release and move   *)
(* assignment the clients choose.                                          *)
(***************************************************************************)
OneLeasePerContext == \A i \in Contexts :
  /\ i \in free <=> ~\E t \in Threads : lease[t] = i
  /\ \A t, u \in Threads : lease[t] = i /\ lease[u] = i => t = u

(***************************************************************************)
(* No lost wakeup: while a thread sleeps in acquire(), every free context  *)
(* is matched by a thread that will notify or one that is awake and about  *)
(* to look.  notify_one() is outside mu_ and tryAcquire() may take the     *)
(* context a signal was meant for, so a sleeper could otherwise be left    *)
(* behind beside an idle context.                                          *)
(***************************************************************************)
Attentive == {t \in Threads :
  pc[t] = "notify" \/ (pc[t] = "acquire" /\ t \notin poolWaiters)}

NoLostWakeup ==
  poolWaiters = {} \/ Cardinality(free) <= Cardinality(Attentive)

(***************************************************************************)
(* A blocked acquire() returns once the other threads only give back what  *)
(* they hold.  (While they keep asking it may starve: neither the mutex    *)
(* nor the condition variable is fair, and tryAcquire() barges.)           *)
(***************************************************************************)
NewDemand == \E t \in Threads :
  CallAcquire(t) \/ TryAcquire(t) \/ \E u \in Threads : MoveLease(t, u)

BlockedAcquireReturns ==
  <>[][~NewDemand]_vars
    => \A t \in Threads : pc[t] = "acquire" ~> pc[t] = "idle"
=============================================================================

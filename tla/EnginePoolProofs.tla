-------------------------- MODULE EnginePoolProofs --------------------------
(***************************************************************************)
(* What the two critical sections of EnginePool preserve, whoever runs     *)
(* them: the facts the proofs about PoolClients and AsyncDetection cite.   *)
(***************************************************************************)
EXTENDS EnginePool, FiniteSetTheorems, TLAPS

\* The part of the pool's state that its clients' proofs carry along.
PoolInv == PoolTypeOK /\ CountMatchesFreeList

LEMMA ContextsFinite ==
  /\ IsFiniteSet(Contexts)
  /\ Cardinality(Contexts) = Size
<1>1. /\ IsFiniteSet(0 .. (Size - 1))
      /\ Cardinality(0 .. (Size - 1)) =
           IF 0 > Size - 1 THEN 0 ELSE (Size - 1) - 0 + 1
  BY FS_Interval, SizeAssumption
<1>. QED
  BY <1>1, SizeAssumption DEF Contexts

LEMMA FreeFinite ==
  ASSUME NEW S \in SUBSET Contexts
  PROVE  /\ IsFiniteSet(S)
         /\ Cardinality(S) \in 0 .. Size
         /\ Cardinality(S) = Size => S = Contexts
<1>1. IsFiniteSet(S) /\ Cardinality(S) <= Size
  BY ContextsFinite, FS_Subset
<1>2. Cardinality(S) = Size => S = Contexts
  BY ContextsFinite, FS_Subset
<1>. QED
  BY <1>1, <1>2, FS_CardinalityType, SizeAssumption

LEMMA PoolInitially == PoolInit => PoolInv
  BY ContextsFinite, SizeAssumption
     DEF PoolInit, PoolInv, PoolTypeOK, CountMatchesFreeList

\* acquire() and tryAcquire() take a free context; the waiters, whose set
\* the caller's action gives, stay threads.
LEMMA TakePreserves ==
  ASSUME PoolInv, NEW i \in Contexts, Take(i), poolWaiters' \in SUBSET Threads
  PROVE  PoolInv' /\ i \in free /\ i \notin free'
<1>. DEFINE rest == free \ {i}
<1>1. free \in SUBSET Contexts /\ i \in free /\ free' = rest
  BY DEF PoolInv, PoolTypeOK, Take
<1>2. IsFiniteSet(free) /\ Cardinality(free) \in 0 .. Size
  BY <1>1, FreeFinite
<1>3. Cardinality(rest) = Cardinality(free) - 1
  BY <1>1, <1>2, FS_RemoveElement
<1>4. in_use = Size - Cardinality(free) /\ in_use' = in_use + 1
  BY DEF PoolInv, CountMatchesFreeList, Take
<1>5. Cardinality(rest) \in 0 .. Size
  BY <1>1, FreeFinite
<1>6. in_use' = Size - Cardinality(free') /\ in_use' \in 0 .. Size
  BY <1>1, <1>2, <1>3, <1>4, <1>5, SizeAssumption
<1>. QED
  BY <1>1, <1>6 DEF PoolInv, PoolTypeOK, CountMatchesFreeList

\* give_back() of any context index, free or not.
LEMMA GiveBackPreserves ==
  ASSUME PoolInv, NEW i \in Contexts, GiveBack(i),
         poolWaiters' \in SUBSET Threads
  PROVE  PoolInv' /\ i \in free'
<1>. DEFINE more == free \cup {i}
<1>1. free \in SUBSET Contexts /\ free' = more /\ more \in SUBSET Contexts
  BY DEF PoolInv, PoolTypeOK, GiveBack
<1>2. IsFiniteSet(free) /\ Cardinality(free) \in 0 .. Size
  BY <1>1, FreeFinite
<1>3. Cardinality(more) \in 0 .. Size
  BY <1>1, FreeFinite
<1>4. Cardinality(more) =
        IF i \in free THEN Cardinality(free) ELSE Cardinality(free) + 1
  BY <1>2, FS_AddElement
<1>5. /\ in_use = Size - Cardinality(free)
      /\ in_use' = IF i \in free THEN in_use ELSE in_use - 1
  BY DEF PoolInv, CountMatchesFreeList, GiveBack
<1>6. in_use' = Size - Cardinality(free') /\ in_use' \in 0 .. Size
  BY <1>1, <1>2, <1>3, <1>4, <1>5, SizeAssumption
<1>. QED
  BY <1>1, <1>6 DEF PoolInv, PoolTypeOK, CountMatchesFreeList

\* The wait predicate of acquire() is true exactly when its scan will find
\* a free context: the disagreement it throws on cannot happen.
THEOREM PredicateMeansFree == PoolInv => (ContextAvailable <=> free # {})
<1>. SUFFICES ASSUME PoolInv PROVE ContextAvailable <=> free # {}
  OBVIOUS
<1>1. free \in SUBSET Contexts /\ in_use = Size - Cardinality(free)
  BY DEF PoolInv, PoolTypeOK, CountMatchesFreeList
<1>2. IsFiniteSet(free) /\ Cardinality(free) \in 0 .. Size
  BY <1>1, FreeFinite
<1>3. Cardinality(free) = 0 <=> free = {}
  BY <1>2, FS_EmptySet
<1>. QED
  BY <1>1, <1>2, <1>3, SizeAssumption DEF ContextAvailable
=============================================================================

------------------------ MODULE AsyncDetectionProofs ------------------------
(***************************************************************************)
(* AsyncDetection for every number of contexts and every set of callers.   *)
(* First who owns what: the variables keep their types, every NPU context  *)
(* is in exactly one place, slot handles stay valid until they are given   *)
(* up, and no input tensor is used by two at once.  Then what happens to a *)
(* frame: the stream of committed frames never has a hole, every result    *)
(* carries the geometry of the frame its detections come from, the reorder *)
(* buffer stays bounded although its test is made long before its use, no  *)
(* condition variable loses a wakeup, and all of it together implements    *)
(* OrderedStream.                                                          *)
(***************************************************************************)
EXTENDS AsyncDetection, EnginePoolProofs, SequenceTheorems, WellFoundedInduction

-----------------------------------------------------------------------------
(* Ownership.                                                              *)


\* A slot holds a lease exactly while it is held or queued.
SlotsHoldLeases == \A i \in Contexts : slotLease[i] <=> slotState[i] # "free"

\* A caller that has a lease or a slot knows which.
CallersKnowTheirs == \A t \in Threads :
  HoldsLease(t) \/ HoldsSlot(t) => ctx[t] \in Contexts

\* A worker with a frame in hand has its slot queued.
WorkersHaveSlots == \A i \in Contexts :
  worker[i] \in {"infer", "park"} => slotState[i] = "queued"

Ownership == OneOwner /\ HandleIsValid /\ SlotsHoldLeases
               /\ CallersKnowTheirs /\ WorkersHaveSlots

IInv == TypeOK /\ CountMatchesFreeList /\ Ownership

-----------------------------------------------------------------------------
(* The pool's part: four actions take a context or give one back.          *)

LEMMA PoolStep ==
  ASSUME IInv, [Next]_vars
  PROVE  PoolInv'
<1>0. PoolInv /\ TypeOK /\ Ownership
  BY DEF IInv, PoolInv, TypeOK
<1>1. ASSUME NEW t \in Threads, AcquireContext(t) PROVE PoolInv'
  <2>1. PICK i \in Contexts : Take(i)
    BY <1>1, <1>0 DEF AcquireContext
  <2>2. poolWaiters' \in SUBSET Threads
    BY <1>1, <1>0 DEF AcquireContext, TypeOK, PoolTypeOK
  <2>. QED
    BY <1>0, <2>1, <2>2, TakePreserves
<1>2. ASSUME NEW t \in Threads, DropLease(t) PROVE PoolInv'
  <2>1. GiveBack(ctx[t]) /\ ctx[t] \in Contexts /\ poolWaiters' = poolWaiters
    BY <1>2, <1>0 DEF DropLease, Ownership, CallersKnowTheirs, HoldsLease
  <2>. QED
    BY <1>0, <2>1, GiveBackPreserves DEF TypeOK, PoolTypeOK
<1>3. ASSUME NEW i \in Contexts, ReturnContext(i) PROVE PoolInv'
  BY <1>0, <1>3, GiveBackPreserves DEF ReturnContext, TypeOK, PoolTypeOK
<1>4. ASSUME NEW i \in Contexts, WorkerExit(i) PROVE PoolInv'
  <2>1. poolWaiters' \in SUBSET Threads
    BY <1>0, <1>4 DEF WorkerExit, TypeOK, PoolTypeOK
  <2>2. CASE GiveBack(i)
    BY <1>0, <2>1, <2>2, GiveBackPreserves
  <2>3. CASE UNCHANGED <<free, in_use>>
    BY <1>0, <2>1, <2>3 DEF PoolInv, PoolTypeOK, CountMatchesFreeList
  <2>. QED
    BY <1>4, <2>2, <2>3 DEF WorkerExit
<1>5. ASSUME UNCHANGED <<free, in_use>>, poolWaiters' \in SUBSET Threads
      PROVE  PoolInv'
  BY <1>0, <1>5 DEF PoolInv, PoolTypeOK, CountMatchesFreeList
<1>6. poolWaiters \in SUBSET Threads
  BY <1>0 DEF PoolInv, PoolTypeOK
<1>7. ASSUME NEW t \in Threads, SubmitStep(t) PROVE PoolInv'
  BY <1>1, <1>2, <1>5, <1>6, <1>7 DEF SubmitStep, AwaitRoom, PassRoom,
     SleepInPool, AwaitContext, InstallLease, RefuseLate, Letterbox,
     LetterboxFails, CommitSlot, CommitTooLate, ReleaseSlot, NotifyPool,
     NotifyOne, poolVars
<1>8. ASSUME NEW t \in Threads, CallStart(t) \/ DrainStep(t) \/ SpuriousWakeup(t)
      PROVE  PoolInv'
  BY <1>5, <1>6, <1>8 DEF CallStart, DrainStep, SpuriousWakeup,
     CallAcquireSlot, CallNext, TryNext, Finish, AwaitResult, Next_,
     EndOfStream, Deliver, FinishNotify, PopResult, poolVars
<1>9. ASSUME NEW i \in Contexts, WorkerStep(i) \/ WorkerSpuriousWakeup(i)
      PROVE  PoolInv'
  BY <1>3, <1>4, <1>5, <1>6, <1>9 DEF WorkerStep, WorkerSpuriousWakeup,
     WorkerSleep, WorkerTake, Infer, Park, WorkerNotify, WorkerExitHeld,
     NotifyOne, poolVars
<1>10. ASSUME Shutdown \/ OwnerStep \/ UNCHANGED vars PROVE PoolInv'
  BY <1>5, <1>6, <1>10 DEF Shutdown, OwnerStep, ShutdownNotify, Join, vars,
     poolVars
<1>. QED
  BY <1>7, <1>8, <1>9, <1>10 DEF Next, CallStep, Over

-----------------------------------------------------------------------------
(* Types.                                                                  *)

LEMMA SubmitTypes ==
  ASSUME IInv, TypeOK, PoolTypeOK', NEW t \in Threads,
         SubmitStep(t)
  PROVE  TypeOK'
<1>. USE DEF TypeOK, poolVars, slotVars, streamVars, flagVars, sleepVars,
       workerVars, callerVars, callerLocals, implVars,
       NumberDrawn, Ours, Due, Goto, WorkerGoto, VacateSlot, Images, Result,
       Job, NoResult, NoJob, Ended, CallerPlaces, WorkerPlaces, NoContext,
       SignalReady, SignalRoom, PopResult, ResultReady, Awakened
<1>1. CASE AwaitRoom(t)
  BY <1>1 DEF AwaitRoom
<1>2. CASE PassRoom(t)
  BY <1>2 DEF PassRoom
<1>3. CASE SleepInPool(t)
  BY <1>3 DEF SleepInPool
<1>4. CASE AcquireContext(t)
  BY <1>4 DEF AcquireContext
<1>5. CASE InstallLease(t)
  BY <1>5 DEF InstallLease
<1>6. CASE RefuseLate(t)
  BY <1>6 DEF RefuseLate
<1>7. ASSUME NEW f \in Frames, Letterbox(t, f) PROVE TypeOK'
  BY <1>7 DEF Letterbox
<1>8. CASE LetterboxFails(t)
  BY <1>8 DEF LetterboxFails
<1>9. CASE CommitSlot(t)
  <2>1. ctx[t] \in Contexts
    BY <1>9 DEF CommitSlot, IInv, Ownership, CallersKnowTheirs, HoldsSlot
  <2>. QED
    BY <1>9, <2>1 DEF CommitSlot, IInv
<1>10. CASE CommitTooLate(t)
  BY <1>10 DEF CommitTooLate
<1>11. CASE ReleaseSlot(t)
  BY <1>11 DEF ReleaseSlot
<1>12. CASE DropLease(t)
  BY <1>12 DEF DropLease
<1>13. CASE NotifyPool(t)
  BY <1>13 DEF NotifyPool
<1>. QED
  BY <1>1, <1>2, <1>3, <1>4, <1>5, <1>6, <1>7, <1>8, <1>9, <1>10, <1>11,
     <1>12, <1>13 DEF SubmitStep

LEMMA CallerTypes ==
  ASSUME IInv, TypeOK, PoolTypeOK', NEW t \in Threads,
         CallStart(t) \/ DrainStep(t) \/ SpuriousWakeup(t)
  PROVE  TypeOK'
<1>. USE DEF TypeOK, poolVars, slotVars, streamVars, flagVars, sleepVars,
       workerVars, callerVars, callerLocals, implVars,
       NumberDrawn, Ours, Due, Goto, WorkerGoto, VacateSlot, Images, Result,
       Job, NoResult, NoJob, Ended, CallerPlaces, WorkerPlaces, NoContext,
       SignalReady, SignalRoom, PopResult, ResultReady, Awakened
<1>1. CASE CallAcquireSlot(t)
  BY <1>1 DEF CallAcquireSlot
<1>2. CASE CallNext(t)
  BY <1>2 DEF CallNext
<1>3. CASE TryNext(t)
  BY <1>3 DEF TryNext
<1>4. CASE Finish(t)
  BY <1>4 DEF Finish
<1>5. CASE AwaitResult(t)
  BY <1>5 DEF AwaitResult
<1>6. CASE Next_(t)
  BY <1>6 DEF Next_
<1>7. CASE EndOfStream(t)
  BY <1>7 DEF EndOfStream
<1>8. CASE Deliver(t)
  BY <1>8 DEF Deliver
<1>9. CASE FinishNotify(t)
  BY <1>9 DEF FinishNotify
<1>10. CASE SpuriousWakeup(t)
  BY <1>10 DEF SpuriousWakeup
<1>. QED
  BY <1>1, <1>2, <1>3, <1>4, <1>5, <1>6, <1>7, <1>8, <1>9, <1>10 DEF
     CallStart, DrainStep

LEMMA WorkerTypes ==
  ASSUME IInv, TypeOK, PoolTypeOK', NEW i \in Contexts,
         WorkerStep(i) \/ WorkerSpuriousWakeup(i)
  PROVE  TypeOK'
<1>. USE DEF TypeOK, poolVars, slotVars, streamVars, flagVars, sleepVars,
       workerVars, callerVars, callerLocals, implVars,
       NumberDrawn, Ours, Due, Goto, WorkerGoto, VacateSlot, Images, Result,
       Job, NoResult, NoJob, Ended, CallerPlaces, WorkerPlaces, NoContext,
       SignalReady, SignalRoom, PopResult, ResultReady, Awakened
<1>1. CASE WorkerSleep(i)
  BY <1>1 DEF WorkerSleep
<1>2. CASE WorkerTake(i)
  BY <1>2 DEF WorkerTake
<1>3. ASSUME NEW ok \in BOOLEAN, Infer(i, ok) PROVE TypeOK'
  BY <1>3 DEF Infer
<1>4. CASE Park(i)
  BY <1>4 DEF Park
<1>5. CASE ReturnContext(i)
  BY <1>5 DEF ReturnContext
<1>6. CASE WorkerNotify(i)
  BY <1>6 DEF WorkerNotify
<1>7. CASE WorkerExitHeld(i)
  BY <1>7 DEF WorkerExitHeld
<1>8. CASE WorkerExit(i)
  BY <1>8 DEF WorkerExit
<1>9. CASE WorkerSpuriousWakeup(i)
  BY <1>9 DEF WorkerSpuriousWakeup
<1>. QED
  BY <1>1, <1>2, <1>3, <1>4, <1>5, <1>6, <1>7, <1>8, <1>9 DEF WorkerStep

LEMMA OwnerTypes ==
  ASSUME IInv, TypeOK, PoolTypeOK',
         Shutdown \/ OwnerStep \/ UNCHANGED vars
  PROVE  TypeOK'
<1>. USE DEF TypeOK, poolVars, slotVars, streamVars, flagVars, sleepVars,
       workerVars, callerVars, callerLocals, implVars,
       NumberDrawn, Ours, Due, Goto, WorkerGoto, VacateSlot, Images, Result,
       Job, NoResult, NoJob, Ended, CallerPlaces, WorkerPlaces, NoContext,
       SignalReady, SignalRoom, PopResult, ResultReady, Awakened
<1>1. CASE Shutdown
  BY <1>1 DEF Shutdown
<1>2. CASE ShutdownNotify
  BY <1>2 DEF ShutdownNotify
<1>3. CASE Join
  BY <1>3 DEF Join
<1>4. CASE UNCHANGED vars
  BY <1>4 DEF vars
<1>. QED
  BY <1>1, <1>2, <1>3, <1>4 DEF OwnerStep

LEMMA TypesStep ==
  ASSUME IInv, TypeOK, PoolTypeOK', [Next]_vars
  PROVE  TypeOK'
<1>1. \/ \E t \in Threads : \/ SubmitStep(t)
                            \/ CallStart(t) \/ DrainStep(t) \/ SpuriousWakeup(t)
      \/ \E i \in Contexts : WorkerStep(i) \/ WorkerSpuriousWakeup(i)
      \/ Shutdown \/ OwnerStep \/ UNCHANGED vars
  BY DEF Next, CallStep, Over
<1>. QED
  BY <1>1, SubmitTypes, CallerTypes, WorkerTypes, OwnerTypes

-----------------------------------------------------------------------------
(* Ownership.                                                              *)

LEMMA NoContextIsNone == NoContext \notin Contexts
  BY SizeAssumption DEF NoContext, Contexts

LEMMA SubmitOwns ==
  ASSUME IInv, TypeOK', NEW t \in Threads,
         SubmitStep(t)
  PROVE  Ownership'
<1>. USE NoContextIsNone DEF IInv, TypeOK, PoolTypeOK, CallerPlaces,
       WorkerPlaces, poolVars, slotVars, streamVars, flagVars, sleepVars,
       workerVars, callerVars, callerLocals, implVars,
       NumberDrawn, Ours, Due, Goto, WorkerGoto, VacateSlot, Ownership,
       OneOwner, HasLease, HandleIsValid, SlotsHoldLeases, CallersKnowTheirs,
       WorkersHaveSlots, HoldsLease, HoldsSlot, Held, PopResult, Awakened,
       GiveBack, Take, AwaitContext
<1>1. CASE AwaitRoom(t)
  BY <1>1 DEF AwaitRoom
<1>2. CASE PassRoom(t)
  BY <1>2 DEF PassRoom
<1>3. CASE SleepInPool(t)
  BY <1>3 DEF SleepInPool
<1>4. CASE AcquireContext(t)
  BY <1>4 DEF AcquireContext
<1>5. CASE InstallLease(t)
  BY <1>5 DEF InstallLease
<1>6. CASE RefuseLate(t)
  BY <1>6 DEF RefuseLate
<1>7. ASSUME NEW f \in Frames, Letterbox(t, f) PROVE Ownership'
  BY <1>7 DEF Letterbox
<1>8. CASE LetterboxFails(t)
  BY <1>8 DEF LetterboxFails
<1>9. CASE CommitSlot(t)
  BY <1>9 DEF CommitSlot
<1>10. CASE CommitTooLate(t)
  BY <1>10 DEF CommitTooLate
<1>11. CASE ReleaseSlot(t)
  BY <1>11 DEF ReleaseSlot
<1>12. CASE DropLease(t)
  BY <1>12 DEF DropLease
<1>13. CASE NotifyPool(t)
  BY <1>13 DEF NotifyPool
<1>. QED
  BY <1>1, <1>2, <1>3, <1>4, <1>5, <1>6, <1>7, <1>8, <1>9, <1>10, <1>11,
     <1>12, <1>13 DEF SubmitStep

LEMMA CallerOwns ==
  ASSUME IInv, TypeOK', NEW t \in Threads,
         CallStart(t) \/ DrainStep(t) \/ SpuriousWakeup(t)
  PROVE  Ownership'
<1>. USE NoContextIsNone DEF IInv, TypeOK, PoolTypeOK, CallerPlaces,
       WorkerPlaces, poolVars, slotVars, streamVars, flagVars, sleepVars,
       workerVars, callerVars, callerLocals, implVars,
       NumberDrawn, Ours, Due, Goto, WorkerGoto, VacateSlot, Ownership,
       OneOwner, HasLease, HandleIsValid, SlotsHoldLeases, CallersKnowTheirs,
       WorkersHaveSlots, HoldsLease, HoldsSlot, Held, PopResult, Awakened,
       GiveBack, Take, AwaitContext
<1>1. CASE CallAcquireSlot(t)
  BY <1>1 DEF CallAcquireSlot
<1>2. CASE CallNext(t)
  BY <1>2 DEF CallNext
<1>3. CASE TryNext(t)
  BY <1>3 DEF TryNext
<1>4. CASE Finish(t)
  BY <1>4 DEF Finish
<1>5. CASE AwaitResult(t)
  BY <1>5 DEF AwaitResult
<1>6. CASE Next_(t)
  BY <1>6 DEF Next_
<1>7. CASE EndOfStream(t)
  BY <1>7 DEF EndOfStream
<1>8. CASE Deliver(t)
  BY <1>8 DEF Deliver
<1>9. CASE FinishNotify(t)
  BY <1>9 DEF FinishNotify
<1>10. CASE SpuriousWakeup(t)
  BY <1>10 DEF SpuriousWakeup
<1>. QED
  BY <1>1, <1>2, <1>3, <1>4, <1>5, <1>6, <1>7, <1>8, <1>9, <1>10 DEF
     CallStart, DrainStep

LEMMA WorkerOwns ==
  ASSUME IInv, TypeOK', NEW i \in Contexts,
         WorkerStep(i) \/ WorkerSpuriousWakeup(i)
  PROVE  Ownership'
<1>. USE NoContextIsNone DEF IInv, TypeOK, PoolTypeOK, CallerPlaces,
       WorkerPlaces, poolVars, slotVars, streamVars, flagVars, sleepVars,
       workerVars, callerVars, callerLocals, implVars,
       NumberDrawn, Ours, Due, Goto, WorkerGoto, VacateSlot, Ownership,
       OneOwner, HasLease, HandleIsValid, SlotsHoldLeases, CallersKnowTheirs,
       WorkersHaveSlots, HoldsLease, HoldsSlot, Held, PopResult, Awakened,
       GiveBack, Take, AwaitContext
<1>1. CASE WorkerSleep(i)
  BY <1>1 DEF WorkerSleep
<1>2. CASE WorkerTake(i)
  BY <1>2 DEF WorkerTake
<1>3. ASSUME NEW ok \in BOOLEAN, Infer(i, ok) PROVE Ownership'
  BY <1>3 DEF Infer
<1>4. CASE Park(i)
  BY <1>4 DEF Park
<1>5. CASE ReturnContext(i)
  BY <1>5 DEF ReturnContext
<1>6. CASE WorkerNotify(i)
  BY <1>6 DEF WorkerNotify
<1>7. CASE WorkerExitHeld(i)
  BY <1>7 DEF WorkerExitHeld
<1>8. CASE WorkerExit(i)
  BY <1>8 DEF WorkerExit
<1>9. CASE WorkerSpuriousWakeup(i)
  BY <1>9 DEF WorkerSpuriousWakeup
<1>. QED
  BY <1>1, <1>2, <1>3, <1>4, <1>5, <1>6, <1>7, <1>8, <1>9 DEF WorkerStep

LEMMA OwnerOwns ==
  ASSUME IInv, TypeOK',
         Shutdown \/ OwnerStep \/ UNCHANGED vars
  PROVE  Ownership'
<1>. USE NoContextIsNone DEF IInv, TypeOK, PoolTypeOK, CallerPlaces,
       WorkerPlaces, poolVars, slotVars, streamVars, flagVars, sleepVars,
       workerVars, callerVars, callerLocals, implVars,
       NumberDrawn, Ours, Due, Goto, WorkerGoto, VacateSlot, Ownership,
       OneOwner, HasLease, HandleIsValid, SlotsHoldLeases, CallersKnowTheirs,
       WorkersHaveSlots, HoldsLease, HoldsSlot, Held, PopResult, Awakened,
       GiveBack, Take, AwaitContext
<1>1. CASE Shutdown
  BY <1>1 DEF Shutdown
<1>2. CASE ShutdownNotify
  BY <1>2 DEF ShutdownNotify
<1>3. CASE Join
  BY <1>3 DEF Join
<1>4. CASE UNCHANGED vars
  BY <1>4 DEF vars
<1>. QED
  BY <1>1, <1>2, <1>3, <1>4 DEF OwnerStep

LEMMA OwnsStep ==
  ASSUME IInv, TypeOK', [Next]_vars
  PROVE  Ownership'
<1>1. \/ \E t \in Threads : \/ SubmitStep(t)
                            \/ CallStart(t) \/ DrainStep(t) \/ SpuriousWakeup(t)
      \/ \E i \in Contexts : WorkerStep(i) \/ WorkerSpuriousWakeup(i)
      \/ Shutdown \/ OwnerStep \/ UNCHANGED vars
  BY DEF Next, CallStep, Over
<1>. QED
  BY <1>1, SubmitOwns, CallerOwns, WorkerOwns, OwnerOwns

-----------------------------------------------------------------------------

LEMMA InitIInv == Init => IInv
<1>. SUFFICES ASSUME Init PROVE IInv
  OBVIOUS
<1>1. PoolInv
  BY PoolInitially DEF Init
<1>2. TypeOK
  BY <1>1 DEF Init, TypeOK, PoolInv, Images, Result, Job, NoResult, NoJob,
     CallerPlaces, WorkerPlaces
<1>3. Ownership
  BY DEF Init, PoolInit, Ownership, OneOwner, HasLease, HandleIsValid,
     SlotsHoldLeases, CallersKnowTheirs, WorkersHaveSlots, HoldsLease, HoldsSlot
<1>. QED
  BY <1>1, <1>2, <1>3 DEF IInv, PoolInv

LEMMA NextIInv == IInv /\ [Next]_vars => IInv'
<1>. SUFFICES ASSUME IInv, [Next]_vars PROVE IInv'
  OBVIOUS
<1>1. PoolTypeOK' /\ CountMatchesFreeList'
  BY PoolStep DEF PoolInv
<1>2. TypeOK'
  BY <1>1, TypesStep DEF IInv
<1>3. Ownership'
  BY <1>2, OwnsStep
<1>. QED
  BY <1>1, <1>2, <1>3 DEF IInv

\* The inductive invariant itself, for the proofs that build on it.
THEOREM OwnershipHolds == SafetySpec => []IInv
  BY InitIInv, NextIInv, PTL DEF SafetySpec

\* Every variable keeps its type, in_use_ within 0 .. Size included.
THEOREM TypesHold == SafetySpec => []TypeOK
  BY OwnershipHolds, PTL DEF IInv

\* Every NPU context is in exactly one place: free, or under one lease.
THEOREM SingleOwner == SafetySpec => []OneOwner
  BY OwnershipHolds, PTL DEF IInv, Ownership

\* checkedSlot() never throws at a caller that pairs its calls.
THEOREM HandlesStayValid == SafetySpec => []HandleIsValid
  BY OwnershipHolds, PTL DEF IInv, Ownership

\* No RGA operation writes a tensor that another writes or infer() reads.
THEOREM TensorsAreExclusive == SafetySpec => []ExclusiveTensor
<1>1. IInv => ExclusiveTensor
  BY DEF IInv, Ownership, HandleIsValid, WorkersHaveSlots, ExclusiveTensor,
     Writes, HoldsSlot, Held
<1>. QED
  BY <1>1, OwnershipHolds, PTL

-----------------------------------------------------------------------------
(* The stream of frames.                                                   *)


\* Parked sequence numbers are committed and not yet delivered.
ParkedInRange == DOMAIN pending \subseteq next_out .. (next_in - 1)

\* A queued slot's number is committed, undelivered, not parked, its own.
QueuedInRange == \A i \in Contexts : slotState[i] = "queued" =>
  /\ slotSeq[i] \in next_out .. (next_in - 1)
  /\ slotSeq[i] \notin DOMAIN pending
  /\ \A j \in Contexts : Carries(j, slotSeq[i]) => j = i

\* Until the destructor runs, every number in range is somewhere.
NothingLost == ~stopping => \A n \in next_out .. (next_in - 1) :
  n \in DOMAIN pending \/ \E i \in Contexts : Carries(i, n)

\* Nothing is delivered before it is committed.
NotAhead == next_out <= next_in

Numbers == NotAhead /\ ParkedInRange /\ QueuedInRange /\ NothingLost

\* What a worker copied out of its slot is still what the slot says: nobody
\* touches a queued slot while its worker runs without the lock.
JobsMatchSlots == \A i \in Contexts : worker[i] \in {"infer", "park"} =>
  job[i].seq = slotSeq[i] /\ job[i].lb = slotLb[i]

\* Geometry and image stay together, from letterbox to reorder buffer.
LetterboxedTogether ==
  /\ \A t \in Threads : pc[t] = "commit" => callerLb[t] = tensor[ctx[t]]
  /\ \A i \in Contexts : slotState[i] = "queued" => slotLb[i] = tensor[i]
  /\ \A i \in Contexts : worker[i] = "park" => job[i].dets = tensor[i]

ResultsAreWhole == \A n \in DOMAIN pending : pending[n].dets = pending[n].lb

Contents == JobsMatchSlots /\ LetterboxedTogether /\ ResultsAreWhole

SInv == IInv /\ Numbers /\ Contents

-----------------------------------------------------------------------------
(* The facts about ownership that every step below uses.                   *)

LEMMA OwnershipFacts ==
  ASSUME IInv
  PROVE  /\ TypeOK
         /\ \A t \in Threads : HoldsSlot(t) =>
              /\ ctx[t] \in Contexts /\ slotState[ctx[t]] = "held"
              /\ \A u \in Threads : HoldsSlot(u) /\ ctx[u] = ctx[t] => u = t
         /\ \A t \in Threads : pc[t] = "install" =>
              ctx[t] \in Contexts /\ slotState[ctx[t]] = "free"
         /\ \A i \in Contexts : worker[i] \in {"infer", "park"} =>
              slotState[i] = "queued"
  BY DEF IInv, TypeOK, Ownership, OneOwner, HasLease, HandleIsValid, Held,
     SlotsHoldLeases, CallersKnowTheirs, WorkersHaveSlots, HoldsLease, HoldsSlot

(* Sequence numbers.                                                       *)

LEMMA SubmitNumbers ==
  ASSUME IInv, Numbers, Contents, NEW t \in Threads,
         SubmitStep(t)
  PROVE  Numbers'
<1>. USE OwnershipFacts DEF TypeOK, Numbers, NotAhead, ParkedInRange,
       QueuedInRange, NothingLost, Carries, JobsMatchSlots, Contents, poolVars, slotVars,
       streamVars, flagVars, sleepVars, workerVars, callerVars, callerLocals, implVars,
       NumberDrawn, Ours, Due, Goto,
       WorkerGoto, VacateSlot, Held, HoldsSlot, PopResult, ResultReady,
       Awakened, SignalReady
<1>1. CASE AwaitRoom(t)
  BY <1>1 DEF AwaitRoom
<1>2. CASE PassRoom(t)
  BY <1>2 DEF PassRoom
<1>3. CASE SleepInPool(t)
  BY <1>3 DEF SleepInPool
<1>4. CASE AcquireContext(t)
  BY <1>4 DEF AcquireContext
<1>5. CASE InstallLease(t)
  BY <1>5 DEF InstallLease
<1>6. CASE RefuseLate(t)
  BY <1>6 DEF RefuseLate
<1>7. ASSUME NEW f \in Frames, Letterbox(t, f) PROVE Numbers'
  BY <1>7 DEF Letterbox
<1>8. CASE LetterboxFails(t)
  BY <1>8 DEF LetterboxFails
<1>9. CASE CommitSlot(t)
  <2>1. /\ ctx[t] \in Contexts
        /\ slotState' = [slotState EXCEPT ![ctx[t]] = "queued"]
        /\ slotSeq' = [slotSeq EXCEPT ![ctx[t]] = next_in]
        /\ slotState[ctx[t]] = "held"
        /\ next_in' = next_in + 1
        /\ UNCHANGED <<pending, next_out, stopping>>
    BY <1>9 DEF CommitSlot
  <2>2. ParkedInRange'
    BY <2>1
  <2>3. QueuedInRange'
    <3>. SUFFICES ASSUME NEW i \in Contexts, slotState'[i] = "queued"
                  PROVE  /\ slotSeq'[i] \in next_out .. next_in
                         /\ slotSeq'[i] \notin DOMAIN pending
                         /\ \A j \in Contexts : slotState'[j] = "queued"
                                /\ slotSeq'[j] = slotSeq'[i] => j = i
      BY <2>1
    <3>1. CASE i = ctx[t]
      <4>1. slotSeq'[i] = next_in /\ next_in \notin DOMAIN pending
        BY <2>1, <3>1
      <4>2. ASSUME NEW j \in Contexts, slotState'[j] = "queued",
                   slotSeq'[j] = next_in
            PROVE  j = i
        BY <2>1, <3>1, <4>2
      <4>3. next_in \in next_out .. next_in
        OBVIOUS
      <4>. QED
        BY <4>1, <4>2, <4>3
    <3>2. CASE i # ctx[t]
      <4>1. slotState[i] = "queued" /\ slotSeq'[i] = slotSeq[i]
        BY <2>1, <3>2
      <4>2. slotSeq[i] \in next_out .. (next_in - 1)
        BY <4>1
      <4>3. slotSeq[i] # next_in
        BY <4>2
      <4>4. ASSUME NEW j \in Contexts, slotState'[j] = "queued",
                   slotSeq'[j] = slotSeq[i]
            PROVE  j = i
        BY <2>1, <4>1, <4>3, <4>4
      <4>. QED
        BY <4>1, <4>2, <4>4
    <3>. QED
      BY <3>1, <3>2
  <2>4. NothingLost'
    <3>. SUFFICES ASSUME ~stopping, NEW n \in next_out .. next_in
                  PROVE  n \in DOMAIN pending \/ \E i \in Contexts : Carries(i, n)'
      BY <2>1
    <3>1. CASE n = next_in
      BY <2>1, <3>1
    <3>2. CASE n # next_in
      <4>1. n \in next_out .. (next_in - 1)
        BY <3>2
      <4>2. PICK i \in Contexts : n \in DOMAIN pending \/ Carries(i, n)
        BY <4>1, <2>1
      <4>. QED
        BY <4>2, <2>1
    <3>. QED
      BY <3>1, <3>2
  <2>5. NotAhead'
    BY <2>1
  <2>. QED
    BY <2>2, <2>3, <2>4, <2>5
<1>10. CASE CommitTooLate(t)
  BY <1>10 DEF CommitTooLate
<1>11. CASE ReleaseSlot(t)
  BY <1>11 DEF ReleaseSlot
<1>12. CASE DropLease(t)
  BY <1>12 DEF DropLease
<1>13. CASE NotifyPool(t)
  BY <1>13 DEF NotifyPool
<1>. QED
  BY <1>1, <1>2, <1>3, <1>4, <1>5, <1>6, <1>7, <1>8, <1>9, <1>10, <1>11,
     <1>12, <1>13 DEF SubmitStep

\* next() and tryNext() take the result that is due out of the buffer.
LEMMA PopNumbers ==
  ASSUME IInv, Numbers, NEW t \in Threads, PopResult(t)
  PROVE  Numbers'
<1>. DEFINE rest == DOMAIN pending \ {next_out}
<1>1. next_out \in Nat /\ next_in \in Nat
  BY DEF IInv, TypeOK
<1>2. /\ next_out \in DOMAIN pending
      /\ DOMAIN pending' = rest
      /\ next_out' = next_out + 1
      /\ UNCHANGED <<slotState, slotSeq, next_in, stopping>>
  BY DEF PopResult, ResultReady, Due, slotVars, flagVars
<1>3. ParkedInRange'
  BY <1>1, <1>2 DEF Numbers, ParkedInRange
<1>4. QueuedInRange'
  <2>. SUFFICES ASSUME NEW i \in Contexts, slotState[i] = "queued"
                PROVE  /\ slotSeq[i] \in (next_out + 1) .. (next_in - 1)
                       /\ slotSeq[i] \notin rest
                       /\ \A j \in Contexts : Carries(j, slotSeq[i]) => j = i
    BY <1>2 DEF QueuedInRange, Carries
  <2>1. /\ slotSeq[i] \in next_out .. (next_in - 1)
        /\ slotSeq[i] \notin DOMAIN pending
        /\ \A j \in Contexts : Carries(j, slotSeq[i]) => j = i
    BY DEF Numbers, QueuedInRange
  <2>2. slotSeq[i] # next_out
    BY <1>2, <2>1
  <2>. QED
    BY <1>1, <2>1, <2>2
<1>5. NothingLost'
  BY <1>1, <1>2 DEF Numbers, NothingLost, Carries
<1>6. NotAhead'
  BY <1>1, <1>2 DEF Numbers, ParkedInRange, NotAhead
<1>. QED
  BY <1>3, <1>4, <1>5, <1>6 DEF Numbers

LEMMA CallerNumbers ==
  ASSUME IInv, Numbers, Contents, NEW t \in Threads,
         CallStart(t) \/ DrainStep(t) \/ SpuriousWakeup(t)
  PROVE  Numbers'
<1>. USE OwnershipFacts DEF TypeOK, Numbers, NotAhead, ParkedInRange,
       QueuedInRange, NothingLost, Carries, JobsMatchSlots, Contents, poolVars, slotVars,
       streamVars, flagVars, sleepVars, workerVars, callerVars, callerLocals, implVars,
       NumberDrawn, Ours, Due, Goto,
       WorkerGoto, VacateSlot, Held, HoldsSlot, Awakened, SignalReady
<1>1. CASE CallAcquireSlot(t)
  BY <1>1 DEF CallAcquireSlot
<1>2. CASE CallNext(t)
  BY <1>2 DEF CallNext
<1>3. CASE TryNext(t)
  BY <1>3, PopNumbers DEF TryNext
<1>4. CASE Finish(t)
  BY <1>4 DEF Finish
<1>5. CASE AwaitResult(t)
  BY <1>5 DEF AwaitResult
<1>6. CASE Next_(t)
  BY <1>6, PopNumbers DEF Next_
<1>7. CASE EndOfStream(t)
  BY <1>7 DEF EndOfStream
<1>8. CASE Deliver(t)
  BY <1>8 DEF Deliver
<1>9. CASE FinishNotify(t)
  BY <1>9 DEF FinishNotify
<1>10. CASE SpuriousWakeup(t)
  BY <1>10 DEF SpuriousWakeup
<1>. QED
  BY <1>1, <1>2, <1>3, <1>4, <1>5, <1>6, <1>7, <1>8, <1>9, <1>10 DEF
     CallStart, DrainStep

LEMMA WorkerNumbers ==
  ASSUME IInv, Numbers, Contents, NEW i \in Contexts,
         WorkerStep(i) \/ WorkerSpuriousWakeup(i)
  PROVE  Numbers'
<1>. USE OwnershipFacts DEF TypeOK, Numbers, NotAhead, ParkedInRange,
       QueuedInRange, NothingLost, Carries, JobsMatchSlots, Contents, poolVars, slotVars,
       streamVars, flagVars, sleepVars, workerVars, callerVars, callerLocals, implVars,
       NumberDrawn, Ours, Due, Goto,
       WorkerGoto, VacateSlot, Held, HoldsSlot, PopResult, ResultReady,
       Awakened, SignalReady
<1>1. CASE WorkerSleep(i)
  BY <1>1 DEF WorkerSleep
<1>2. CASE WorkerTake(i)
  BY <1>2 DEF WorkerTake
<1>3. ASSUME NEW ok \in BOOLEAN, Infer(i, ok) PROVE Numbers'
  BY <1>3 DEF Infer
<1>4. CASE Park(i)
  BY <1>4 DEF Park
<1>5. CASE ReturnContext(i)
  BY <1>5 DEF ReturnContext
<1>6. CASE WorkerNotify(i)
  BY <1>6 DEF WorkerNotify
<1>7. CASE WorkerExitHeld(i)
  BY <1>7 DEF WorkerExitHeld
<1>8. CASE WorkerExit(i)
  BY <1>8 DEF WorkerExit
<1>9. CASE WorkerSpuriousWakeup(i)
  BY <1>9 DEF WorkerSpuriousWakeup
<1>. QED
  BY <1>1, <1>2, <1>3, <1>4, <1>5, <1>6, <1>7, <1>8, <1>9 DEF WorkerStep

LEMMA OwnerNumbers ==
  ASSUME IInv, Numbers, Contents,
         Shutdown \/ OwnerStep \/ UNCHANGED vars
  PROVE  Numbers'
<1>. USE OwnershipFacts DEF TypeOK, Numbers, NotAhead, ParkedInRange,
       QueuedInRange, NothingLost, Carries, JobsMatchSlots, Contents, poolVars, slotVars,
       streamVars, flagVars, sleepVars, workerVars, callerVars, callerLocals, implVars,
       NumberDrawn, Ours, Due, Goto,
       WorkerGoto, VacateSlot, Held, HoldsSlot, PopResult, ResultReady,
       Awakened, SignalReady
<1>1. CASE Shutdown
  BY <1>1 DEF Shutdown
<1>2. CASE ShutdownNotify
  BY <1>2 DEF ShutdownNotify
<1>3. CASE Join
  BY <1>3 DEF Join
<1>4. CASE UNCHANGED vars
  BY <1>4 DEF vars
<1>. QED
  BY <1>1, <1>2, <1>3, <1>4 DEF OwnerStep

LEMMA NumbersStep ==
  ASSUME IInv, Numbers, Contents, [Next]_vars
  PROVE  Numbers'
<1>1. \/ \E t \in Threads : \/ SubmitStep(t)
                            \/ CallStart(t) \/ DrainStep(t) \/ SpuriousWakeup(t)
      \/ \E i \in Contexts : WorkerStep(i) \/ WorkerSpuriousWakeup(i)
      \/ Shutdown \/ OwnerStep \/ UNCHANGED vars
  BY DEF Next, CallStep, Over
<1>. QED
  BY <1>1, SubmitNumbers, CallerNumbers, WorkerNumbers, OwnerNumbers

-----------------------------------------------------------------------------
(* Contents.                                                               *)

LEMMA SubmitContents ==
  ASSUME IInv, Contents, NEW t \in Threads,
         SubmitStep(t)
  PROVE  Contents'
<1>. USE OwnershipFacts DEF TypeOK, Contents, JobsMatchSlots,
       LetterboxedTogether, ResultsAreWhole, poolVars, slotVars, streamVars,
       flagVars, sleepVars, workerVars, callerVars, callerLocals, implVars,
       NumberDrawn, Ours, Due, Goto, WorkerGoto,
       VacateSlot, Held, HoldsSlot, PopResult, ResultReady, NoJob, Job,
       Awakened, SignalReady
<1>1. CASE AwaitRoom(t)
  BY <1>1 DEF AwaitRoom
<1>2. CASE PassRoom(t)
  BY <1>2 DEF PassRoom
<1>3. CASE SleepInPool(t)
  BY <1>3 DEF SleepInPool
<1>4. CASE AcquireContext(t)
  BY <1>4 DEF AcquireContext
<1>5. CASE InstallLease(t)
  BY <1>5 DEF InstallLease
<1>6. CASE RefuseLate(t)
  BY <1>6 DEF RefuseLate
<1>7. ASSUME NEW f \in Frames, Letterbox(t, f) PROVE Contents'
  BY <1>7 DEF Letterbox
<1>8. CASE LetterboxFails(t)
  BY <1>8 DEF LetterboxFails
<1>9. CASE CommitSlot(t)
  BY <1>9 DEF CommitSlot
<1>10. CASE CommitTooLate(t)
  BY <1>10 DEF CommitTooLate
<1>11. CASE ReleaseSlot(t)
  BY <1>11 DEF ReleaseSlot
<1>12. CASE DropLease(t)
  BY <1>12 DEF DropLease
<1>13. CASE NotifyPool(t)
  BY <1>13 DEF NotifyPool
<1>. QED
  BY <1>1, <1>2, <1>3, <1>4, <1>5, <1>6, <1>7, <1>8, <1>9, <1>10, <1>11,
     <1>12, <1>13 DEF SubmitStep

LEMMA CallerContents ==
  ASSUME IInv, Contents, NEW t \in Threads,
         CallStart(t) \/ DrainStep(t) \/ SpuriousWakeup(t)
  PROVE  Contents'
<1>. USE OwnershipFacts DEF TypeOK, Contents, JobsMatchSlots,
       LetterboxedTogether, ResultsAreWhole, poolVars, slotVars, streamVars,
       flagVars, sleepVars, workerVars, callerVars, callerLocals, implVars,
       NumberDrawn, Ours, Due, Goto, WorkerGoto,
       VacateSlot, Held, HoldsSlot, PopResult, ResultReady, NoJob, Job,
       Awakened, SignalReady
<1>1. CASE CallAcquireSlot(t)
  BY <1>1 DEF CallAcquireSlot
<1>2. CASE CallNext(t)
  BY <1>2 DEF CallNext
<1>3. CASE TryNext(t)
  BY <1>3 DEF TryNext
<1>4. CASE Finish(t)
  BY <1>4 DEF Finish
<1>5. CASE AwaitResult(t)
  BY <1>5 DEF AwaitResult
<1>6. CASE Next_(t)
  BY <1>6 DEF Next_
<1>7. CASE EndOfStream(t)
  BY <1>7 DEF EndOfStream
<1>8. CASE Deliver(t)
  BY <1>8 DEF Deliver
<1>9. CASE FinishNotify(t)
  BY <1>9 DEF FinishNotify
<1>10. CASE SpuriousWakeup(t)
  BY <1>10 DEF SpuriousWakeup
<1>. QED
  BY <1>1, <1>2, <1>3, <1>4, <1>5, <1>6, <1>7, <1>8, <1>9, <1>10 DEF
     CallStart, DrainStep

LEMMA WorkerContents ==
  ASSUME IInv, Contents, NEW i \in Contexts,
         WorkerStep(i) \/ WorkerSpuriousWakeup(i)
  PROVE  Contents'
<1>. USE OwnershipFacts DEF TypeOK, Contents, JobsMatchSlots,
       LetterboxedTogether, ResultsAreWhole, poolVars, slotVars, streamVars,
       flagVars, sleepVars, workerVars, callerVars, callerLocals, implVars,
       NumberDrawn, Ours, Due, Goto, WorkerGoto,
       VacateSlot, Held, HoldsSlot, PopResult, ResultReady, NoJob, Job,
       Awakened, SignalReady
<1>1. CASE WorkerSleep(i)
  BY <1>1 DEF WorkerSleep
<1>2. CASE WorkerTake(i)
  BY <1>2 DEF WorkerTake
<1>3. ASSUME NEW ok \in BOOLEAN, Infer(i, ok) PROVE Contents'
  BY <1>3 DEF Infer
<1>4. CASE Park(i)
  BY <1>4 DEF Park
<1>5. CASE ReturnContext(i)
  BY <1>5 DEF ReturnContext
<1>6. CASE WorkerNotify(i)
  BY <1>6 DEF WorkerNotify
<1>7. CASE WorkerExitHeld(i)
  BY <1>7 DEF WorkerExitHeld
<1>8. CASE WorkerExit(i)
  BY <1>8 DEF WorkerExit
<1>9. CASE WorkerSpuriousWakeup(i)
  BY <1>9 DEF WorkerSpuriousWakeup
<1>. QED
  BY <1>1, <1>2, <1>3, <1>4, <1>5, <1>6, <1>7, <1>8, <1>9 DEF WorkerStep

LEMMA OwnerContents ==
  ASSUME IInv, Contents,
         Shutdown \/ OwnerStep \/ UNCHANGED vars
  PROVE  Contents'
<1>. USE OwnershipFacts DEF TypeOK, Contents, JobsMatchSlots,
       LetterboxedTogether, ResultsAreWhole, poolVars, slotVars, streamVars,
       flagVars, sleepVars, workerVars, callerVars, callerLocals, implVars,
       NumberDrawn, Ours, Due, Goto, WorkerGoto,
       VacateSlot, Held, HoldsSlot, PopResult, ResultReady, NoJob, Job,
       Awakened, SignalReady
<1>1. CASE Shutdown
  BY <1>1 DEF Shutdown
<1>2. CASE ShutdownNotify
  BY <1>2 DEF ShutdownNotify
<1>3. CASE Join
  BY <1>3 DEF Join
<1>4. CASE UNCHANGED vars
  BY <1>4 DEF vars
<1>. QED
  BY <1>1, <1>2, <1>3, <1>4 DEF OwnerStep

LEMMA ContentsStep ==
  ASSUME IInv, Contents, [Next]_vars
  PROVE  Contents'
<1>1. \/ \E t \in Threads : \/ SubmitStep(t)
                            \/ CallStart(t) \/ DrainStep(t) \/ SpuriousWakeup(t)
      \/ \E i \in Contexts : WorkerStep(i) \/ WorkerSpuriousWakeup(i)
      \/ Shutdown \/ OwnerStep \/ UNCHANGED vars
  BY DEF Next, CallStep, Over
<1>. QED
  BY <1>1, SubmitContents, CallerContents, WorkerContents, OwnerContents

-----------------------------------------------------------------------------

LEMMA InitSInv == Init => SInv
<1>. SUFFICES ASSUME Init PROVE SInv
  OBVIOUS
<1>1. Numbers
  BY DEF Init, Numbers, NotAhead, ParkedInRange, QueuedInRange, NothingLost
<1>2. Contents
  BY DEF Init, Contents, JobsMatchSlots, LetterboxedTogether, ResultsAreWhole
<1>. QED
  BY <1>1, <1>2, InitIInv DEF SInv

LEMMA NextSInv == SInv /\ [Next]_vars => SInv'
  BY NextIInv, NumbersStep, ContentsStep DEF SInv

\* The inductive invariant, for the proofs that build on it.
THEOREM StreamHolds == SafetySpec => []SInv
  BY InitSInv, NextSInv, PTL DEF SafetySpec

\* No committed frame drops out of the stream, none is in it twice.
THEOREM StreamHasNoHole == SafetySpec => []NoHole
<1>1. SInv => NoHole
  BY DEF SInv, Numbers, ParkedInRange, QueuedInRange, NothingLost, NoHole
<1>. QED
  BY <1>1, StreamHolds, PTL

\* A parked result's geometry is that of the frame it was inferred from.
THEOREM GeometryBelongsToResult == SafetySpec => []ResultsAreWhole
  BY StreamHolds, PTL DEF SInv, Contents

-----------------------------------------------------------------------------
(* The reorder buffer.                                                     *)

\* Callers past back-pressure #1 whose frame is not committed yet.
Passed == {t \in Threads : HoldsLease(t) \/ HoldsSlot(t) \/ pc[t] = "context"}

Queued == {i \in Contexts : slotState[i] = "queued"}

OnlySubmittersSubmit ==
  /\ Passed \subseteq Submitters
  /\ \A t \in Threads : pc[t] = "room" => t \in Submitters

\* A caller passes the test while fewer than Depth results are parked; after
\* that its frame only moves on, from Passed to Queued to the buffer.
Accounted ==
  Cardinality(DOMAIN pending) + Cardinality(Queued) + Cardinality(Passed)
    <= Depth - 1 + Size + Cardinality(Submitters)

LEMMA IntervalFinite ==
  ASSUME NEW a \in Int, NEW b \in Int, NEW S, S \subseteq a .. b
  PROVE  IsFiniteSet(S) /\ Cardinality(S) \in Nat
<1>1. IsFiniteSet(a .. b)
  BY FS_Interval
<1>2. IsFiniteSet(S)
  BY <1>1, FS_Subset
<1>. QED
  BY <1>2, FS_CardinalityType

LEMMA ParkedFinite ==
  ASSUME IInv, Numbers
  PROVE  IsFiniteSet(DOMAIN pending) /\ Cardinality(DOMAIN pending) \in Nat
<1>1. /\ next_out \in Int /\ next_in - 1 \in Int
      /\ DOMAIN pending \subseteq next_out .. (next_in - 1)
  BY DEF IInv, TypeOK, Numbers, ParkedInRange
<1>. QED
  BY <1>1, IntervalFinite

LEMMA QueuedFinite == IsFiniteSet(Queued) /\ Cardinality(Queued) \in 0 .. Size
  BY FreeFinite DEF Queued

LEMMA PassedFinite ==
  ASSUME IsFiniteSet(Submitters), OnlySubmittersSubmit
  PROVE  /\ IsFiniteSet(Passed)
         /\ Cardinality(Passed) \in 0 .. Cardinality(Submitters)
<1>1. IsFiniteSet(Passed) /\ Cardinality(Passed) <= Cardinality(Submitters)
  BY FS_Subset DEF OnlySubmittersSubmit
<1>. QED
  BY <1>1, FS_CardinalityType

LEMMA SubmittersStep ==
  ASSUME TypeOK, OnlySubmittersSubmit, [Next]_vars
  PROVE  OnlySubmittersSubmit'
<1>. USE DEF TypeOK, OnlySubmittersSubmit, Passed, HoldsLease, HoldsSlot, Goto,
       callerVars, callerLocals
<1>1. ASSUME NEW t \in Threads, SubmitStep(t) PROVE OnlySubmittersSubmit'
  BY <1>1 DEF SubmitStep, AwaitRoom, PassRoom, SleepInPool, AcquireContext,
     InstallLease, RefuseLate, Letterbox, LetterboxFails, CommitSlot,
     CommitTooLate, ReleaseSlot, DropLease, NotifyPool
<1>2. ASSUME NEW t \in Threads, CallStart(t) \/ DrainStep(t) \/ SpuriousWakeup(t)
      PROVE  OnlySubmittersSubmit'
  BY <1>2 DEF CallStart, DrainStep, CallAcquireSlot, CallNext, TryNext, Finish,
     AwaitResult, Next_, EndOfStream, Deliver, FinishNotify, PopResult,
     SpuriousWakeup
<1>3. ASSUME UNCHANGED callerVars PROVE OnlySubmittersSubmit'
  BY <1>3
<1>4. ASSUME NEW i \in Contexts, WorkerStep(i) \/ WorkerSpuriousWakeup(i)
      PROVE  UNCHANGED callerVars
  BY <1>4 DEF WorkerStep, WorkerSpuriousWakeup, WorkerSleep, WorkerTake, Infer,
     Park, ReturnContext, WorkerNotify, WorkerExitHeld, WorkerExit
<1>5. ASSUME Shutdown \/ OwnerStep \/ UNCHANGED vars PROVE UNCHANGED callerVars
  BY <1>5 DEF Shutdown, OwnerStep, ShutdownNotify, Join, vars
<1>. QED
  BY <1>1, <1>2, <1>3, <1>4, <1>5 DEF Next, CallStep, Over

\* What a step does to the three.
Shrinks ==
  /\ DOMAIN pending' \subseteq DOMAIN pending
  /\ Queued' \subseteq Queued /\ Passed' \subseteq Passed

PassesTest ==
  /\ Cardinality(DOMAIN pending) < Depth
  /\ UNCHANGED <<pending, slotState>>

CommitsOne == \E t \in Passed, i \in Contexts :
  /\ Passed' = Passed \ {t} /\ Queued' = Queued \cup {i}
  /\ UNCHANGED pending

ParksOne == \E i \in Queued, n \in Nat :
  /\ Queued' = Queued \ {i} /\ UNCHANGED pc
  /\ DOMAIN pending' = DOMAIN pending \cup {n}

ReorderMove == Shrinks \/ PassesTest \/ CommitsOne \/ ParksOne

\* Three actions add to one of the three sets, and each has its reason to.
LEMMA ReorderMoves ==
  ASSUME IInv, [Next]_vars
  PROVE  ReorderMove
<1>. USE OwnershipFacts DEF TypeOK, Queued, Passed, HoldsLease, HoldsSlot, Goto,
       poolVars, slotVars, streamVars, flagVars, sleepVars, workerVars,
       callerVars, callerLocals, implVars, VacateSlot, Held
<1>1. ASSUME NEW t \in Threads, PassRoom(t) PROVE PassesTest \/ Shrinks
  BY <1>1 DEF PassRoom, RoomPredicate, PassesTest, Shrinks
<1>2. ASSUME NEW t \in Threads, CommitSlot(t) PROVE CommitsOne
  <2>1. /\ t \in Passed /\ ctx[t] \in Contexts
        /\ Passed' = Passed \ {t} /\ Queued' = Queued \cup {ctx[t]}
        /\ UNCHANGED pending
    BY <1>2 DEF CommitSlot
  <2>. QED
    BY <2>1 DEF CommitsOne
<1>3. ASSUME NEW t \in Threads, SubmitStep(t), ~PassRoom(t), ~CommitSlot(t)
      PROVE  Shrinks
  BY <1>3 DEF Shrinks, SubmitStep, AwaitRoom, SleepInPool, AcquireContext,
     InstallLease, RefuseLate, Letterbox, LetterboxFails,
     CommitTooLate, ReleaseSlot, DropLease, NotifyPool
<1>4. ASSUME NEW t \in Threads, CallStart(t) \/ DrainStep(t) \/ SpuriousWakeup(t)
      PROVE  Shrinks
  BY <1>4 DEF Shrinks, CallStart, DrainStep, CallAcquireSlot, CallNext, TryNext, Finish,
     AwaitResult, Next_, EndOfStream, Deliver, FinishNotify, PopResult,
     SpuriousWakeup
<1>5. ASSUME NEW i \in Contexts, Park(i) PROVE ParksOne
  <2>1. /\ i \in Queued /\ job[i].seq \in Nat
        /\ Queued' = Queued \ {i} /\ UNCHANGED pc
        /\ DOMAIN pending' = DOMAIN pending \cup {job[i].seq}
    BY <1>5 DEF Park, Job
  <2>. QED
    BY <2>1 DEF ParksOne
<1>6. ASSUME NEW i \in Contexts, WorkerStep(i) \/ WorkerSpuriousWakeup(i), ~Park(i)
      PROVE  Shrinks
  BY <1>6 DEF Shrinks, WorkerStep, WorkerSpuriousWakeup, WorkerSleep,
     WorkerTake, Infer, ReturnContext, WorkerNotify, WorkerExitHeld, WorkerExit
<1>7. ASSUME Shutdown \/ OwnerStep \/ UNCHANGED vars PROVE Shrinks
  BY <1>7 DEF Shrinks, Shutdown, OwnerStep, ShutdownNotify, Join, vars
<1>. QED
  BY <1>1, <1>2, <1>3, <1>4, <1>5, <1>6, <1>7
     DEF ReorderMove, Next, CallStep, Over

LEMMA AccountedStep ==
  ASSUME IsFiniteSet(Submitters), SInv, SInv', OnlySubmittersSubmit,
         OnlySubmittersSubmit', Accounted, [Next]_vars
  PROVE  Accounted'
<1>. DEFINE P == Cardinality(DOMAIN pending)
            Q == Cardinality(Queued)
            R == Cardinality(Passed)
            B == Depth - 1 + Size + Cardinality(Submitters)
<1>1. /\ P \in Nat /\ P' \in Nat /\ IsFiniteSet(DOMAIN pending)
      /\ IsFiniteSet(DOMAIN pending')
  <2>1. /\ next_out' \in Int /\ next_in' - 1 \in Int
        /\ DOMAIN pending' \subseteq next_out' .. (next_in' - 1)
    BY DEF SInv, IInv, TypeOK, Numbers, ParkedInRange
  <2>. QED
    BY <2>1, IntervalFinite, ParkedFinite DEF SInv
<1>2. Q \in 0 .. Size /\ Q' \in 0 .. Size /\ IsFiniteSet(Queued) /\ IsFiniteSet(Queued')
  <2>1. Queued' \in SUBSET Contexts
    BY DEF Queued
  <2>. QED
    BY <2>1, QueuedFinite, FreeFinite
<1>3. /\ R \in 0 .. Cardinality(Submitters) /\ R' \in 0 .. Cardinality(Submitters)
      /\ IsFiniteSet(Passed) /\ IsFiniteSet(Passed')
  <2>1. Passed' \subseteq Submitters
    BY DEF OnlySubmittersSubmit
  <2>. QED
    BY <2>1, PassedFinite, FS_Subset, FS_CardinalityType
<1>4. Cardinality(Submitters) \in Nat /\ Depth \in Nat \ {0} /\ Size \in Nat
  BY FS_CardinalityType, ConfigAssumption, SizeAssumption
<1>5. P + Q + R <= B
  BY DEF Accounted
<1>. HIDE DEF P, Q, R
<1>6. CASE Shrinks
  <2>1. P' <= P /\ Q' <= Q /\ R' <= R
    BY <1>1, <1>2, <1>3, <1>6, FS_Subset DEF Shrinks, P, Q, R
  <2>. QED
    BY <2>1, <1>1, <1>2, <1>3, <1>4, <1>5 DEF Accounted, P, Q, R
<1>7. CASE PassesTest
  <2>1. P' < Depth
    BY <1>7 DEF PassesTest, P
  <2>. QED
    BY <2>1, <1>1, <1>2, <1>3, <1>4 DEF Accounted, P, Q, R
<1>8. CASE CommitsOne
  <2>1. PICK t \in Passed, i \in Contexts :
          /\ Passed' = Passed \ {t} /\ Queued' = Queued \cup {i}
          /\ pending' = pending
    BY <1>8 DEF CommitsOne
  <2>2. R' = R - 1
    BY <1>3, <2>1, FS_RemoveElement DEF R
  <2>3. Q' <= Q + 1
    BY <1>2, <2>1, FS_AddElement DEF Q
  <2>4. P' = P
    BY <2>1 DEF P
  <2>. QED
    BY <2>2, <2>3, <2>4, <1>1, <1>2, <1>3, <1>4, <1>5 DEF Accounted, P, Q, R
<1>9. CASE ParksOne
  <2>1. PICK i \in Queued, n \in Nat :
          /\ Queued' = Queued \ {i} /\ UNCHANGED pc
          /\ DOMAIN pending' = DOMAIN pending \cup {n}
    BY <1>9 DEF ParksOne
  <2>2. R' = R
    BY <2>1 DEF Passed, HoldsLease, HoldsSlot, R
  <2>3. Q' = Q - 1
    BY <1>2, <2>1, FS_RemoveElement DEF Q
  <2>4. P' <= P + 1
    BY <1>1, <2>1, FS_AddElement DEF P
  <2>. QED
    BY <2>2, <2>3, <2>4, <1>1, <1>2, <1>3, <1>4, <1>5 DEF Accounted, P, Q, R
<1>. QED
  BY <1>6, <1>7, <1>8, <1>9, ReorderMoves DEF SInv, ReorderMove

\* The buffer's bound, for any finite number of submitters: the depth, the
\* frames with the workers and those past the test; no interleaving of the
\* test, the commit and the park adds up to more.
THEOREM ReorderIsBounded ==
  ASSUME IsFiniteSet(Submitters)
  PROVE  SafetySpec => []ReorderBound
<1>. DEFINE RInv == SInv /\ OnlySubmittersSubmit /\ Accounted
<1>1. Init => RInv
  <2>. SUFFICES ASSUME Init PROVE RInv
    OBVIOUS
  <2>1. Passed = {} /\ Queued = {} /\ DOMAIN pending = {}
    BY DEF Init, Passed, Queued, HoldsLease, HoldsSlot
  <2>2. OnlySubmittersSubmit
    BY <2>1 DEF Init, OnlySubmittersSubmit
  <2>3. Accounted
    BY <2>1, FS_EmptySet, FS_CardinalityType, ConfigAssumption, SizeAssumption
       DEF Accounted
  <2>. QED
    BY <2>2, <2>3, InitSInv
<1>2. RInv /\ [Next]_vars => RInv'
  <2>. SUFFICES ASSUME RInv, [Next]_vars PROVE RInv'
    OBVIOUS
  <2>1. SInv'
    BY NextSInv
  <2>2. OnlySubmittersSubmit'
    BY SubmittersStep DEF SInv, IInv
  <2>. QED
    BY <2>1, <2>2, AccountedStep
<1>3. RInv => ReorderBound
  <2>. SUFFICES ASSUME RInv PROVE ReorderBound
    OBVIOUS
  <2>1. Cardinality(DOMAIN pending) \in Nat
    BY ParkedFinite DEF SInv
  <2>2. Cardinality(Queued) \in Nat /\ Cardinality(Passed) \in Nat
    BY QueuedFinite, PassedFinite, SizeAssumption, FS_CardinalityType
  <2>. QED
    BY <2>1, <2>2, ConfigAssumption, SizeAssumption, FS_CardinalityType
       DEF Accounted, ReorderBound
<1>. QED
  BY <1>1, <1>2, <1>3, PTL DEF SafetySpec

-----------------------------------------------------------------------------
(* No lost wakeup: the four condition variables, one by one.               *)

RoomWakeups ==
  roomWaiters # {} /\ RoomPredicate => AboutToSignal({"popped", "finishing"})

ReadyWakeups ==
  readyWaiters # {} /\ (ResultReady \/ stopping \/ Drained)
    => AboutToSignal({"finishing"})

WorkerWakeups == \A i \in Contexts : worker[i] = "asleep" =>
  slotState[i] # "queued" /\ (stopping => owner = "flagged")

PoolWakeups == poolWaiters = {} \/ Cardinality(free) <= PoolAttentive

\* Whoever sleeps on the pool's cv_ is in acquire().
SleepersAsk == \A t \in poolWaiters : pc[t] = "context"

WakeInv == SInv /\ SleepersAsk /\ NoLostWakeup

LEMMA FourVariables ==
  NoLostWakeup <=> RoomWakeups /\ ReadyWakeups /\ WorkerWakeups /\ PoolWakeups
  BY DEF NoLostWakeup, RoomWakeups, ReadyWakeups, WorkerWakeups, PoolWakeups

\* The reorder buffer's room, as the test reads it, appears only when a
\* result is popped or the stream ends: parking never makes any.
LEMMA ParkingMakesNoRoom ==
  ASSUME NEW S, NEW T, IsFiniteSet(T), S \subseteq T, Cardinality(T) < Depth
  PROVE  Cardinality(S) < Depth
<1>1. Cardinality(S) <= Cardinality(T) /\ IsFiniteSet(S)
  BY FS_Subset
<1>. QED
  BY <1>1, FS_CardinalityType, ConfigAssumption

LEMMA RoomStep ==
  ASSUME IInv, Numbers, IsFiniteSet((DOMAIN pending)'), RoomWakeups, [Next]_vars
  PROVE  RoomWakeups'
<1>. USE DEF IInv, TypeOK, PoolTypeOK, Goto, WorkerGoto, poolVars, slotVars, streamVars,
       flagVars, sleepVars, workerVars, callerVars, callerLocals, implVars,
       RoomWakeups, RoomPredicate, NoMoreFrames, AboutToSignal, SignalRoom
<1>1. ASSUME NEW t \in Threads, SubmitStep(t) PROVE RoomWakeups'
  BY <1>1 DEF SubmitStep, AwaitRoom, PassRoom, SleepInPool, AcquireContext,
     InstallLease, RefuseLate, Letterbox, LetterboxFails, CommitSlot,
     CommitTooLate, ReleaseSlot, DropLease, NotifyPool
<1>2. ASSUME NEW t \in Threads, PopResult(t) PROVE RoomWakeups'
  BY <1>2 DEF PopResult
<1>3. ASSUME NEW t \in Threads, CallStart(t) \/ DrainStep(t) \/ SpuriousWakeup(t)
      PROVE  RoomWakeups'
  BY <1>2, <1>3 DEF CallStart, DrainStep, CallAcquireSlot, CallNext, TryNext,
     Finish, AwaitResult, Next_, EndOfStream, Deliver, FinishNotify,
     SpuriousWakeup
<1>4. ASSUME NEW i \in Contexts, Park(i) PROVE RoomWakeups'
  <2>1. DOMAIN pending \subseteq DOMAIN pending'
    BY <1>4 DEF Park
  <2>2. UNCHANGED <<pc, owner, flagVars, roomWaiters>>
    BY <1>4 DEF Park
  <2>3. Cardinality(DOMAIN pending') < Depth => Cardinality(DOMAIN pending) < Depth
    BY <2>1, ParkingMakesNoRoom
  <2>. QED
    BY <2>2, <2>3
<1>5. ASSUME NEW i \in Contexts, WorkerStep(i) \/ WorkerSpuriousWakeup(i), ~Park(i)
      PROVE  RoomWakeups'
  BY <1>5 DEF WorkerStep, WorkerSpuriousWakeup, WorkerSleep,
     WorkerTake, Infer, ReturnContext, WorkerNotify, WorkerExitHeld, WorkerExit
<1>6. ASSUME Shutdown \/ OwnerStep \/ UNCHANGED vars PROVE RoomWakeups'
  BY <1>6 DEF Shutdown, OwnerStep, ShutdownNotify, Join, vars
<1>. HIDE DEF RoomWakeups
<1>. QED
  BY <1>1, <1>3, <1>4, <1>5, <1>6 DEF Next, CallStep, Over

LEMMA ReadyStep ==
  ASSUME IInv, ReadyWakeups, [Next]_vars
  PROVE  ReadyWakeups'
<1>. USE DEF IInv, TypeOK, PoolTypeOK, Goto, WorkerGoto, poolVars, slotVars, streamVars,
       flagVars, sleepVars, workerVars, callerVars, callerLocals, implVars,
       ReadyWakeups, ResultReady, Due, Drained, AboutToSignal, SignalReady
<1>1. ASSUME NEW t \in Threads, SubmitStep(t) PROVE ReadyWakeups'
  BY <1>1 DEF SubmitStep, AwaitRoom, PassRoom, SleepInPool, AcquireContext,
     InstallLease, RefuseLate, Letterbox, LetterboxFails, CommitSlot,
     CommitTooLate, ReleaseSlot, DropLease, NotifyPool, NoMoreFrames
<1>2. ASSUME NEW t \in Threads, PopResult(t), pc[t] # "finishing"
      PROVE  ReadyWakeups'
  BY <1>2 DEF PopResult
<1>3. ASSUME NEW t \in Threads, CallStart(t) \/ DrainStep(t) \/ SpuriousWakeup(t)
      PROVE  ReadyWakeups'
  BY <1>2, <1>3 DEF CallStart, DrainStep, CallAcquireSlot, CallNext, TryNext,
     Finish, AwaitResult, Next_, EndOfStream, Deliver, FinishNotify,
     SpuriousWakeup
<1>4. ASSUME NEW i \in Contexts, WorkerStep(i) \/ WorkerSpuriousWakeup(i)
      PROVE  ReadyWakeups'
  BY <1>4 DEF WorkerStep, WorkerSpuriousWakeup, WorkerSleep, Park,
     WorkerTake, Infer, ReturnContext, WorkerNotify, WorkerExitHeld, WorkerExit
<1>5. ASSUME Shutdown \/ OwnerStep \/ UNCHANGED vars PROVE ReadyWakeups'
  BY <1>5 DEF Shutdown, OwnerStep, ShutdownNotify, Join, vars
<1>. HIDE DEF ReadyWakeups
<1>. QED
  BY <1>1, <1>3, <1>4, <1>5 DEF Next, CallStep, Over

LEMMA WorkerWakeStep ==
  ASSUME IInv, WorkerWakeups, [Next]_vars
  PROVE  WorkerWakeups'
<1>. USE DEF IInv, TypeOK, PoolTypeOK, Goto, WorkerGoto, poolVars, slotVars, streamVars,
       flagVars, sleepVars, workerVars, callerVars, callerLocals, implVars,
       WorkerWakeups, VacateSlot, Awakened
<1>1. ASSUME NEW t \in Threads, SubmitStep(t) PROVE WorkerWakeups'
  BY <1>1 DEF SubmitStep, AwaitRoom, PassRoom, SleepInPool, AcquireContext,
     InstallLease, RefuseLate, Letterbox, LetterboxFails, CommitSlot,
     CommitTooLate, ReleaseSlot, DropLease, NotifyPool
<1>2. ASSUME NEW t \in Threads, CallStart(t) \/ DrainStep(t) \/ SpuriousWakeup(t)
      PROVE  WorkerWakeups'
  BY <1>2 DEF CallStart, DrainStep, CallAcquireSlot, CallNext, TryNext,
     Finish, AwaitResult, Next_, EndOfStream, Deliver, FinishNotify, PopResult,
     SpuriousWakeup
<1>3. ASSUME NEW i \in Contexts, WorkerStep(i) \/ WorkerSpuriousWakeup(i)
      PROVE  WorkerWakeups'
  BY <1>3 DEF WorkerStep, WorkerSpuriousWakeup, WorkerSleep, Park,
     WorkerTake, Infer, ReturnContext, WorkerNotify, WorkerExitHeld, WorkerExit
<1>4. ASSUME Shutdown \/ OwnerStep \/ UNCHANGED vars PROVE WorkerWakeups'
  BY <1>4 DEF Shutdown, OwnerStep, ShutdownNotify, Join, vars
<1>. HIDE DEF WorkerWakeups
<1>. QED
  BY <1>1, <1>2, <1>3, <1>4 DEF Next, CallStep, Over

\* The pool: those about to signal cv_ or awake and about to look.
Awake == {t \in Threads : pc[t] = "notify"
                             \/ (pc[t] = "context" /\ t \notin poolWaiters)}
Returning == {i \in Contexts : worker[i] \in {"notify", "notifyExit"}}

\* What a step does to the free contexts, to those two and to the sleepers.
Harmless ==
  /\ free' \subseteq free /\ poolWaiters' \subseteq poolWaiters
  /\ Awake \subseteq Awake' /\ Returning' = Returning

SleepsOnNothing == free = {} /\ free' = {}

TakesOne == \E i \in free, t \in Awake :
  /\ free' = free \ {i} /\ Awake' = Awake \ {t} /\ Returning' = Returning
  /\ UNCHANGED poolWaiters

CallerGives == \E i \in Contexts : \E t \in Threads \ Awake :
  /\ free' = free \cup {i} /\ Awake' = Awake \cup {t}
  /\ Returning' = Returning /\ UNCHANGED poolWaiters

WorkerGives == \E i \in Contexts \ Returning :
  /\ free' = free \cup {i} /\ Awake' = Awake
  /\ Returning' = Returning \cup {i} /\ UNCHANGED poolWaiters

CallerSignals == \E t \in Awake, w \in Threads \ Awake :
  /\ Awake' = (Awake \ {t}) \cup {w} /\ Returning' = Returning
  /\ UNCHANGED free /\ poolWaiters # {}

WorkerSignals == \E i \in Returning, w \in Threads \ Awake :
  /\ Awake' = Awake \cup {w} /\ Returning' = Returning \ {i}
  /\ UNCHANGED free /\ poolWaiters # {}

NobodySleeps == poolWaiters = {} /\ poolWaiters' = {}

WakeMove ==
  \/ Harmless \/ SleepsOnNothing \/ TakesOne \/ CallerGives \/ WorkerGives
  \/ CallerSignals \/ WorkerSignals \/ NobodySleeps

\* Counting: each kind of move keeps the sleepers covered.
LEMMA WakeMoveKeeps ==
  ASSUME IsFiniteSet(Threads), IInv, IInv', PoolWakeups, WakeMove
  PROVE  PoolWakeups'
<1>. DEFINE F == Cardinality(free)
            A == Cardinality(Awake)
            R == Cardinality(Returning)
<1>1. IsFiniteSet(free) /\ IsFiniteSet(free') /\ F \in Nat /\ F' \in Nat
  <2>1. free \in SUBSET Contexts /\ free' \in SUBSET Contexts
    BY DEF IInv, TypeOK, PoolTypeOK
  <2>. QED
    BY <2>1, FreeFinite, FS_CardinalityType
<1>2. IsFiniteSet(Awake) /\ IsFiniteSet(Awake') /\ A \in Nat /\ A' \in Nat
  <2>1. Awake \in SUBSET Threads /\ Awake' \in SUBSET Threads
    BY DEF Awake
  <2>. QED
    BY <2>1, FS_Subset, FS_CardinalityType
<1>3. /\ IsFiniteSet(Returning) /\ IsFiniteSet(Returning')
      /\ R \in Nat /\ R' \in Nat
  <2>1. Returning \in SUBSET Contexts /\ Returning' \in SUBSET Contexts
    BY DEF Returning
  <2>. QED
    BY <2>1, FreeFinite, FS_CardinalityType
<1>4. PoolAttentive = A + R /\ PoolAttentive' = A' + R'
  BY DEF PoolAttentive, Awake, Returning
<1>5. poolWaiters = {} \/ F <= A + R
  BY <1>4 DEF PoolWakeups
<1>6. SUFFICES poolWaiters' = {} \/ F' <= A' + R'
  BY <1>4 DEF PoolWakeups
<1>. HIDE DEF F, A, R
<1>0. F \in Nat /\ F' \in Nat /\ A \in Nat /\ A' \in Nat /\ R \in Nat /\ R' \in Nat
  BY <1>1, <1>2, <1>3
<1>7. CASE Harmless
  <2>1. F' <= F /\ A <= A' /\ R' = R
    BY <1>1, <1>2, <1>7, FS_Subset DEF Harmless, F, A, R
  <2>2. poolWaiters' \subseteq poolWaiters
    BY <1>7 DEF Harmless
  <2>3. poolWaiters = {} => poolWaiters' = {}
    BY <2>2
  <2>4. F <= A + R => F' <= A' + R'
    BY <1>0, <2>1 DEF F, A, R
  <2>. QED
    BY <1>5, <2>3, <2>4
<1>8. CASE SleepsOnNothing
  <2>1. F' = 0
    BY <1>8, FS_EmptySet DEF SleepsOnNothing, F
  <2>. QED
    BY <1>0, <2>1 DEF F, A, R
<1>9. CASE TakesOne
  <2>1. F' = F - 1 /\ A' = A - 1 /\ R' = R /\ UNCHANGED poolWaiters
    BY <1>1, <1>2, <1>9, FS_RemoveElement DEF TakesOne, F, A, R
  <2>. QED
    BY <1>0, <1>5, <2>1
<1>10. CASE CallerGives
  <2>1. F' <= F + 1 /\ A' = A + 1 /\ R' = R /\ UNCHANGED poolWaiters
    BY <1>1, <1>2, <1>10, FS_AddElement DEF CallerGives, F, A, R
  <2>. QED
    BY <1>0, <1>5, <2>1
<1>11. CASE WorkerGives
  <2>1. F' <= F + 1 /\ A' = A /\ R' = R + 1 /\ UNCHANGED poolWaiters
    BY <1>1, <1>3, <1>11, FS_AddElement DEF WorkerGives, F, A, R
  <2>. QED
    BY <1>0, <1>5, <2>1
<1>12. CASE CallerSignals
  <2>1. PICK t \in Awake, w \in Threads \ Awake : Awake' = (Awake \ {t}) \cup {w}
    BY <1>12 DEF CallerSignals
  <2>2. IsFiniteSet(Awake \ {t}) /\ Cardinality(Awake \ {t}) = A - 1
    BY <1>2, FS_RemoveElement DEF A
  <2>3. Cardinality((Awake \ {t}) \cup {w}) = A - 1 + 1
    <3>1. w \notin Awake \ {t}
      OBVIOUS
    <3>. QED
      BY <2>2, <3>1, FS_AddElement
  <2>4. A' = A
    BY <1>2, <2>1, <2>3 DEF A
  <2>5. F' = F /\ R' = R /\ poolWaiters # {}
    BY <1>12 DEF CallerSignals, F, R
  <2>. QED
    BY <1>5, <2>4, <2>5
<1>13. CASE WorkerSignals
  <2>1. F' = F /\ A' = A + 1 /\ R' = R - 1 /\ poolWaiters # {}
    BY <1>2, <1>3, <1>13, FS_AddElement, FS_RemoveElement
       DEF WorkerSignals, F, A, R
  <2>. QED
    BY <1>0, <1>5, <2>1
<1>. QED
  BY <1>7, <1>8, <1>9, <1>10, <1>11, <1>12, <1>13 DEF WakeMove, NobodySleeps

\* notify_one(), whoever issues it, wakes somebody who will look.
LEMMA NotifyWakes ==
  ASSUME TypeOK, SleepersAsk, NotifyOne
  PROVE  \/ NobodySleeps
         \/ \E w \in poolWaiters :
              /\ w \in Threads \ Awake /\ pc[w] = "context"
              /\ poolWaiters' = poolWaiters \ {w}
<1>1. CASE poolWaiters = {} /\ UNCHANGED poolWaiters
  BY <1>1 DEF NobodySleeps
<1>2. ASSUME NEW w \in poolWaiters, poolWaiters' = poolWaiters \ {w}
      PROVE  w \in Threads \ Awake /\ pc[w] = "context"
  BY <1>2 DEF TypeOK, PoolTypeOK, SleepersAsk, Awake
<1>. QED
  BY <1>1, <1>2 DEF NotifyOne

LEMMA WakeMoves ==
  ASSUME IInv, SleepersAsk, [Next]_vars
  PROVE  WakeMove /\ SleepersAsk'
<1>. USE DEF TypeOK, PoolTypeOK, Goto, WorkerGoto, poolVars, slotVars, streamVars,
       flagVars, sleepVars, workerVars, callerVars, callerLocals, implVars,
       SleepersAsk, Awake, Returning
<1>0. TypeOK
  BY DEF IInv
<1>1. ASSUME NEW t \in Threads, SleepInPool(t) PROVE WakeMove /\ SleepersAsk'
  <2>1. free = {} /\ free' = {}
    BY <1>1, PredicateMeansFree DEF SleepInPool, AwaitContext, PoolInv, IInv
  <2>2. SleepersAsk'
    BY <1>1 DEF SleepInPool, AwaitContext
  <2>. QED
    BY <2>1, <2>2 DEF SleepsOnNothing, WakeMove
<1>2. ASSUME NEW t \in Threads, AcquireContext(t)
      PROVE  WakeMove /\ SleepersAsk'
  <2>1. PICK i \in Contexts : Take(i)
    BY <1>2 DEF AcquireContext
  <2>2. i \in free /\ free' = free \ {i}
    BY <2>1 DEF Take
  <2>3. /\ t \in Awake /\ Awake' = Awake \ {t} /\ Returning' = Returning
        /\ UNCHANGED poolWaiters /\ SleepersAsk'
    BY <1>0, <1>2 DEF AcquireContext
  <2>. QED
    BY <2>2, <2>3 DEF TakesOne, WakeMove
<1>3. ASSUME NEW t \in Threads, DropLease(t) PROVE WakeMove /\ SleepersAsk'
  <2>1. ctx[t] \in Contexts /\ free' = free \cup {ctx[t]}
    BY <1>3 DEF DropLease, GiveBack, IInv, Ownership, CallersKnowTheirs, HoldsLease
  <2>2. /\ t \in Threads \ Awake /\ Awake' = Awake \cup {t}
        /\ Returning' = Returning /\ UNCHANGED poolWaiters /\ SleepersAsk'
    BY <1>0, <1>3 DEF DropLease
  <2>. QED
    BY <2>1, <2>2 DEF CallerGives, WakeMove
<1>4. ASSUME NEW t \in Threads, NotifyPool(t) PROVE WakeMove /\ SleepersAsk'
  <2>1. CASE NobodySleeps
    BY <1>0, <1>4, <2>1 DEF NobodySleeps, WakeMove
  <2>2. ASSUME NEW w \in poolWaiters, w \in Threads \ Awake, pc[w] = "context",
               poolWaiters' = poolWaiters \ {w}
        PROVE  WakeMove /\ SleepersAsk'
    <3>1. /\ t \in Awake /\ Awake' = (Awake \ {t}) \cup {w}
          /\ Returning' = Returning /\ UNCHANGED free /\ SleepersAsk'
      BY <1>0, <1>4, <2>2 DEF NotifyPool
    <3>. QED
      BY <2>2, <3>1 DEF CallerSignals, WakeMove
  <2>. HIDE DEF Awake, SleepersAsk
  <2>. QED
    BY <1>0, <1>4, <2>1, <2>2, NotifyWakes DEF NotifyPool
<1>5. ASSUME NEW t \in Threads, SubmitStep(t), ~SleepInPool(t),
             ~AcquireContext(t), ~DropLease(t), ~NotifyPool(t)
      PROVE  Harmless /\ SleepersAsk'
  BY <1>0, <1>5 DEF Harmless, SubmitStep, AwaitRoom, PassRoom, InstallLease,
     RefuseLate, Letterbox, LetterboxFails, CommitSlot, CommitTooLate,
     ReleaseSlot, Awakened
<1>6. ASSUME NEW t \in Threads, CallStart(t) \/ DrainStep(t) \/ SpuriousWakeup(t)
      PROVE  Harmless /\ SleepersAsk'
  BY <1>0, <1>6 DEF Harmless, CallStart, DrainStep, CallAcquireSlot, CallNext,
     TryNext, Finish, AwaitResult, Next_, EndOfStream, Deliver, FinishNotify,
     PopResult, SpuriousWakeup
<1>7. ASSUME NEW i \in Contexts, ReturnContext(i) \/ WorkerExit(i)
      PROVE  WakeMove /\ SleepersAsk'
  <2>1. UNCHANGED <<poolWaiters, pc>> /\ Awake' = Awake /\ SleepersAsk'
    BY <1>0, <1>7 DEF ReturnContext, WorkerExit
  <2>2. CASE GiveBack(i) /\ worker' \in {[worker EXCEPT ![i] = "notify"],
                                         [worker EXCEPT ![i] = "notifyExit"]}
    <3>1. i \in Contexts \ Returning /\ Returning' = Returning \cup {i}
      BY <1>0, <1>7, <2>2 DEF ReturnContext, WorkerExit
    <3>. QED
      BY <2>1, <2>2, <3>1 DEF WorkerGives, WakeMove, GiveBack
  <2>3. CASE UNCHANGED free /\ worker' = [worker EXCEPT ![i] = "exited"]
    <3>1. Returning' = Returning
      BY <1>0, <1>7, <2>3 DEF ReturnContext, WorkerExit
    <3>. QED
      BY <2>1, <2>3, <3>1 DEF Harmless, WakeMove
  <2>. QED
    BY <1>7, <2>2, <2>3 DEF ReturnContext, WorkerExit
<1>8. ASSUME NEW i \in Contexts, WorkerNotify(i)
      PROVE  WakeMove /\ SleepersAsk'
  <2>1. CASE NobodySleeps
    BY <1>0, <1>8, <2>1 DEF NobodySleeps, WakeMove
  <2>2. ASSUME NEW w \in poolWaiters, w \in Threads \ Awake, pc[w] = "context",
               poolWaiters' = poolWaiters \ {w}
        PROVE  WakeMove /\ SleepersAsk'
    <3>1. /\ i \in Returning /\ Returning' = Returning \ {i}
          /\ Awake' = Awake \cup {w} /\ UNCHANGED free /\ SleepersAsk'
      BY <1>0, <1>8, <2>2 DEF WorkerNotify
    <3>. QED
      BY <2>2, <3>1 DEF WorkerSignals, WakeMove
  <2>. HIDE DEF Awake, SleepersAsk
  <2>. QED
    BY <1>0, <1>8, <2>1, <2>2, NotifyWakes DEF WorkerNotify
<1>9. ASSUME NEW i \in Contexts, WorkerStep(i) \/ WorkerSpuriousWakeup(i),
             ~ReturnContext(i), ~WorkerExit(i), ~WorkerNotify(i)
      PROVE  Harmless /\ SleepersAsk'
  BY <1>0, <1>9 DEF Harmless, WorkerStep, WorkerSpuriousWakeup, WorkerSleep,
     Park, WorkerTake, Infer, WorkerExitHeld
<1>10. ASSUME Shutdown \/ OwnerStep \/ UNCHANGED vars
       PROVE  Harmless /\ SleepersAsk'
  BY <1>0, <1>10 DEF Harmless, Shutdown, OwnerStep, ShutdownNotify, Join, vars,
     Awakened
<1>. HIDE DEF TypeOK, SleepersAsk, Awake, Returning
<1>11. Harmless => WakeMove
  BY DEF WakeMove
<1>. QED
  BY <1>1, <1>2, <1>3, <1>4, <1>5, <1>6, <1>7, <1>8, <1>9, <1>10, <1>11
     DEF Next, CallStep, Over

\* No wakeup is lost on any of the four condition variables, for every
\* number of contexts and every finite set of caller threads: a sleeper sits
\* beside a true predicate only while somebody is about to signal it, and
\* the sleepers in acquire() are covered one by one though notify_one()
\* wakes one only and comes after the mutex is released.
THEOREM WakeupsAreNotLost ==
  ASSUME IsFiniteSet(Threads)
  PROVE  SafetySpec => []NoLostWakeup
<1>1. Init => WakeInv
  <2>. SUFFICES ASSUME Init PROVE WakeInv
    OBVIOUS
  <2>1. SInv
    BY InitSInv
  <2>. QED
    BY <2>1 DEF Init, PoolInit, WakeInv, SleepersAsk, NoLostWakeup
<1>2. WakeInv /\ [Next]_vars => WakeInv'
  <2>. SUFFICES ASSUME WakeInv, [Next]_vars PROVE WakeInv'
    OBVIOUS
  <2>1. SInv' /\ IInv /\ IInv' /\ Numbers /\ SleepersAsk
    BY NextSInv DEF WakeInv, SInv
  <2>2. IsFiniteSet((DOMAIN pending)')
    <3>1. /\ next_out' \in Int /\ next_in' - 1 \in Int
          /\ DOMAIN pending' \subseteq next_out' .. (next_in' - 1)
      BY <2>1 DEF SInv, IInv, TypeOK, Numbers, ParkedInRange
    <3>. QED
      BY <3>1, IntervalFinite
  <2>3. RoomWakeups' /\ ReadyWakeups' /\ WorkerWakeups'
    BY <2>1, <2>2, FourVariables, RoomStep, ReadyStep, WorkerWakeStep DEF WakeInv
  <2>4. PoolWakeups' /\ SleepersAsk'
    BY <2>1, FourVariables, WakeMoves, WakeMoveKeeps DEF WakeInv
  <2>5. NoLostWakeup'
    BY <2>3, <2>4 DEF NoLostWakeup, RoomWakeups, ReadyWakeups, WorkerWakeups,
       PoolWakeups
  <2>. QED
    BY <2>1, <2>4, <2>5 DEF WakeInv
<1>. QED
  BY <1>1, <1>2, PTL DEF SafetySpec, WakeInv

-----------------------------------------------------------------------------
(* The refinement: to its callers the pipeline is an OrderedStream.        *)

\* What callers, slots and the buffer have in hand is a frame somebody gave
\* them, and a reader's result is taken only while its call returns.
InHands ==
  /\ \A t \in Threads : pc[t] = "commit" => callerLb[t] \in Frames
  /\ \A i \in Contexts : slotState[i] = "queued" => slotLb[i] \in Frames
  /\ \A n \in DOMAIN pending : pending[n].lb \in Frames
  /\ \A t \in Threads :
       /\ pc[t] = "popped" => taken[t].dets \in Frames
       /\ pc[t] = "ended" => taken[t] = Ended
       /\ pc[t] \notin {"popped", "ended"} => taken[t] = NoResult

RInv == SInv /\ InHands

LEMMA InHandsStep ==
  ASSUME SInv, InHands, [Next]_vars
  PROVE  InHands'
<1>. USE DEF InHands, poolVars, slotVars, streamVars, flagVars, sleepVars,
       workerVars, callerVars, callerLocals, implVars, Goto, WorkerGoto, VacateSlot,
       NumberDrawn, Ours, Due
<1>0. /\ TypeOK /\ JobsMatchSlots /\ ResultsAreWhole
      /\ \A t \in Threads : HoldsSlot(t) => ctx[t] \in Contexts
      /\ \A i \in Contexts : worker[i] \in {"infer", "park"} => slotState[i] = "queued"
  BY OwnershipFacts DEF SInv, Contents
<1>1. ASSUME NEW t \in Threads, AwaitRoom(t) \/ PassRoom(t) \/ SleepInPool(t)
                \/ AcquireContext(t) \/ InstallLease(t) \/ RefuseLate(t)
      PROVE  InHands'
  BY <1>0, <1>1, OwnershipFacts DEF TypeOK, AwaitRoom, PassRoom, SleepInPool,
     AcquireContext, InstallLease, RefuseLate, SInv
<1>2. ASSUME NEW t \in Threads, LetterboxFails(t) \/ CommitTooLate(t) \/ ReleaseSlot(t)
                \/ DropLease(t) \/ NotifyPool(t)
                \/ \E f \in Frames : Letterbox(t, f)
      PROVE  InHands'
  BY <1>0, <1>2 DEF TypeOK, LetterboxFails, CommitTooLate, ReleaseSlot, DropLease,
     NotifyPool, Letterbox
<1>3. ASSUME NEW t \in Threads, CommitSlot(t) PROVE InHands'
  BY <1>0, <1>3 DEF TypeOK, CommitSlot, HoldsSlot
<1>4. ASSUME NEW t \in Threads, CallAcquireSlot(t) \/ CallNext(t) \/ Finish(t)
                \/ AwaitResult(t) \/ EndOfStream(t) \/ Deliver(t) \/ FinishNotify(t)
                \/ SpuriousWakeup(t)
      PROVE  InHands'
  BY <1>0, <1>4 DEF TypeOK, CallAcquireSlot, CallNext, Finish, AwaitResult, EndOfStream,
     Deliver, FinishNotify, SpuriousWakeup
<1>5. ASSUME NEW t \in Threads, PopResult(t) PROVE InHands'
  BY <1>0, <1>5 DEF TypeOK, PopResult, ResultReady, ResultsAreWhole
<1>6. ASSUME NEW i \in Contexts, WorkerSleep(i) \/ WorkerTake(i)
                \/ (\E ok \in BOOLEAN : Infer(i, ok)) \/ ReturnContext(i)
                \/ WorkerNotify(i) \/ WorkerExitHeld(i) \/ WorkerExit(i)
                \/ WorkerSpuriousWakeup(i)
      PROVE  InHands'
  BY <1>0, <1>6 DEF TypeOK, WorkerSleep, WorkerTake, Infer, ReturnContext, WorkerNotify,
     WorkerExitHeld, WorkerExit, WorkerSpuriousWakeup
<1>7. ASSUME NEW i \in Contexts, Park(i) PROVE InHands'
  <2>1. job[i].lb \in Frames
    BY <1>0, <1>7 DEF Park, JobsMatchSlots
  <2>. QED
    BY <1>0, <1>7, <2>1 DEF TypeOK, Park
<1>8. CASE Shutdown \/ ShutdownNotify \/ Join \/ UNCHANGED vars
  BY <1>8 DEF Shutdown, ShutdownNotify, Join, vars
<1>. QED
  BY <1>1, <1>2, <1>3, <1>4, <1>5, <1>6, <1>7, <1>8 DEF Next, CallStart, CallStep,
     SubmitStep, DrainStep, TryNext, Next_, WorkerStep, OwnerStep, Over

-----------------------------------------------------------------------------
\* A frame in flight is parked, or in the tensor of the one slot that carries it.
FrameIsOne ==
  SInv => \A n : /\ n \in DOMAIN pending => FrameOf(n) = pending[n].dets
                 /\ \A i \in Contexts : Carries(i, n) =>
                      n \notin DOMAIN pending /\ FrameOf(n) = tensor[i]

LEMMA FrameIsOneHolds == FrameIsOne
<1>. SUFFICES ASSUME SInv, NEW n
              PROVE  /\ n \in DOMAIN pending => FrameOf(n) = pending[n].dets
                     /\ \A i \in Contexts : Carries(i, n) =>
                          n \notin DOMAIN pending /\ FrameOf(n) = tensor[i]
  BY DEF FrameIsOne
<1>1. n \in DOMAIN pending => FrameOf(n) = pending[n].dets
  BY DEF FrameOf
<1>2. ASSUME NEW i \in Contexts, Carries(i, n)
      PROVE  n \notin DOMAIN pending /\ FrameOf(n) = tensor[i]
  <2>1. n \notin DOMAIN pending /\ \A j \in Contexts : Carries(j, n) => j = i
    BY <1>2 DEF SInv, Numbers, QueuedInRange, Carries
  <2>. QED
    BY <1>2, <2>1 DEF FrameOf
<1>. QED
  BY <1>1, <1>2

\* How far the frames in flight reach without a gap.
Reach(g) ==
  /\ g \in 0 .. (next_in - next_out)
  /\ \A n \in next_out .. (next_out + g - 1) : InFlight(n)
  /\ g < next_in - next_out => ~InFlight(next_out + g)

QueueReaches ==
  SInv => /\ next_in \in Nat /\ next_out \in Nat /\ next_out <= next_in
          /\ \E g \in Nat : Reach(g)
          /\ \A g \in Nat : Reach(g) =>
               StreamQueue = [k \in 1 .. g |-> FrameOf(next_out + k - 1)]

LEMMA LeastNatural ==
  ASSUME NEW S \in SUBSET Nat, S # {}
  PROVE  \E m \in S : \A k \in S : m <= k
<1>. DEFINE R == OpToRel(<, Nat)
<1>1. IsWellFoundedOn(R, Nat)
  BY NatLessThanWellFounded
<1>2. PICK m \in S : \A y \in S : <<y, m>> \notin R
  <2>. HIDE DEF R
  <2>. QED
    BY <1>1, WFMin
<1>3. \A x, y \in Nat : y < x => <<y, x>> \in R
  BY DEF OpToRel
<1>. HIDE DEF R
<1>4. ASSUME NEW k \in S PROVE m <= k
  <2>1. ~(k < m)
    BY <1>2, <1>3
  <2>. QED
    BY <2>1
<1>. QED
  BY <1>4

LEMMA QueueReachesHolds == QueueReaches
<1>. SUFFICES ASSUME SInv
              PROVE  /\ next_in \in Nat /\ next_out \in Nat /\ next_out <= next_in
                     /\ \E g \in Nat : Reach(g)
                     /\ \A g \in Nat : Reach(g) =>
                          StreamQueue = [k \in 1 .. g |-> FrameOf(next_out + k - 1)]
  BY DEF QueueReaches
<1>1. next_in \in Nat /\ next_out \in Nat /\ next_out <= next_in
  BY DEF SInv, IInv, TypeOK, Numbers, NotAhead
<1>2. \E g \in Nat : Reach(g)
  <2>. DEFINE Gaps == {k \in 0 .. (next_in - next_out) :
                         k = next_in - next_out \/ ~InFlight(next_out + k)}
  <2>1. Gaps \subseteq Nat /\ next_in - next_out \in Gaps
    BY <1>1
  <2>2. PICK g \in Gaps : \A y \in Gaps : g <= y
    <3>. HIDE DEF Gaps
    <3>. QED
      BY <2>1, LeastNatural
  <2>3. g \in Nat /\ g \in 0 .. (next_in - next_out)
    BY <1>1
  <2>4. ASSUME NEW n \in next_out .. (next_out + g - 1) PROVE InFlight(n)
    <3>1. /\ n - next_out \in 0 .. (next_in - next_out) /\ n - next_out < g
          /\ next_out + (n - next_out) = n
      BY <1>1, <2>3
    <3>2. n - next_out \notin Gaps
      BY <1>1, <2>2, <2>3, <3>1
    <3>. QED
      BY <3>1, <3>2
  <2>5. g < next_in - next_out => ~InFlight(next_out + g)
    BY <1>1, <2>3
  <2>. QED
    BY <2>3, <2>4, <2>5 DEF Reach
<1>3. ASSUME NEW g \in Nat, Reach(g)
      PROVE  StreamQueue = [k \in 1 .. g |-> FrameOf(next_out + k - 1)]
  <2>1. g \in Unbroken
    BY <1>3 DEF Reach, Unbroken
  <2>2. ASSUME NEW m \in Unbroken PROVE m <= g
    <3>1. m \in 0 .. (next_in - next_out)
          /\ \A n \in next_out .. (next_out + m - 1) : InFlight(n)
      BY DEF Unbroken
    <3>2. ASSUME m > g PROVE FALSE
      <4>1. g < next_in - next_out /\ next_out + g \in next_out .. (next_out + m - 1)
        BY <1>1, <3>1, <3>2
      <4>. QED
        BY <1>3, <3>1, <4>1 DEF Reach
    <3>. QED
      BY <1>1, <3>1, <3>2
  <2>3. Unbroken \subseteq Int
    BY <1>1 DEF Unbroken
  <2>4. QueueLength = g
    <3>1. QueueLength \in Unbroken /\ \A m \in Unbroken : m <= QueueLength
      BY <2>1, <2>2 DEF QueueLength
    <3>. QED
      BY <2>1, <2>2, <2>3, <3>1
  <2>. QED
    BY <2>4 DEF StreamQueue
<1>. QED
  BY <1>1, <1>2, <1>3

\* Both hold before and after a step.
LEMMA QueueFacts == FrameIsOne /\ FrameIsOne' /\ QueueReaches /\ QueueReaches'
  BY FrameIsOneHolds, QueueReachesHolds, PTL

\* A frame that stays where it is, or goes from its slot into the buffer.
LEMMA SameFrame ==
  ASSUME SInv, SInv', NEW n,
         \/ /\ n \in DOMAIN pending /\ n \in DOMAIN pending'
            /\ pending'[n].dets = pending[n].dets
         \/ \E i \in Contexts :
              /\ Carries(i, n)
              /\ \/ Carries(i, n)' /\ tensor'[i] = tensor[i]
                 \/ n \in DOMAIN pending' /\ pending'[n].dets = tensor[i]
  PROVE  InFlight(n) /\ InFlight(n)' /\ FrameOf(n)' = FrameOf(n)
<1>1. CASE /\ n \in DOMAIN pending /\ n \in DOMAIN pending'
           /\ pending'[n].dets = pending[n].dets
  BY <1>1, QueueFacts DEF FrameIsOne, InFlight
<1>2. ASSUME NEW i \in Contexts, Carries(i, n), Carries(i, n)', tensor'[i] = tensor[i]
      PROVE  InFlight(n) /\ InFlight(n)' /\ FrameOf(n)' = FrameOf(n)
  <2>1. FrameOf(n) = tensor[i] /\ FrameOf(n)' = tensor'[i]
    BY <1>2, QueueFacts DEF FrameIsOne
  <2>. QED
    BY <1>2, <2>1 DEF InFlight
<1>3. ASSUME NEW i \in Contexts, Carries(i, n), n \in DOMAIN pending',
             pending'[n].dets = tensor[i]
      PROVE  InFlight(n) /\ InFlight(n)' /\ FrameOf(n)' = FrameOf(n)
  <2>1. FrameOf(n) = tensor[i] /\ FrameOf(n)' = pending'[n].dets
    BY <1>3, QueueFacts DEF FrameIsOne
  <2>. QED
    BY <1>3, <2>1 DEF InFlight
<1>. QED
  BY <1>1, <1>2, <1>3

\* The queue does not change when no frame in flight does.
LEMMA QueueKept ==
  ASSUME SInv, SInv', next_in' = next_in, next_out' = next_out,
         \A n : InFlight(n)' => InFlight(n),
         \A n : InFlight(n) => InFlight(n)' /\ FrameOf(n)' = FrameOf(n)
  PROVE  StreamQueue' = StreamQueue
<1>1. PICK g \in Nat : Reach(g)
  BY QueueFacts DEF QueueReaches
<1>2. Reach(g)'
  BY <1>1 DEF Reach
<1>3. PICK at : at = next_out
  OBVIOUS
<1>4. next_out' = at /\ at \in Nat
  BY <1>3, QueueFacts DEF QueueReaches
<1>5. /\ StreamQueue = [k \in 1 .. g |-> FrameOf(at + k - 1)]
      /\ StreamQueue' = [k \in 1 .. g |-> FrameOf(at + k - 1)']
  BY <1>1, <1>2, <1>3, <1>4, QueueFacts DEF QueueReaches
<1>6. ASSUME NEW k \in 1 .. g
      PROVE  FrameOf(at + k - 1)' = FrameOf(at + k - 1)
  <2>1. at + k - 1 \in next_out .. (next_out + g - 1)
    BY <1>3, <1>4
  <2>2. InFlight(at + k - 1)
    BY <1>1, <2>1 DEF Reach
  <2>. QED
    BY <2>2
<1>. QED
  BY <1>5, <1>6

\* What most steps do to the stream: nothing.
Quiet ==
  /\ pending' = pending /\ slotSeq' = slotSeq
  /\ next_in' = next_in /\ next_out' = next_out
  /\ \A i \in Contexts : /\ slotState'[i] = "queued" <=> slotState[i] = "queued"
                         /\ slotState[i] = "queued" => tensor'[i] = tensor[i]

Listens == taken' = taken /\ last_lb' = last_lb
Runs == finished' = finished /\ stopping' = stopping

LEMMA QuietKeeps ==
  ASSUME SInv, SInv', Quiet
  PROVE  StreamQueue' = StreamQueue
<1>1. \A n, i : i \in Contexts => (Carries(i, n)' <=> Carries(i, n))
  BY DEF Quiet, Carries
<1>2. \A n : InFlight(n)' => InFlight(n)
  BY <1>1 DEF Quiet, InFlight
<1>3. ASSUME NEW n, InFlight(n) PROVE InFlight(n)' /\ FrameOf(n)' = FrameOf(n)
  <2>1. \/ n \in DOMAIN pending /\ n \in DOMAIN pending'
           /\ pending'[n].dets = pending[n].dets
        \/ \E i \in Contexts : Carries(i, n) /\ Carries(i, n)' /\ tensor'[i] = tensor[i]
    BY <1>1, <1>3 DEF InFlight, Quiet, Carries
  <2>. QED
    BY <2>1, SameFrame
<1>. QED
  BY <1>2, <1>3, QueueKept DEF Quiet

\* The steps that leave the stream alone.
LEMMA QuietSteps ==
  ASSUME SInv, NEW t \in Threads,
         \/ AwaitRoom(t) \/ PassRoom(t) \/ SleepInPool(t) \/ AcquireContext(t)
         \/ InstallLease(t) \/ RefuseLate(t)
         \/ (\E f \in Frames : Letterbox(t, f)) \/ LetterboxFails(t)
         \/ CommitTooLate(t) \/ ReleaseSlot(t) \/ DropLease(t) \/ NotifyPool(t)
         \/ CallAcquireSlot(t) \/ CallNext(t) \/ AwaitResult(t) \/ FinishNotify(t)
         \/ SpuriousWakeup(t)
  PROVE  Quiet /\ Listens /\ Runs
<1>. USE DEF Quiet, Listens, Runs, poolVars, slotVars, streamVars, flagVars, sleepVars,
       workerVars, callerVars, callerLocals, implVars, VacateSlot
<1>0. /\ TypeOK
      /\ \A u \in Threads : HoldsSlot(u) =>
              ctx[u] \in Contexts /\ slotState[ctx[u]] = "held"
      /\ \A u \in Threads : pc[u] = "install" =>
              ctx[u] \in Contexts /\ slotState[ctx[u]] = "free"
  BY OwnershipFacts DEF SInv
<1>1. CASE AwaitRoom(t) \/ PassRoom(t) \/ SleepInPool(t) \/ AcquireContext(t)
           \/ RefuseLate(t)
  BY <1>1 DEF AwaitRoom, PassRoom, SleepInPool, AcquireContext, RefuseLate
<1>2. CASE InstallLease(t)
  BY <1>0, <1>2 DEF InstallLease, TypeOK
<1>3. CASE (\E f \in Frames : Letterbox(t, f)) \/ LetterboxFails(t)
  BY <1>0, <1>3 DEF Letterbox, LetterboxFails, TypeOK, HoldsSlot
<1>4. CASE CommitTooLate(t) \/ ReleaseSlot(t)
  BY <1>0, <1>4 DEF CommitTooLate, ReleaseSlot, TypeOK, HoldsSlot
<1>5. CASE DropLease(t) \/ NotifyPool(t) \/ CallAcquireSlot(t) \/ CallNext(t)
           \/ AwaitResult(t) \/ FinishNotify(t) \/ SpuriousWakeup(t)
  BY <1>5 DEF DropLease, NotifyPool, CallAcquireSlot, CallNext, AwaitResult,
     FinishNotify, SpuriousWakeup
<1>. QED
  BY <1>1, <1>2, <1>3, <1>4, <1>5

LEMMA QuietWork ==
  ASSUME SInv, NEW i \in Contexts,
         \/ WorkerSleep(i) \/ WorkerTake(i) \/ (\E ok \in BOOLEAN : Infer(i, ok))
         \/ ReturnContext(i) \/ WorkerNotify(i) \/ WorkerExitHeld(i)
         \/ WorkerSpuriousWakeup(i)
  PROVE  Quiet /\ Listens /\ Runs
  BY DEF Quiet, Listens, Runs, poolVars, slotVars, streamVars, flagVars, sleepVars,
     workerVars, callerVars, callerLocals, implVars, WorkerSleep, WorkerTake, Infer,
     ReturnContext, WorkerNotify, WorkerExitHeld, WorkerSpuriousWakeup

LEMMA StreamStutters ==
  ASSUME StreamQueue' = StreamQueue, Listens, Runs
  PROVE  UNCHANGED Stream!vars
  BY DEF Stream!vars, Listens, Runs

-----------------------------------------------------------------------------
\* A worker parks its result: the frame stays where it is in the stream.
LEMMA ParkStutters ==
  ASSUME SInv, SInv', NEW i \in Contexts, Park(i)
  PROVE  UNCHANGED Stream!vars
<1>1. /\ TypeOK /\ worker[i] = "park" /\ slotState[i] = "queued"
      /\ job[i].seq = slotSeq[i] /\ job[i].dets = tensor[i]
  BY OwnershipFacts DEF SInv, Contents, JobsMatchSlots, LetterboxedTogether, Park
<1>2. PICK n : n = slotSeq[i]
  OBVIOUS
<1>3. Carries(i, n) /\ n \notin DOMAIN pending
  BY <1>1, <1>2, QueueFacts DEF Carries, FrameIsOne
<1>4. /\ DOMAIN pending' = DOMAIN pending \cup {n}
      /\ pending'[n].dets = tensor[i]
      /\ \A m \in DOMAIN pending : pending'[m] = pending[m]
      /\ slotSeq' = slotSeq /\ tensor' = tensor
      /\ slotState' = [slotState EXCEPT ![i] = "free"]
      /\ next_in' = next_in /\ next_out' = next_out
      /\ Listens /\ Runs
  BY <1>1, <1>2, <1>3 DEF Park, VacateSlot, Listens, Runs, flagVars, callerVars,
     callerLocals
<1>5. \A m, j : j \in Contexts => (Carries(j, m)' <=> Carries(j, m) /\ j # i)
  BY <1>1, <1>4 DEF Carries, TypeOK
<1>6. \A m : Carries(i, m) => m = n
  BY <1>2 DEF Carries
<1>7. ASSUME NEW m, InFlight(m)' PROVE InFlight(m)
  BY <1>3, <1>4, <1>5, <1>7 DEF InFlight
<1>8. ASSUME NEW m, InFlight(m) PROVE InFlight(m)' /\ FrameOf(m)' = FrameOf(m)
  <2>1. \/ m \in DOMAIN pending /\ m \in DOMAIN pending'
           /\ pending'[m].dets = pending[m].dets
        \/ \E j \in Contexts :
             /\ Carries(j, m)
             /\ \/ Carries(j, m)' /\ tensor'[j] = tensor[j]
                \/ m \in DOMAIN pending' /\ pending'[m].dets = tensor[j]
    BY <1>4, <1>5, <1>6, <1>8 DEF InFlight
  <2>. QED
    BY <2>1, SameFrame
<1>9. StreamQueue' = StreamQueue
  BY <1>4, <1>7, <1>8, QueueKept
<1>. QED
  BY <1>4, <1>9, StreamStutters

\* commitSlot() pushes the frame its caller has letterboxed.
LEMMA CommitPushes ==
  ASSUME SInv, InHands, SInv', NEW t \in Threads, CommitSlot(t)
  PROVE  \E f \in Frames : Stream!Push(f)
<1>1. PICK i : i = ctx[t]
  OBVIOUS
<1>2. /\ TypeOK /\ i \in Contexts /\ slotState[i] = "held"
      /\ callerLb[t] \in Frames /\ tensor[i] = callerLb[t] /\ ~stopping /\ ~finished
  BY <1>1, OwnershipFacts DEF SInv, Contents, LetterboxedTogether, InHands, CommitSlot,
     HoldsSlot, NoMoreFrames
<1>3. /\ slotState' = [slotState EXCEPT ![i] = "queued"]
      /\ slotSeq' = [slotSeq EXCEPT ![i] = next_in]
      /\ next_in' = next_in + 1 /\ next_out' = next_out
      /\ pending' = pending /\ tensor' = tensor /\ Listens /\ Runs
  BY <1>1 DEF CommitSlot, NumberDrawn, Listens, Runs, flagVars
<1>4. /\ next_in \in Nat /\ next_out \in Nat /\ next_out <= next_in
      /\ next_in \notin DOMAIN pending
  BY DEF SInv, IInv, TypeOK, Numbers, NotAhead, ParkedInRange
<1>5. PICK g \in Nat : g = next_in - next_out
  BY <1>4
<1>6. \A j, m : j \in Contexts /\ Carries(j, m) => j # i /\ Carries(j, m)'
  BY <1>2, <1>3 DEF Carries, TypeOK
<1>7. PICK last : last = next_in
  OBVIOUS
<1>8. ASSUME NEW m, InFlight(m) PROVE InFlight(m)' /\ FrameOf(m)' = FrameOf(m)
  <2>1. \/ m \in DOMAIN pending /\ m \in DOMAIN pending'
           /\ pending'[m].dets = pending[m].dets
        \/ \E j \in Contexts : Carries(j, m) /\ Carries(j, m)' /\ tensor'[j] = tensor[j]
    BY <1>3, <1>6, <1>8 DEF InFlight
  <2>. QED
    BY <2>1, SameFrame
<1>9. Reach(g)
  BY <1>2, <1>4, <1>5 DEF Reach, SInv, Numbers, NothingLost, InFlight
<1>10. Carries(i, last)'
  BY <1>2, <1>3, <1>7 DEF Carries, TypeOK
<1>11. InFlight(last)' /\ FrameOf(last)' = callerLb[t]
  <2>1. FrameOf(last)' = tensor'[i]
    BY <1>2, <1>10, QueueFacts DEF FrameIsOne
  <2>. QED
    BY <1>2, <1>3, <1>10, <2>1 DEF InFlight
<1>12. Reach(g + 1)'
  <2>1. ASSUME NEW n \in next_out .. last PROVE InFlight(n)'
    <3>1. n = last \/ n \in next_out .. (next_out + g - 1)
      BY <1>4, <1>5, <1>7
    <3>. QED
      BY <1>8, <1>9, <1>11, <3>1 DEF Reach
  <2>2. /\ g + 1 \in 0 .. (next_in' - next_out') /\ ~(g + 1 < next_in' - next_out')
        /\ next_out' .. (next_out' + (g + 1) - 1) = next_out .. last
    BY <1>3, <1>4, <1>5, <1>7
  <2>. QED
    BY <2>1, <2>2 DEF Reach
<1>13. PICK at : at = next_out
  OBVIOUS
<1>14. /\ StreamQueue = [k \in 1 .. g |-> FrameOf(at + k - 1)]
       /\ StreamQueue' = [k \in 1 .. g + 1 |-> FrameOf(at + k - 1)']
  BY <1>3, <1>9, <1>12, <1>13, QueueFacts DEF QueueReaches
<1>15. ASSUME NEW k \in 1 .. g
       PROVE  FrameOf(at + k - 1)' = FrameOf(at + k - 1)
  <2>1. at + k - 1 \in next_out .. (next_out + g - 1)
    BY <1>4, <1>13
  <2>. QED
    BY <1>8, <1>9, <2>1 DEF Reach
<1>16. at + (g + 1) - 1 = last
  BY <1>4, <1>5, <1>7, <1>13
<1>17. StreamQueue' = Append(StreamQueue, callerLb[t])
  <2>1. Len(StreamQueue) = g
    BY <1>14
  <2>2. Append(StreamQueue, callerLb[t])
          = [k \in 1 .. g + 1 |-> IF k = g + 1 THEN callerLb[t] ELSE StreamQueue[k]]
    BY <1>14, <2>1
  <2>3. ASSUME NEW k \in 1 .. g + 1
        PROVE  FrameOf(at + k - 1)' = IF k = g + 1 THEN callerLb[t] ELSE StreamQueue[k]
    <3>1. CASE k = g + 1
      BY <1>11, <1>16, <3>1
    <3>2. CASE k # g + 1
      BY <1>14, <1>15, <3>2
    <3>. QED
      BY <3>1, <3>2
  <2>. QED
    BY <1>14, <2>2, <2>3
<1>. QED
  BY <1>2, <1>3, <1>17 DEF Stream!Push, Listens, Runs

\* next() and tryNext() pop the head of the queue, with its geometry.
LEMMA PopPops ==
  ASSUME SInv, InHands, SInv', NEW t \in Threads, PopResult(t),
         pc[t] \in {"next", "idle"}
  PROVE  \E ok \in BOOLEAN : Stream!Pop(t, ok)
<1>1. PICK first : first = next_out
  OBVIOUS
<1>2. /\ TypeOK /\ first \in DOMAIN pending /\ pending[first] \in Result
      /\ pending[first].dets = pending[first].lb /\ taken[t] = NoResult
  BY <1>1, OwnershipFacts DEF SInv, Contents, ResultsAreWhole, InHands, PopResult,
     ResultReady, Due, TypeOK
<1>3. /\ taken' = [taken EXCEPT ![t] = pending[first]]
      /\ last_lb' = pending[first].lb
      /\ pending' = [n \in DOMAIN pending \ {first} |-> pending[n]]
      /\ next_out' = first + 1 /\ next_in' = next_in
      /\ slotSeq' = slotSeq /\ slotState' = slotState /\ tensor' = tensor /\ Runs
  BY <1>1 DEF PopResult, Due, Runs, flagVars, slotVars
<1>4. /\ next_in \in Nat /\ first \in Nat /\ first \in next_out .. (next_in - 1)
      /\ first < next_in
  BY <1>1, <1>2 DEF SInv, IInv, TypeOK, Numbers, NotAhead, ParkedInRange
<1>5. \A j \in Contexts : ~Carries(j, first)
  BY <1>2, QueueFacts DEF FrameIsOne
<1>6. \A j, m : j \in Contexts => (Carries(j, m)' <=> Carries(j, m))
  BY <1>3 DEF Carries
<1>7. DOMAIN pending' = DOMAIN pending \ {first}
      /\ \A m \in DOMAIN pending' : pending'[m] = pending[m]
  BY <1>3
<1>8. \A m : InFlight(m)' <=> InFlight(m) /\ m # first
  BY <1>5, <1>6, <1>7 DEF InFlight
<1>9. ASSUME NEW m, InFlight(m), m # first PROVE FrameOf(m)' = FrameOf(m)
  <2>1. \/ m \in DOMAIN pending /\ m \in DOMAIN pending'
           /\ pending'[m].dets = pending[m].dets
        \/ \E j \in Contexts : Carries(j, m) /\ Carries(j, m)' /\ tensor'[j] = tensor[j]
    BY <1>3, <1>6, <1>7, <1>9 DEF InFlight
  <2>. QED
    BY <2>1, SameFrame
<1>10. PICK g \in Nat : Reach(g)
  BY QueueFacts DEF QueueReaches
<1>11. g > 0
  BY <1>1, <1>2, <1>4, <1>10 DEF Reach, InFlight
<1>12. PICK h \in Nat : h + 1 = g
  <2>1. g - 1 \in Nat /\ (g - 1) + 1 = g
    BY <1>11
  <2>. QED
    BY <2>1
<1>13. Reach(h)'
  <2>1. ASSUME NEW n \in next_out' .. (next_out' + h - 1) PROVE InFlight(n)'
    <3>1. n \in next_out .. (next_out + g - 1) /\ n # first
      BY <1>1, <1>3, <1>4, <1>12
    <3>. QED
      BY <1>8, <1>10, <3>1 DEF Reach
  <2>2. h \in 0 .. (next_in' - next_out')
    BY <1>1, <1>3, <1>4, <1>10, <1>12 DEF Reach
  <2>3. ASSUME h < next_in' - next_out' PROVE ~InFlight(next_out + g)
    BY <1>1, <1>3, <1>4, <1>10, <1>12, <2>3 DEF Reach
  <2>4. PICK gap : gap = next_out + g
    OBVIOUS
  <2>5. gap = next_out' + h
    BY <1>1, <1>3, <1>4, <1>12, <2>4
  <2>6. h < next_in' - next_out' => ~InFlight(gap)'
    BY <1>8, <2>3, <2>4
  <2>. QED
    BY <2>1, <2>2, <2>5, <2>6 DEF Reach
<1>14. PICK second : second = next_out'
  OBVIOUS
<1>15. second = first + 1 /\ second \in Nat
  BY <1>3, <1>4, <1>14
<1>16. /\ StreamQueue = [k \in 1 .. g |-> FrameOf(first + k - 1)]
       /\ StreamQueue' = [k \in 1 .. h |-> FrameOf(second + k - 1)']
  BY <1>1, <1>10, <1>13, <1>14, QueueFacts DEF QueueReaches
<1>17. ASSUME NEW k \in 1 .. h
       PROVE  FrameOf(second + k - 1)' = FrameOf(first + (k + 1) - 1)
  <2>1. /\ first + (k + 1) - 1 = second + k - 1 /\ second + k - 1 # first
        /\ second + k - 1 \in next_out .. (next_out + g - 1)
    BY <1>1, <1>4, <1>12, <1>15
  <2>2. InFlight(second + k - 1)
    BY <1>10, <2>1 DEF Reach
  <2>. QED
    BY <1>9, <2>1, <2>2
<1>18. /\ Len(StreamQueue) = g /\ StreamQueue # <<>>
       /\ Head(StreamQueue) = pending[first].dets
       /\ Tail(StreamQueue) = [k \in 1 .. h |-> StreamQueue[k + 1]]
  <2>1. Len(StreamQueue) = g /\ 1 \in 1 .. g /\ g - 1 = h
    BY <1>11, <1>12, <1>16
  <2>2. StreamQueue[1] = FrameOf(first)
    <3>1. first + 1 - 1 = first
      BY <1>4
    <3>. QED
      BY <1>16, <2>1, <3>1
  <2>3. FrameOf(first) = pending[first].dets
    BY <1>2, QueueFacts DEF FrameIsOne
  <2>4. StreamQueue # <<>>
    BY <1>11, <2>1
  <2>5. Head(StreamQueue) = StreamQueue[1]
    BY <1>16
  <2>6. Tail(StreamQueue) = [k \in 1 .. Len(StreamQueue) - 1 |-> StreamQueue[k + 1]]
    BY <1>16, <2>1
  <2>. QED
    BY <2>1, <2>2, <2>3, <2>4, <2>5, <2>6
<1>19. StreamQueue' = Tail(StreamQueue)
  <2>1. ASSUME NEW k \in 1 .. h PROVE StreamQueue[k + 1] = FrameOf(first + (k + 1) - 1)
    <3>1. k + 1 \in 1 .. g
      BY <1>12
    <3>. QED
      BY <1>16, <3>1
  <2>. QED
    BY <1>16, <1>17, <1>18, <2>1
<1>20. PICK f, ok : /\ ok \in BOOLEAN /\ pending[first].dets = f
                    /\ pending[first] = [dets |-> f, lb |-> f, ok |-> ok]
  <2>1. PICK r \in Result : r = pending[first]
    BY <1>2
  <2>2. r = [dets |-> r.dets, lb |-> r.lb, ok |-> r.ok] /\ r.ok \in BOOLEAN
    BY DEF Result
  <2>. QED
    BY <1>2, <2>1, <2>2
<1>21. Head(StreamQueue) = f /\ pending[first] = Stream!Outcome(f, ok) /\ last_lb' = f
  BY <1>3, <1>18, <1>20 DEF Stream!Outcome
<1>22. taken' = [taken EXCEPT ![t] = Stream!Outcome(Head(StreamQueue), ok)]
  BY <1>3, <1>21
<1>23. Stream!Pop(t, ok)
  BY <1>2, <1>3, <1>18, <1>19, <1>21, <1>22 DEF Stream!Pop, Stream!Nothing, NoResult, Runs
<1>. QED
  BY <1>20, <1>23

\* A worker that leaves its frame behind cuts the queue there.
LEMMA ExitAbandons ==
  ASSUME SInv, SInv', NEW i \in Contexts, WorkerExit(i)
  PROVE  Stream!Abandon \/ UNCHANGED Stream!vars
<1>1. /\ TypeOK /\ stopping /\ slotState[i] # "held"
      /\ slotState' = [slotState EXCEPT ![i] = "free"] /\ slotSeq' = slotSeq
      /\ pending' = pending /\ next_in' = next_in /\ next_out' = next_out
      /\ tensor' = tensor /\ Listens /\ Runs
  BY OwnershipFacts DEF SInv, WorkerExit, Ours, VacateSlot, streamVars, flagVars,
     callerVars, callerLocals, Listens, Runs
<1>2. CASE slotState[i] # "queued"
  <2>1. Quiet
    BY <1>1, <1>2 DEF Quiet, TypeOK
  <2>. QED
    BY <1>1, <2>1, QuietKeeps, StreamStutters
<1>3. CASE slotState[i] = "queued"
  <2>1. PICK n : n = slotSeq[i]
    OBVIOUS
  <2>2. PICK at : at = next_out
    OBVIOUS
  <2>3. /\ at \in Nat /\ next_in \in Nat /\ n \in at .. (next_in - 1)
        /\ n \notin DOMAIN pending /\ \A j \in Contexts : Carries(j, n) => j = i
    BY <1>1, <1>3, <2>1, <2>2 DEF TypeOK, SInv, Numbers, QueuedInRange
  <2>4. Carries(i, n) /\ \A m : Carries(i, m) => m = n
    BY <1>3, <2>1 DEF Carries
  <2>5. \A j, m : j \in Contexts => (Carries(j, m)' <=> Carries(j, m) /\ j # i)
    BY <1>1 DEF Carries, TypeOK
  <2>6. \A m : InFlight(m)' <=> InFlight(m) /\ m # n
    BY <1>1, <2>3, <2>4, <2>5 DEF InFlight
  <2>7. ASSUME NEW m, InFlight(m), m # n PROVE FrameOf(m)' = FrameOf(m)
    <3>1. \/ m \in DOMAIN pending /\ m \in DOMAIN pending'
             /\ pending'[m].dets = pending[m].dets
          \/ \E j \in Contexts :
               Carries(j, m) /\ Carries(j, m)' /\ tensor'[j] = tensor[j]
      BY <1>1, <2>4, <2>5, <2>7 DEF InFlight
    <3>. QED
      BY <3>1, SameFrame
  <2>8. PICK g \in Nat : Reach(g)
    BY QueueFacts DEF QueueReaches
  <2>9. PICK h \in Nat : h = IF n < at + g THEN n - at ELSE g
    <3>1. n - at \in Nat
      BY <2>3
    <3>. QED
      BY <3>1
  <2>10. h \in 0 .. g /\ (h < g => at + h = n) /\ (n < at + g => at + h = n)
    BY <2>3, <2>9
  <2>11. Reach(h)'
    <3>1. ASSUME NEW m \in at .. (at + h - 1) PROVE InFlight(m)'
      <4>1. m \in at .. (at + g - 1) /\ m # n
        BY <2>3, <2>9, <2>10
      <4>. QED
        BY <2>2, <2>6, <2>8, <4>1 DEF Reach
    <3>2. h \in 0 .. (next_in - at)
      BY <2>2, <2>3, <2>8, <2>10 DEF Reach
    <3>3. h < next_in - at => ~InFlight(at + h)'
      <4>1. CASE at + h = n
        BY <2>6, <4>1
      <4>2. CASE h = g
        BY <2>2, <2>6, <2>8, <4>2 DEF Reach
      <4>. QED
        BY <2>10, <4>1, <4>2
    <3>. QED
      BY <1>1, <2>2, <3>1, <3>2, <3>3 DEF Reach
  <2>12. /\ StreamQueue = [k \in 1 .. g |-> FrameOf(at + k - 1)]
         /\ StreamQueue' = [k \in 1 .. h |-> FrameOf(at + k - 1)']
    BY <1>1, <2>2, <2>8, <2>11, QueueFacts DEF QueueReaches
  <2>13. ASSUME NEW k \in 1 .. h
         PROVE  FrameOf(at + k - 1)' = StreamQueue[k]
    <3>1. /\ at + k - 1 \in at .. (at + g - 1) /\ at + k - 1 # n /\ k \in 1 .. g
      BY <2>3, <2>9, <2>10
    <3>2. InFlight(at + k - 1)
      BY <2>2, <2>8, <3>1 DEF Reach
    <3>3. FrameOf(at + k - 1)' = FrameOf(at + k - 1)
      BY <2>7, <3>1, <3>2
    <3>. QED
      BY <2>12, <3>1, <3>3
  <2>14. Len(StreamQueue) = g /\ h \in 0 .. Len(StreamQueue)
    BY <2>10, <2>12
  <2>15. SubSeq(StreamQueue, 1, h) = [k \in 1 .. h |-> StreamQueue[k]]
    BY <2>10, <2>12, <2>14
  <2>16. StreamQueue' = SubSeq(StreamQueue, 1, h)
    BY <2>12, <2>13, <2>15
  <2>. QED
    BY <1>1, <2>14, <2>16 DEF Stream!Abandon, Listens, Runs
<1>. QED
  BY <1>2, <1>3

\* Nothing in flight, nothing in the queue.
LEMMA EmptyQueue ==
  ASSUME SInv, next_out = next_in
  PROVE  StreamQueue = <<>>
<1>1. Reach(0)
  BY QueueFacts DEF QueueReaches, Reach
<1>2. StreamQueue = [k \in 1 .. 0 |-> FrameOf(next_out + k - 1)]
  BY <1>1, QueueFacts DEF QueueReaches
<1>. QED
  BY <1>2

\* The end of the stream, a returning call and the two flags.
LEMMA EndEnds ==
  ASSUME SInv, InHands, SInv', NEW t \in Threads, EndOfStream(t)
  PROVE  Stream!End(t)
<1>1. /\ taken[t] = NoResult /\ taken' = [taken EXCEPT ![t] = Ended]
      /\ Quiet /\ Runs /\ last_lb' = last_lb
      /\ stopping \/ (finished /\ next_out = next_in)
  BY DEF InHands, EndOfStream, Quiet, Runs, Drained, implVars, slotVars, streamVars,
     flagVars
<1>2. StreamQueue' = StreamQueue
  BY <1>1, QuietKeeps
<1>3. (finished /\ StreamQueue = <<>>) \/ stopping
  BY <1>1, EmptyQueue
<1>. QED
  BY <1>1, <1>2, <1>3 DEF Stream!End, Stream!Nothing, Stream!TheEnd, NoResult, Ended, Runs

LEMMA DeliverReturns ==
  ASSUME SInv, InHands, SInv', NEW t \in Threads, Deliver(t)
  PROVE  Stream!Return(t)
<1>1. /\ pc[t] \in {"popped", "ended"} /\ taken' = [taken EXCEPT ![t] = NoResult]
      /\ Quiet /\ Runs /\ last_lb' = last_lb
  BY DEF Deliver, Quiet, Runs, implVars, slotVars, streamVars, flagVars
<1>2. taken[t] # NoResult
  <2>1. NoResult.dets = NoFrame /\ NoResult.ok = FALSE /\ Ended.ok = TRUE
    BY DEF NoResult, Ended
  <2>2. CASE pc[t] = "popped"
    BY <2>1, <2>2, ConfigAssumption DEF InHands
  <2>3. CASE pc[t] = "ended"
    BY <2>1, <2>3 DEF InHands
  <2>. QED
    BY <1>1, <2>2, <2>3
<1>3. StreamQueue' = StreamQueue
  BY <1>1, QuietKeeps
<1>. QED
  BY <1>1, <1>2, <1>3 DEF Stream!Return, Stream!Nothing, NoResult, Runs

LEMMA FlagsClose ==
  ASSUME SInv, SInv'
  PROVE  /\ \A t \in Threads : Finish(t) => Stream!Close
         /\ Shutdown => Stream!Abort
<1>. USE DEF Quiet, implVars, slotVars, streamVars, flagVars, callerVars, callerLocals
<1>1. ASSUME NEW t \in Threads, Finish(t) PROVE Stream!Close
  <2>1. Quiet
    BY <1>1 DEF Finish
  <2>. QED
    BY <1>1, <2>1, QuietKeeps DEF Stream!Close, Finish
<1>2. ASSUME Shutdown PROVE Stream!Abort
  <2>1. Quiet
    BY <1>2 DEF Shutdown
  <2>. QED
    BY <1>2, <2>1, QuietKeeps DEF Stream!Abort, Shutdown
<1>. QED
  BY <1>1, <1>2

\* Every step of the pipeline is a step of the queue, or none.
LEMMA StreamStep ==
  ASSUME SInv, InHands, SInv', [Next]_vars
  PROVE  [Stream!Next]_Stream!vars
<1>1. ASSUME NEW t \in Threads, CallStart(t) \/ CallStep(t) \/ SpuriousWakeup(t)
      PROVE  [Stream!Next]_Stream!vars
  <2>1. CASE \/ AwaitRoom(t) \/ PassRoom(t) \/ SleepInPool(t) \/ AcquireContext(t)
             \/ InstallLease(t) \/ RefuseLate(t)
             \/ (\E f \in Frames : Letterbox(t, f)) \/ LetterboxFails(t)
             \/ CommitTooLate(t) \/ ReleaseSlot(t) \/ DropLease(t) \/ NotifyPool(t)
             \/ CallAcquireSlot(t) \/ CallNext(t) \/ AwaitResult(t) \/ FinishNotify(t)
             \/ SpuriousWakeup(t)
    BY <2>1, QuietSteps, QuietKeeps, StreamStutters
  <2>2. CASE CommitSlot(t)
    BY <2>2, CommitPushes DEF Stream!Next
  <2>3. CASE Next_(t) \/ TryNext(t)
    BY <2>3, PopPops DEF Stream!Next, Next_, TryNext
  <2>4. CASE EndOfStream(t)
    BY <2>4, EndEnds DEF Stream!Next
  <2>5. CASE Deliver(t)
    BY <2>5, DeliverReturns DEF Stream!Next
  <2>6. CASE Finish(t)
    BY <2>6, FlagsClose DEF Stream!Next
  <2>. QED
    BY <1>1, <2>1, <2>2, <2>3, <2>4, <2>5, <2>6 DEF CallStart, CallStep, SubmitStep,
       DrainStep
<1>2. ASSUME NEW i \in Contexts, WorkerStep(i) \/ WorkerSpuriousWakeup(i)
      PROVE  [Stream!Next]_Stream!vars
  <2>1. CASE \/ WorkerSleep(i) \/ WorkerTake(i) \/ (\E ok \in BOOLEAN : Infer(i, ok))
             \/ ReturnContext(i) \/ WorkerNotify(i) \/ WorkerExitHeld(i)
             \/ WorkerSpuriousWakeup(i)
    BY <2>1, QuietWork, QuietKeeps, StreamStutters
  <2>2. CASE Park(i)
    BY <2>2, ParkStutters
  <2>3. CASE WorkerExit(i)
    BY <2>3, ExitAbandons DEF Stream!Next
  <2>. QED
    BY <1>2, <2>1, <2>2, <2>3 DEF WorkerStep
<1>3. CASE Shutdown
  BY <1>3, FlagsClose DEF Stream!Next
<1>4. CASE OwnerStep \/ UNCHANGED vars
  <2>1. Quiet /\ Listens /\ Runs
    BY <1>4 DEF OwnerStep, ShutdownNotify, Join, Quiet, Listens, Runs, vars, implVars,
       slotVars, streamVars, flagVars, callerVars, callerLocals
  <2>. QED
    BY <2>1, QuietKeeps, StreamStutters
<1>. QED
  BY <1>1, <1>2, <1>3, <1>4 DEF Next, Over

LEMMA StreamStart == Init => InHands /\ Stream!Init
<1>. SUFFICES ASSUME Init PROVE InHands /\ Stream!Init
  OBVIOUS
<1>1. StreamQueue = <<>>
  BY InitSInv, EmptyQueue DEF Init
<1>2. InHands
  BY DEF Init, InHands
<1>. QED
  BY <1>1, <1>2 DEF Init, Stream!Init, Stream!Nothing, NoResult

(***************************************************************************)
(* To its callers the pipeline is an OrderedStream, whatever the numbers   *)
(* of contexts and callers: each step of the slots, workers and locks is a *)
(* step of the plain queue, or changes nothing a caller can see.           *)
(***************************************************************************)
THEOREM PipelineIsAnOrderedStream == SafetySpec => RefinesOrderedStream
<1>1. Init => RInv /\ Stream!Init
  BY InitSInv, StreamStart DEF RInv
<1>2. RInv /\ [Next]_vars => RInv' /\ [Stream!Next]_Stream!vars
  BY NextSInv, InHandsStep, StreamStep DEF RInv
<1>. QED
  BY <1>1, <1>2, PTL DEF SafetySpec, RefinesOrderedStream, Stream!Spec
=============================================================================

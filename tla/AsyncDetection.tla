--------------------------- MODULE AsyncDetection ---------------------------
(***************************************************************************)
(* rcdl::AsyncDetectionPipeline (src/src/pipeline/                         *)
(* async_detection_pipeline.cc) together with the EnginePool it leases its *)
(* NPU contexts from.  Caller threads letterbox frames into the input      *)
(* tensor of a leased context and commit them; worker i infers on context  *)
(* i and parks the result under its sequence number; next() hands results  *)
(* out in submission order.                                                *)
(*                                                                         *)
(* One action is one critical section on mu or on the pool's mu_, one      *)
(* notify that the code issues after unlocking, or one stretch of code run *)
(* without a lock (letterbox, infer + decode).  The four kinds of          *)
(* condition variable are explicit sets of sleepers: a sleeper takes no    *)
(* step until somebody removes it from the set.                            *)
(***************************************************************************)
EXTENDS EnginePool

CONSTANTS Submitters,   \* threads that call acquireSlot() ... commitSlot()
          Consumers,    \* threads that call next() and tryNext()
          Frames,       \* source images, told apart by identity only
          NoFrame,      \* content of an input tensor nobody has written
          Depth,        \* reorder_depth
          MaxFrames     \* bound on the sequence numbers a run explores

ASSUME ConfigAssumption ==
  /\ Submitters \subseteq Threads /\ Consumers \subseteq Threads
  /\ NoFrame \notin Frames
  /\ Depth \in Nat \ {0}
  /\ MaxFrames \in Nat

VARIABLES
  \* Slot i of Impl::slots
  slotState,   \* kFree, kHeld, kQueued
  slotLease,   \* whether slot i holds the lease of context i
  slotSeq, slotLb,
  tensor,      \* the frame in the input tensor of context i
  \* The rest of Impl
  pending,     \* reorder buffer: a function on the parked sequence numbers
  next_in, next_out, finished, stopping, last_lb,
  \* Sleepers (those of worker i's slot->cv are in worker[i])
  readyWaiters,   \* cv_ready
  roomWaiters,    \* cv_room
  \* Threads: where each is, and its locals
  worker,      \* worker[i]: see TypeOK
  job,         \* job[i]: worker i's locals seq, lb and Result
  pc,          \* pc[t]: where caller t is
  ctx,         \* ctx[t]: index of the local lease or slot handle of t
  callerLb,    \* callerLb[t]: what letterboxIntoSlot() returned to t
  taken,       \* taken[t]: the Result next() or tryNext() popped for t
  owner        \* the thread that runs the destructor

slotVars   == <<slotState, slotLease, slotSeq, slotLb>>
streamVars == <<pending, next_in, next_out, last_lb>>
flagVars   == <<finished, stopping>>
sleepVars  == <<readyWaiters, roomWaiters>>
workerVars == <<worker, job>>
callerLocals == <<ctx, callerLb, taken>>
callerVars == <<pc, callerLocals>>
implVars   == <<slotVars, tensor, streamVars, flagVars>>
vars == <<poolVars, implVars, sleepVars, workerVars, callerVars, owner>>

-----------------------------------------------------------------------------

Images == Frames \cup {NoFrame}

\* A Result: the frame its detections come from, its letterbox geometry
\* (that of one frame), and ok = FALSE when infer or decode threw.
Result   == [dets : Images, lb : Images, ok : BOOLEAN]
NoResult == [dets |-> NoFrame, lb |-> NoFrame, ok |-> FALSE]
Ended    == [dets |-> NoFrame, lb |-> NoFrame, ok |-> TRUE]

Job   == [seq : Nat, dets : Images, lb : Images, ok : BOOLEAN]
NoJob == [seq |-> 0, dets |-> NoFrame, lb |-> NoFrame, ok |-> FALSE]

\* Caller t holds an empty-handed Lease, a local Lease, or a slot handle.
HoldsLease(t) == pc[t] \in {"install", "dropLease"}
HoldsSlot(t)  == pc[t] \in {"letterbox", "commit", "release"}

CallerPlaces == {"idle",
  "room",        \* acquireSlot(): waiting for reorder room
  "context",     \* acquireSlot(): in pool->acquire()
  "install",     \* acquireSlot(): about to put the lease into its slot
  "letterbox",   \* letterboxIntoSlot(): the RGA operation
  "commit",      \* about to call commitSlot()
  "release",     \* about to call releaseSlot()
  "dropLease",   \* ~Lease outside mu: about to give the context back
  "notify",      \* give_back(): about to signal the pool's cv_
  "next",        \* in next()
  "popped",      \* next(), tryNext(): about to signal cv_room and deliver
  "ended",       \* next(): about to return false
  "finishing"}   \* finish(): flag set, about to signal

WorkerPlaces == {
  "look",        \* about to evaluate the wait predicate under mu
  "asleep",      \* on its slot's cv
  "infer",       \* running infer() and postprocess(), no lock held
  "park",        \* about to park its result under mu
  "return",      \* about to give its context back, outside mu
  "notify",      \* give_back(): about to signal the pool's cv_
  "notifyExit",  \* the same on the way out
  "exited"}

TypeOK ==
  /\ PoolTypeOK
  /\ slotState \in [Contexts -> {"free", "held", "queued"}]
  /\ slotLease \in [Contexts -> BOOLEAN]
  /\ slotSeq \in [Contexts -> Nat]
  /\ slotLb \in [Contexts -> Images]
  /\ tensor \in [Contexts -> Images]
  /\ DOMAIN pending \subseteq Nat
  /\ \A n \in DOMAIN pending : pending[n] \in Result
  /\ next_in \in Nat /\ next_out \in Nat
  /\ finished \in BOOLEAN /\ stopping \in BOOLEAN
  /\ last_lb \in Images
  /\ readyWaiters \in SUBSET Threads /\ roomWaiters \in SUBSET Threads
  /\ worker \in [Contexts -> WorkerPlaces]
  /\ job \in [Contexts -> Job]
  /\ pc \in [Threads -> CallerPlaces]
  /\ ctx \in [Threads -> Contexts \cup {NoContext}]
  /\ callerLb \in [Threads -> Images]
  /\ taken \in [Threads -> Result]
  /\ owner \in {"alive", "flagged", "joining", "joined"}

Init ==
  /\ PoolInit
  /\ slotState = [i \in Contexts |-> "free"]
  /\ slotLease = [i \in Contexts |-> FALSE]
  /\ slotSeq = [i \in Contexts |-> 0]
  /\ slotLb = [i \in Contexts |-> NoFrame]
  /\ tensor = [i \in Contexts |-> NoFrame]
  /\ pending = [n \in {} |-> NoResult]
  /\ next_in = 0 /\ next_out = 0
  /\ finished = FALSE /\ stopping = FALSE
  /\ last_lb = NoFrame
  /\ readyWaiters = {} /\ roomWaiters = {}
  /\ worker = [i \in Contexts |-> "look"]
  /\ job = [i \in Contexts |-> NoJob]
  /\ pc = [t \in Threads |-> "idle"]
  /\ ctx = [t \in Threads |-> NoContext]
  /\ callerLb = [t \in Threads |-> NoFrame]
  /\ taken = [t \in Threads |-> NoResult]
  /\ owner = "alive"

-----------------------------------------------------------------------------
(* Helpers: control flow, the slot table, the condition variables.         *)

Goto(t, where)       == pc' = [pc EXCEPT ![t] = where]
WorkerGoto(i, where) == worker' = [worker EXCEPT ![i] = where]

\* Seeded fault: the notify is forgotten.
NotAwakened(w) == w

\* slot->cv.notify_one() or notify_all(): only worker i sleeps there.
Awakened(w) == IF w = "asleep" THEN "look" ELSE w

\* Seeded fault: the worker parks its result and tells nobody.
SignalReadyLost == UNCHANGED readyWaiters

\* Seeded fault: submitters asleep for room are left asleep.
SignalRoomLost == UNCHANGED roomWaiters

\* cv_ready.notify_all() and cv_room.notify_all().
SignalReady == readyWaiters' = {}
SignalRoom  == roomWaiters' = {}

\* Seeded fault: the lease is copied out of slot i and not moved.
VacateSlotKeepsLease(i) ==
  /\ slotState' = [slotState EXCEPT ![i] = "free"]
  /\ UNCHANGED <<slotLease, slotSeq, slotLb>>

\* `lease` moves out of slot i, which becomes free.
VacateSlot(i) ==
  /\ slotState' = [slotState EXCEPT ![i] = "free"]
  /\ slotLease' = [slotLease EXCEPT ![i] = FALSE]
  /\ UNCHANGED <<slotSeq, slotLb>>

NoMoreFrames == finished \/ stopping

\* Bound of the model: submissions begun never exceed MaxFrames.
Submitting == {t \in Threads : HoldsLease(t) \/ HoldsSlot(t)
                                 \/ pc[t] \in {"room", "context"}}
WithinBound == next_in + Cardinality(Submitting) < MaxFrames

-----------------------------------------------------------------------------
(* acquireSlot().  A call begins only while the object is alive; calls     *)
(* already begun when the destructor starts run on.                        *)

CallAcquireSlot(t) ==
  /\ t \in Submitters
  /\ pc[t] = "idle"
  /\ owner = "alive"
  /\ WithinBound
  /\ Goto(t, "room")
  /\ UNCHANGED <<poolVars, implVars, sleepVars, workerVars, callerLocals,
                 owner>>

\* Seeded fault: one result too many.
RoomPredicateOffByOne == NoMoreFrames \/ Cardinality(DOMAIN pending) <= Depth

RoomPredicate == NoMoreFrames \/ Cardinality(DOMAIN pending) < Depth

AwaitRoom(t) ==
  /\ pc[t] = "room" /\ t \notin roomWaiters
  /\ ~RoomPredicate
  /\ roomWaiters' = roomWaiters \cup {t}
  /\ UNCHANGED <<poolVars, implVars, readyWaiters, workerVars, callerVars,
                 owner>>

\* Back-pressure #1 passed: -1 when the stream is over, else on to the pool.
PassRoom(t) ==
  /\ pc[t] = "room" /\ t \notin roomWaiters
  /\ RoomPredicate
  /\ Goto(t, IF NoMoreFrames THEN "idle" ELSE "context")
  /\ UNCHANGED <<poolVars, implVars, sleepVars, workerVars, callerLocals,
                 owner>>

SleepInPool(t) ==
  /\ pc[t] = "context" /\ t \notin poolWaiters
  /\ AwaitContext(t)
  /\ UNCHANGED <<implVars, sleepVars, workerVars, callerVars, owner>>

AcquireContext(t) ==
  /\ pc[t] = "context" /\ t \notin poolWaiters
  /\ ContextAvailable
  /\ \E i \in Contexts : Take(i) /\ ctx' = [ctx EXCEPT ![t] = i]
  /\ Goto(t, "install")
  /\ UNCHANGED <<poolWaiters, implVars, sleepVars, workerVars, callerLb, taken,
                 owner>>

\* Step 3: the lease moves into its slot.
InstallLease(t) ==
  /\ pc[t] = "install"
  /\ ~NoMoreFrames
  /\ slotState' = [slotState EXCEPT ![ctx[t]] = "held"]
  /\ slotLease' = [slotLease EXCEPT ![ctx[t]] = TRUE]
  /\ Goto(t, "letterbox")
  /\ UNCHANGED <<poolVars, slotSeq, slotLb, tensor, streamVars, flagVars,
                 sleepVars, workerVars, callerLocals, owner>>

\* finish() or the destructor overtook the wait for a context: return -1,
\* and ~Lease puts the context back once mu is unlocked.
RefuseLate(t) ==
  /\ pc[t] = "install"
  /\ NoMoreFrames
  /\ Goto(t, "dropLease")
  /\ UNCHANGED <<poolVars, implVars, sleepVars, workerVars, callerLocals,
                 owner>>

-----------------------------------------------------------------------------
(* letterboxIntoSlot(), commitSlot(), releaseSlot().  submit() is these    *)
(* three in a row; a caller of the three steps does the same.  Callers     *)
(* pair every slot with one commit or release, so checkedSlot()'s test is  *)
(* a conjunct here and the invariant HandleIsValid says it never throws.   *)

Held(i) == slotState[i] = "held"

\* The RGA operation ends and the frame is in the context's input tensor.
Letterbox(t, f) ==
  /\ pc[t] = "letterbox"
  /\ Held(ctx[t])
  /\ tensor' = [tensor EXCEPT ![ctx[t]] = f]
  /\ callerLb' = [callerLb EXCEPT ![t] = f]
  /\ Goto(t, "commit")
  /\ UNCHANGED <<poolVars, slotVars, streamVars, flagVars, sleepVars,
                 workerVars, ctx, taken, owner>>

\* The RGA operation throws: what the tensor holds now is anybody's guess.
LetterboxFails(t) ==
  /\ pc[t] = "letterbox"
  /\ Held(ctx[t])
  /\ tensor' = [tensor EXCEPT ![ctx[t]] = NoFrame]
  /\ Goto(t, "release")
  /\ UNCHANGED <<poolVars, slotVars, streamVars, flagVars, sleepVars,
                 workerVars, callerLocals, owner>>

\* Seeded fault: ++next_in where the code has next_in++.
PreIncremented == next_in + 1

\* The sequence number commitSlot() gives its frame.
NumberDrawn == next_in

CommitSlot(t) ==
  LET i == ctx[t] IN
  /\ pc[t] = "commit"
  /\ Held(i)
  /\ ~NoMoreFrames
  /\ slotState' = [slotState EXCEPT ![i] = "queued"]
  /\ slotLb' = [slotLb EXCEPT ![i] = callerLb[t]]
  /\ slotSeq' = [slotSeq EXCEPT ![i] = NumberDrawn]
  /\ next_in' = next_in + 1
  /\ WorkerGoto(i, Awakened(worker[i]))
  /\ Goto(t, "idle")
  /\ ctx' = [ctx EXCEPT ![t] = NoContext]
  /\ callerLb' = [callerLb EXCEPT ![t] = NoFrame]
  /\ UNCHANGED <<poolVars, slotLease, tensor, pending, next_out, last_lb,
                 flagVars, sleepVars, job, taken, owner>>

\* commitSlot() returns false: finish() won the race and the frame is lost.
CommitTooLate(t) ==
  /\ pc[t] = "commit"
  /\ Held(ctx[t])
  /\ NoMoreFrames
  /\ VacateSlot(ctx[t])
  /\ Goto(t, "dropLease")
  /\ UNCHANGED <<poolVars, tensor, streamVars, flagVars, sleepVars, workerVars,
                 callerLocals, owner>>

ReleaseSlot(t) ==
  /\ pc[t] = "release"
  /\ Held(ctx[t])
  /\ VacateSlot(ctx[t])
  /\ Goto(t, "dropLease")
  /\ UNCHANGED <<poolVars, tensor, streamVars, flagVars, sleepVars, workerVars,
                 callerLocals, owner>>

\* ~Lease of a caller, after mu is unlocked: give_back(), then its notify.
DropLease(t) ==
  /\ pc[t] = "dropLease"
  /\ GiveBack(ctx[t])
  /\ Goto(t, "notify")
  /\ ctx' = [ctx EXCEPT ![t] = NoContext]
  /\ callerLb' = [callerLb EXCEPT ![t] = NoFrame]
  /\ UNCHANGED <<poolWaiters, implVars, sleepVars, workerVars, taken, owner>>

NotifyPool(t) ==
  /\ pc[t] = "notify"
  /\ NotifyOne
  /\ Goto(t, "idle")
  /\ UNCHANGED <<free, in_use, implVars, sleepVars, workerVars, callerLocals,
                 owner>>

-----------------------------------------------------------------------------
(* workerLoop(i).                                                          *)

WorkerSleep(i) ==
  /\ worker[i] = "look"
  /\ slotState[i] # "queued" /\ ~stopping
  /\ WorkerGoto(i, "asleep")
  /\ UNCHANGED <<poolVars, implVars, sleepVars, job, callerVars, owner>>

\* Seeded fault: the context goes back as soon as its frame is picked up.
WorkerTakeReturnsEarly(i) ==
  /\ worker[i] = "look"
  /\ slotState[i] = "queued" /\ ~stopping
  /\ job' = [job EXCEPT ![i] = [NoJob EXCEPT !.seq = slotSeq[i],
                                             !.lb = slotLb[i]]]
  /\ VacateSlot(i)
  /\ GiveBack(i)
  /\ WorkerGoto(i, "infer")
  /\ UNCHANGED <<poolWaiters, tensor, streamVars, flagVars, sleepVars,
                 callerVars, owner>>

WorkerTake(i) ==
  /\ worker[i] = "look"
  /\ slotState[i] = "queued" /\ ~stopping
  /\ job' = [job EXCEPT ![i] = [NoJob EXCEPT !.seq = slotSeq[i],
                                             !.lb = slotLb[i]]]
  /\ WorkerGoto(i, "infer")
  /\ UNCHANGED <<poolVars, implVars, sleepVars, callerVars, owner>>

\* infer() and postprocess() ran on what the tensor holds; ok = FALSE when
\* one of them threw.
Infer(i, ok) ==
  /\ worker[i] = "infer"
  /\ job' = [job EXCEPT ![i] =
               [seq |-> @.seq, lb |-> @.lb, dets |-> tensor[i], ok |-> ok]]
  /\ WorkerGoto(i, "park")
  /\ UNCHANGED <<poolVars, implVars, sleepVars, callerVars, owner>>

\* pending.emplace() inserts nothing if the key is there already.
Park(i) ==
  LET n == job[i].seq
      r == [dets |-> job[i].dets, lb |-> job[i].lb, ok |-> job[i].ok]
  IN
  /\ worker[i] = "park"
  /\ pending' = [m \in DOMAIN pending \cup {n} |->
                   IF m \in DOMAIN pending THEN pending[m] ELSE r]
  /\ VacateSlot(i)
  /\ SignalReady
  /\ job' = [job EXCEPT ![i] = NoJob]
  /\ WorkerGoto(i, "return")
  /\ UNCHANGED <<poolVars, tensor, next_in, next_out, last_lb, flagVars,
                 roomWaiters, callerVars, owner>>

\* done.release(), outside mu: give_back(), then its notify.
ReturnContext(i) ==
  /\ worker[i] = "return"
  /\ GiveBack(i)
  /\ WorkerGoto(i, "notify")
  /\ UNCHANGED <<poolWaiters, implVars, sleepVars, job, callerVars, owner>>

WorkerNotify(i) ==
  /\ worker[i] \in {"notify", "notifyExit"}
  /\ NotifyOne
  /\ WorkerGoto(i, IF worker[i] = "notify" THEN "look" ELSE "exited")
  /\ UNCHANGED <<free, in_use, implVars, sleepVars, job, callerVars, owner>>

\* Seeded fault: the exit takes back a slot its caller is writing into.
OursAnyway(i) == TRUE

\* The slot is not in its caller's hands.
Ours(i) == slotState[i] # "held"

\* stopping: leave a slot its caller is writing into alone, ...
WorkerExitHeld(i) ==
  /\ worker[i] = "look" /\ stopping
  /\ ~Ours(i)
  /\ WorkerGoto(i, "exited")
  /\ UNCHANGED <<poolVars, implVars, sleepVars, job, callerVars, owner>>

\* ... and give back the context of a frame that will never be inferred.
\* (A free slot has an empty lease, whose release() does nothing.)
WorkerExit(i) ==
  /\ worker[i] = "look" /\ stopping
  /\ Ours(i)
  /\ VacateSlot(i)
  /\ IF slotLease[i]
     THEN GiveBack(i) /\ WorkerGoto(i, "notifyExit")
     ELSE UNCHANGED <<free, in_use>> /\ WorkerGoto(i, "exited")
  /\ UNCHANGED <<poolWaiters, tensor, streamVars, flagVars, sleepVars, job,
                 callerVars, owner>>

-----------------------------------------------------------------------------
(* next(), tryNext(), finish() and the destructor.                         *)

CallNext(t) ==
  /\ t \in Consumers
  /\ pc[t] = "idle"
  /\ owner = "alive"
  /\ Goto(t, "next")
  /\ UNCHANGED <<poolVars, implVars, sleepVars, workerVars, callerLocals,
                 owner>>

\* Seeded fault: the oldest result parked, due or not.
OldestParked ==
  IF DOMAIN pending = {} THEN next_out
  ELSE CHOOSE n \in DOMAIN pending : \A m \in DOMAIN pending : n <= m

\* The sequence number next() waits for and pops.
Due == next_out

ResultReady == Due \in DOMAIN pending
Drained     == finished /\ next_out = next_in

AwaitResult(t) ==
  /\ pc[t] = "next" /\ t \notin readyWaiters
  /\ ~ResultReady /\ ~stopping /\ ~Drained
  /\ readyWaiters' = readyWaiters \cup {t}
  /\ UNCHANGED <<poolVars, implVars, roomWaiters, workerVars, callerVars,
                 owner>>

PopResult(t) ==
  /\ ResultReady
  /\ taken' = [taken EXCEPT ![t] = pending[Due]]
  /\ last_lb' = pending[Due].lb
  /\ pending' = [n \in DOMAIN pending \ {Due} |-> pending[n]]
  /\ next_out' = next_out + 1
  /\ Goto(t, "popped")
  /\ UNCHANGED <<poolVars, slotVars, tensor, next_in, flagVars, sleepVars,
                 workerVars, ctx, callerLb, owner>>

Next_(t) == pc[t] = "next" /\ t \notin readyWaiters /\ PopResult(t)

\* With nothing to pop, tryNext() returns false and changes nothing.
TryNext(t) ==
  /\ t \in Consumers
  /\ pc[t] = "idle"
  /\ owner = "alive"
  /\ PopResult(t)

EndOfStream(t) ==
  /\ pc[t] = "next" /\ t \notin readyWaiters
  /\ ~ResultReady /\ (stopping \/ Drained)
  /\ taken' = [taken EXCEPT ![t] = Ended]
  /\ Goto(t, "ended")
  /\ UNCHANGED <<poolVars, implVars, sleepVars, workerVars, ctx, callerLb,
                 owner>>

\* cv_room.notify_all() after a pop, then deliver(): the detections, or the
\* worker's exception; or next() returns false.
Deliver(t) ==
  /\ pc[t] \in {"popped", "ended"}
  /\ IF pc[t] = "popped" THEN SignalRoom ELSE UNCHANGED roomWaiters
  /\ taken' = [taken EXCEPT ![t] = NoResult]
  /\ Goto(t, "idle")
  /\ UNCHANGED <<poolVars, implVars, readyWaiters, workerVars, ctx, callerLb,
                 owner>>

\* finish(), from any thread; a second call returns at once.
Finish(t) ==
  /\ pc[t] = "idle"
  /\ owner = "alive"
  /\ ~finished
  /\ finished' = TRUE
  /\ Goto(t, "finishing")
  /\ UNCHANGED <<poolVars, slotVars, tensor, streamVars, stopping, sleepVars,
                 workerVars, callerLocals, owner>>

\* finish() has unlocked mu: both of its notify_all() calls.
FinishNotify(t) ==
  /\ pc[t] = "finishing"
  /\ SignalReady /\ SignalRoom
  /\ Goto(t, "idle")
  /\ UNCHANGED <<poolVars, implVars, workerVars, callerLocals, owner>>

\* ~Impl() -> shutdown(): the flags under mu, ...
Shutdown ==
  /\ owner = "alive"
  /\ finished' = TRUE /\ stopping' = TRUE
  /\ owner' = "flagged"
  /\ UNCHANGED <<poolVars, slotVars, tensor, streamVars, sleepVars, workerVars,
                 callerVars>>

\* ... then every condition variable, ...
ShutdownNotify ==
  /\ owner = "flagged"
  /\ worker' = [i \in Contexts |-> Awakened(worker[i])]
  /\ SignalRoom /\ SignalReady
  /\ owner' = "joining"
  /\ UNCHANGED <<poolVars, implVars, job, callerVars>>

\* ... then a join of every worker.
Join ==
  /\ owner = "joining"
  /\ \A i \in Contexts : worker[i] = "exited"
  /\ owner' = "joined"
  /\ UNCHANGED <<poolVars, implVars, sleepVars, workerVars, callerVars>>

\* A condition variable may wake a sleeper nobody signalled.
SpuriousWakeup(t) ==
  /\ t \in poolWaiters \cup readyWaiters \cup roomWaiters
  /\ poolWaiters' = poolWaiters \ {t}
  /\ readyWaiters' = readyWaiters \ {t}
  /\ roomWaiters' = roomWaiters \ {t}
  /\ UNCHANGED <<free, in_use, implVars, workerVars, callerVars, owner>>

WorkerSpuriousWakeup(i) ==
  /\ worker[i] = "asleep"
  /\ WorkerGoto(i, "look")
  /\ UNCHANGED <<poolVars, implVars, sleepVars, job, callerVars, owner>>

\* The program has ended: nothing more will happen, by design.
Over ==
  /\ owner = "joined"
  /\ \A t \in Threads : pc[t] = "idle"
  /\ UNCHANGED vars

-----------------------------------------------------------------------------

SubmitStep(t) ==
  \/ AwaitRoom(t) \/ PassRoom(t) \/ SleepInPool(t) \/ AcquireContext(t)
  \/ InstallLease(t) \/ RefuseLate(t)
  \/ (\E f \in Frames : Letterbox(t, f)) \/ LetterboxFails(t)
  \/ CommitSlot(t) \/ CommitTooLate(t) \/ ReleaseSlot(t)
  \/ DropLease(t) \/ NotifyPool(t)

DrainStep(t) ==
  AwaitResult(t) \/ Next_(t) \/ EndOfStream(t) \/ Deliver(t) \/ FinishNotify(t)

\* Thread t goes on with the call it is in.
CallStep(t) == SubmitStep(t) \/ DrainStep(t)

CallStart(t) ==
  CallAcquireSlot(t) \/ CallNext(t) \/ TryNext(t) \/ Finish(t)

WorkerStep(i) ==
  \/ WorkerSleep(i) \/ WorkerTake(i) \/ (\E ok \in BOOLEAN : Infer(i, ok))
  \/ Park(i) \/ ReturnContext(i) \/ WorkerNotify(i)
  \/ WorkerExitHeld(i) \/ WorkerExit(i)

OwnerStep == ShutdownNotify \/ Join

Next ==
  \/ \E t \in Threads : CallStart(t) \/ CallStep(t) \/ SpuriousWakeup(t)
  \/ \E i \in Contexts : WorkerStep(i) \/ WorkerSpuriousWakeup(i)
  \/ Shutdown \/ OwnerStep \/ Over

SafetySpec == Init /\ [][Next]_vars

(***************************************************************************)
(* A thread inside a call, a worker and the destructor are scheduled until *)
(* they return or sleep, and RGA and NPU operations end.  Nothing obliges  *)
(* a caller to make a call, the owner to destroy the pipeline, or a        *)
(* condition variable to wake anybody spuriously.                          *)
(***************************************************************************)
Fairness ==
  /\ \A t \in Threads : WF_vars(CallStep(t))
  /\ \A i \in Contexts : WF_vars(WorkerStep(i))
  /\ WF_vars(OwnerStep)

Spec == SafetySpec /\ Fairness

-----------------------------------------------------------------------------
(* Safety.                                                                 *)

(***************************************************************************)
(* Every context is in exactly one place: the pool's free list, one        *)
(* caller's local Lease, the lease of its slot, or worker i's local        *)
(* `done`.  So no context is run by two threads and none drops out of      *)
(* circulation, in any interleaving of commit, release, a refused commit,  *)
(* finish() and the destructor.                                            *)
(***************************************************************************)
HasLease(t, i) == HoldsLease(t) /\ ctx[t] = i

OneOwner == \A i \in Contexts :
  /\ i \notin free =>
       slotLease[i] \/ worker[i] = "return" \/ \E t \in Threads : HasLease(t, i)
  /\ slotLease[i] => i \notin free /\ worker[i] # "return"
  /\ worker[i] = "return" => i \notin free
  /\ \A t \in Threads : HasLease(t, i) =>
       /\ i \notin free /\ ~slotLease[i] /\ worker[i] # "return"
       /\ \A u \in Threads : HasLease(u, i) => u = t

(***************************************************************************)
(* The input tensor of a context is never written by an RGA operation      *)
(* while another caller's RGA operation writes it or infer() reads it,     *)
(* though none of the three holds a lock.                                  *)
(***************************************************************************)
Writes(t, i) == pc[t] = "letterbox" /\ ctx[t] = i

ExclusiveTensor == \A i \in Contexts : \A t \in Threads : Writes(t, i) =>
  /\ worker[i] # "infer"
  /\ \A u \in Threads : Writes(u, i) => u = t

(***************************************************************************)
(* A slot handle a caller has from acquireSlot() and has not committed or  *)
(* released is held, and is its alone: checkedSlot() never throws at a     *)
(* caller that pairs its calls, not even while the workers shut down.      *)
(***************************************************************************)
HandleIsValid == \A t \in Threads : HoldsSlot(t) =>
  /\ Held(ctx[t])
  /\ \A u \in Threads : HoldsSlot(u) /\ ctx[u] = ctx[t] => u = t

(***************************************************************************)
(* No hole in the stream: until the destructor runs, every committed,      *)
(* undelivered sequence number is parked or with one worker, never both,   *)
(* so next() never waits for a frame nobody is working on.                 *)
(***************************************************************************)
Carries(i, n) == slotState[i] = "queued" /\ slotSeq[i] = n

NoHole == ~stopping =>
  /\ DOMAIN pending \subseteq next_out .. (next_in - 1)
  /\ \A n \in next_out .. (next_in - 1) :
       n \in DOMAIN pending \/ \E i \in Contexts : Carries(i, n)
  /\ \A i \in Contexts : slotState[i] = "queued" =>
       /\ slotSeq[i] \in (next_out .. (next_in - 1)) \ DOMAIN pending
       /\ \A j \in Contexts : Carries(j, slotSeq[i]) => j = i

(***************************************************************************)
(* The reorder buffer is bounded, though acquireSlot() tests it long       *)
(* before the frame it lets in is parked: by the depth, plus the frames    *)
(* with the workers, plus those of submitters that had passed the test.    *)
(***************************************************************************)
ReorderBound ==
  Cardinality(DOMAIN pending) < Depth + Size + Cardinality(Submitters)

(***************************************************************************)
(* What the constructor's comment says of that bound: "out-of-order        *)
(* occupancy alone can never exceed `workers`", so a pipeline whose caller *)
(* keeps up never fills the buffer.  Occupancy is out of order when the    *)
(* next result is not there to be drained.  One slow frame refutes it: the *)
(* other workers go on to park a result each time they are given a frame.  *)
(***************************************************************************)
OutOfOrderWithinWorkers ==
  ~ResultReady => Cardinality(DOMAIN pending) <= Size

(***************************************************************************)
(* No lost wakeup, on any of the four condition variables.  A thread       *)
(* sleeps beside a true predicate only while another is about to signal.   *)
(* For the pool, where one notify wakes one sleeper, every free context is *)
(* matched by a thread about to notify or awake and about to look.         *)
(***************************************************************************)
AboutToSignal(places) ==
  owner = "flagged" \/ \E t \in Threads : pc[t] \in places

PoolAttentive ==
  Cardinality({t \in Threads : pc[t] = "notify"
                 \/ (pc[t] = "context" /\ t \notin poolWaiters)})
  + Cardinality({i \in Contexts : worker[i] \in {"notify", "notifyExit"}})

NoLostWakeup ==
  /\ roomWaiters # {} /\ RoomPredicate => AboutToSignal({"popped", "finishing"})
  /\ readyWaiters # {} /\ (ResultReady \/ stopping \/ Drained)
       => AboutToSignal({"finishing"})
  /\ \A i \in Contexts : worker[i] = "asleep" =>
       slotState[i] # "queued" /\ (stopping => owner = "flagged")
  /\ poolWaiters = {} \/ Cardinality(free) <= PoolAttentive

-----------------------------------------------------------------------------
(* Refinement: to its callers the pipeline is an OrderedStream.            *)

\* The frame of sequence number n, wherever it is now.
InFlight(n) == n \in DOMAIN pending \/ \E i \in Contexts : Carries(i, n)
FrameOf(n) == IF n \in DOMAIN pending THEN pending[n].dets
              ELSE tensor[CHOOSE i \in Contexts : Carries(i, n)]

\* Up to the first sequence number a worker has abandoned, if one has.
Unbroken == {k \in 0 .. (next_in - next_out) :
               \A n \in next_out .. (next_out + k - 1) : InFlight(n)}
QueueLength == CHOOSE k \in Unbroken : \A m \in Unbroken : m <= k

StreamQueue == [k \in 1 .. QueueLength |-> FrameOf(next_out + k - 1)]

Stream == INSTANCE OrderedStream WITH
  Readers  <- Threads,
  queue    <- StreamQueue,
  closed   <- finished,
  aborted  <- stopping,
  handed   <- taken,
  geometry <- last_lb

(***************************************************************************)
(* Results come out once each, in submission order, with the detections    *)
(* and the geometry of their own frame; a worker's failure surfaces in the *)
(* place of the frame it happened on; next() reports the end only when the *)
(* finished stream is drained, or the destructor runs.                     *)
(***************************************************************************)
RefinesOrderedStream == Stream!Spec

-----------------------------------------------------------------------------
(* Liveness.                                                               *)

(***************************************************************************)
(* Every committed frame is parked, unless the destructor abandons it.     *)
(***************************************************************************)
EveryFrameIsParked == \A n \in 0 .. (MaxFrames - 1) :
  n < next_in ~> n \in DOMAIN pending \/ n < next_out \/ stopping

(***************************************************************************)
(* A lone reader blocked in next() is served when a frame is in flight:    *)
(* the result it waits for is parked, and parking wakes it.                *)
(***************************************************************************)
ReaderIsServed == \A t \in Consumers :
  pc[t] = "next" /\ next_out < next_in ~> pc[t] # "next"

(***************************************************************************)
(* finish() gets every thread out of its call: a submitter asleep for room *)
(* or for a context and a reader asleep for a result all return.           *)
(***************************************************************************)
FinishEndsEveryCall ==
  \A t \in Threads : finished /\ pc[t] # "idle" ~> pc[t] = "idle"

(***************************************************************************)
(* The destructor's joins end: every worker comes to its exit.             *)
(***************************************************************************)
DestructorReturns == owner = "flagged" ~> owner = "joined"
=============================================================================

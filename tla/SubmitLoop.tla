----------------------------- MODULE SubmitLoop -----------------------------
(***************************************************************************)
(* The "typical use" of AsyncDetectionPipeline its header gives            *)
(* (src/include/rcdl/pipeline/async_detection_pipeline.h): one thread that *)
(* submits every frame of a stream, calls next() after each submission but *)
(* the first Lag, then finishes and drains.  Run against AsyncDetection.   *)
(***************************************************************************)
EXTENDS AsyncDetection

CONSTANTS Caller,   \* the one thread: Threads is {Caller}
          Lag       \* results the loop lets pile up before it drains

VARIABLE loop   \* where Caller is in its loop

loopVars == <<vars, loop>>

LoopInit == Init /\ loop = "submit"

LoopGoto(where) == loop' = where

\* Caller goes on with the call it is in.  If the letterbox throws, so does
\* submit(), and the exception ends the loop.
InCall ==
  /\ CallStep(Caller)
  /\ LoopGoto(IF pc'[Caller] = "release" THEN "thrown" ELSE loop)

\* p.submit(frame.view()), or the end of the stream.
LoopSubmit ==
  /\ loop = "submit"
  /\ \/ CallAcquireSlot(Caller) /\ LoopGoto("submitted")
     \/ ~WithinBound /\ LoopGoto("finish") /\ UNCHANGED vars

\* submit() has returned: next_in frames are in.
LoopSubmitted ==
  /\ loop = "submitted" /\ pc[Caller] = "idle"
  /\ LoopGoto(IF next_in > Lag THEN "next" ELSE "submit")
  /\ UNCHANGED vars

\* if (i++ >= Lag) p.next(dets)
LoopDrainOne ==
  \/ /\ loop = "next"
     /\ CallNext(Caller) /\ LoopGoto("drained")
  \/ /\ loop = "drained" /\ pc[Caller] = "idle"
     /\ LoopGoto("submit") /\ UNCHANGED vars

\* p.finish(); while (p.next(dets)).  Only the call that returns false ends
\* the loop; Drained says beforehand which one that is.
LoopFinish ==
  \/ /\ loop = "finish"
     /\ Finish(Caller) /\ LoopGoto("drain")
  \/ /\ loop = "drain"
     /\ pc[Caller] = "idle" /\ ~Drained
     /\ CallNext(Caller) /\ UNCHANGED loop
  \/ /\ loop = "drain"
     /\ pc[Caller] = "idle" /\ Drained
     /\ LoopGoto("done") /\ UNCHANGED vars

CallerStep ==
  LoopSubmit \/ InCall \/ LoopSubmitted \/ LoopDrainOne \/ LoopFinish

LoopNext ==
  \/ CallerStep
  \/ \E i \in Contexts : WorkerStep(i) /\ UNCHANGED loop

LoopSpec ==
  /\ LoopInit /\ [][LoopNext]_loopVars
  /\ WF_loopVars(CallerStep)
  /\ \A i \in Contexts : WF_loopVars(WorkerStep(i) /\ UNCHANGED loop)

(***************************************************************************)
(* "A worker NEVER waits here ... it is what keeps a single-threaded       *)
(* caller -- which cannot drain while it is inside submit() -- from        *)
(* deadlocking against its own workers" (workerLoop()).  The loop ends,    *)
(* then, whatever the reorder depth.  The code: acquireSlot() makes the    *)
(* one thread that could drain wait for room, for ever if reorder_depth is *)
(* no more than the results the loop lets pile up.                         *)
(***************************************************************************)
LoopEnds == <>(loop \in {"done", "thrown"})
=============================================================================

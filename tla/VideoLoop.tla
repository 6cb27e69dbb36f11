------------------------------ MODULE VideoLoop ------------------------------
(***************************************************************************)
(* The loop the header of AsyncVideoDetectionPipeline gives a caller with  *)
(* one thread (src/include/rcdl/pipeline/async_video_detection_pipeline.h: *)
(* "DRAIN WHILE YOU FEED"), run against AsyncVideo.                        *)
(***************************************************************************)
EXTENDS AsyncVideo

VARIABLES
  loop,   \* where the caller is in its loop
  got     \* history: the pictures the calls of the loop took, in order

loopVars == <<vars, loop, got>>

LoopInit == Init /\ loop = "read" /\ got = <<>>

Goto(where) == loop' = where

\* Between two calls of the caller.
AtRest == feeder = "idle" /\ reader = "idle"

ResultDue == stream # <<>> /\ Head(stream).state # "working"

\* fread(): another chunk, or the end of the file and finish().
Read ==
  /\ loop = "read"
  /\ \/ fed < Chunks /\ Goto("submit") /\ UNCHANGED vars
     \/ fed = Chunks /\ Finish /\ Goto("next")

\* submit() throws, or goes on to feed.  (It is refused only after finish()
\* or an error, and an error is thrown first.)
LoopSubmit ==
  /\ loop = "submit" /\ AtRest
  /\ \/ Submit /\ Goto("fed")
     \/ error /\ Goto("done") /\ UNCHANGED vars

\* True: drain what is ready, then read on.  False: make room, then retry.
LoopFeed ==
  /\ loop = "fed"
  /\ Feed
  /\ Goto(IF fed' > fed THEN "drain" ELSE "make room")

\* while (p.tryNext(dets)), in both places; an exception ends the loop.
LoopTryNext ==
  /\ loop \in {"make room", "drain"}
  /\ \/ reader = "popped" /\ PopMeta /\ UNCHANGED loop
     \/ TryNext /\ Goto(IF outcome' = "threw" THEN "done" ELSE loop)
     \/ /\ reader = "idle" /\ error
        /\ Goto("done") /\ UNCHANGED vars
     \/ /\ reader = "idle" /\ ~error /\ ~ResultDue
        /\ Goto(IF loop = "drain" THEN "read" ELSE "submit")
        /\ UNCHANGED vars

\* while (p.next(dets)), after finish().
LoopNext ==
  /\ loop = "next"
  /\ CallNext \/ NextTakes \/ PopMeta \/ NextEnds \/ ReportEnd \/ Rethrow
  /\ Goto(IF reader' = "idle" /\ outcome' \in {"end", "threw"}
          THEN "done" ELSE "next")

CallerStep == Read \/ LoopSubmit \/ LoopFeed \/ LoopTryNext \/ LoopNext

\* A call that has its result adds the picture to the history.
Record ==
  got' = IF reader # "popped" /\ reader' = "popped" THEN Append(got, handed')
         ELSE got

InsideStep == Inside /\ UNCHANGED <<loop, got>>

LoopOver == loop = "done" /\ UNCHANGED loopVars

LoopNextStep == (CallerStep /\ Record) \/ InsideStep \/ LoopOver

LoopFairness ==
  /\ WF_loopVars(Decode /\ UNCHANGED <<loop, got>>)
  /\ WF_loopVars(DrainThread /\ UNCHANGED <<loop, got>>)
  /\ WF_loopVars(LbThread /\ UNCHANGED <<loop, got>>)
  /\ WF_loopVars(Worker /\ UNCHANGED <<loop, got>>)
  /\ WF_loopVars(CallerStep /\ Record)

LoopSpec == LoopInit /\ [][LoopNextStep]_loopVars /\ LoopFairness

-----------------------------------------------------------------------------

(***************************************************************************)
(* "The loop below is the shape that always works": with every queue       *)
(* bounded and one thread both feeding and draining, the loop ends.        *)
(***************************************************************************)
LoopEnds == <>(loop = "done")

(***************************************************************************)
(* The loop never skips, repeats or swaps a picture, whatever fails: what  *)
(* it has been given is the decoder's first pictures, in decode order.     *)
(* And a loop that ends without an exception was given all of them, those  *)
(* before a drain that gave up on a decoder included; when the decoder     *)
(* reached its end of stream, nothing that was fed is left either.         *)
(***************************************************************************)
LoopDeliversAll ==
  /\ \A i \in DOMAIN got : got[i] = i - 1
  /\ loop = "done" /\ outcome = "end"
       => Len(got) = framesDecoded /\ (eos_seen => NothingLeft)
=============================================================================

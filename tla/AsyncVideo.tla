----------------------------- MODULE AsyncVideo -----------------------------
(***************************************************************************)
(* rcdl::AsyncVideoDetectionPipeline (src/src/pipeline/                    *)
(* async_video_detection_pipeline.cc).  The caller feeds a video decoder;  *)
(* a drain thread moves decoded frames into a bounded channel; a letterbox *)
(* thread takes a detector slot, then a frame, and commits it; the         *)
(* detector delivers results in commit order, and a FIFO beside it carries *)
(* each frame's pts and index to the same delivery.                        *)
(*                                                                         *)
(* The decoder and the detector appear at the granularity of their calls:  *)
(* the decoder as counters of bytes accepted and pictures ready, the       *)
(* detector as the queue of undelivered frames it promises to be (module   *)
(* OrderedStream, which AsyncDetection implements), with its contexts and  *)
(* its reorder room as the guards of acquireSlot().                        *)
(***************************************************************************)
EXTENDS Naturals, Sequences, FiniteSets

CONSTANTS Size,         \* NPU contexts of the detector
          Depth,        \* its reorder_depth
          QueueDepth,   \* queue_depth: capacity of the frame channel
          ExtraBuffers, \* VideoDecConfig::extra_buffers as configured
          DecoderRefs,  \* buffers the decoder keeps for itself
          InputCap,     \* chunks the decoder's input queue takes
          Chunks,       \* bound: chunks in the stream, one picture in each
          MaxEmptyFlushes,  \* kMaxEmptyFlushes
          WorkersFail,  \* whether infer() or postprocess() may throw
          ThreadsFail   \* whether a pipeline thread may throw

ASSUME VideoAssumption ==
  /\ {Size, Depth, QueueDepth, DecoderRefs, InputCap, MaxEmptyFlushes}
       \subseteq Nat \ {0}
  /\ {ExtraBuffers, Chunks} \subseteq Nat
  /\ {WorkersFail, ThreadsFail} \subseteq BOOLEAN

VARIABLES
  \* VideoDecoder
  fed,            \* chunks accepted so far
  queued,         \* chunks in its input queue
  ready,          \* pictures ready to be received
  framesDecoded,  \* pictures handed out; a frame is known by its index
  eos_fed, eos_seen,
  \* The frame channel
  frames, closed_,
  asleep,         \* pipeline threads asleep on its condition variables
  \* AsyncDetectionPipeline
  stream,         \* committed, undelivered frames, oldest first
  streamOver,     \* the detector's `finished`
  \* Impl
  meta, last_meta, input_done, stopping, error, finished,
  \* The pipeline's two threads
  drain, drainFrame, emptyFlushes,
  lb, lbFrame,
  \* The caller's threads, and the destructor
  feeder, reader, handed, outcome, owner

decoderVars  == <<fed, queued, ready, framesDecoded, eos_fed, eos_seen>>
channelVars  == <<frames, closed_, asleep>>
detectorVars == <<stream, streamOver>>
metaVars     == <<meta, last_meta>>
flagVars     == <<input_done, stopping, error, finished>>
drainVars    == <<drain, drainFrame, emptyFlushes>>
lbVars       == <<lb, lbFrame>>
callerVars   == <<feeder, reader, handed, outcome>>
downVars     == <<channelVars, detectorVars, metaVars, flagVars>>
implVars     == <<decoderVars, downVars>>
threadVars   == <<drainVars, lbVars, callerVars>>
vars == <<implVars, threadVars, owner>>

\* What a step of one thread leaves to the others.
notDrain  == <<lbVars, callerVars, owner>>
notLb     == <<drainVars, callerVars, owner>>
notFeeder == <<drainVars, lbVars, reader, handed, outcome, owner>>
notReader == <<drainVars, lbVars, feeder, owner>>

Frame == 0 .. (Chunks - 1)
None  == Chunks   \* no frame; the metadata before the first result

DrainPlaces == {"look", "choose", "receive", "marker", "tail", "push", "close",
                "fail", "failClose", "failFinish", "exited"}
LbPlaces == {"room", "context", "pop", "letterbox", "commit", "withdraw",
             "finish", "fail", "failClose", "failFinish", "exited"}

TypeOK ==
  /\ fed \in 0 .. Chunks /\ queued \in 0 .. InputCap
  /\ ready \in 0 .. Chunks /\ framesDecoded \in 0 .. Chunks
  /\ eos_fed \in BOOLEAN /\ eos_seen \in BOOLEAN
  /\ closed_ \in BOOLEAN /\ streamOver \in BOOLEAN
  /\ frames \in Seq(Frame) /\ Len(frames) <= QueueDepth
  /\ asleep \in SUBSET {"drain", "lb"}
  /\ stream \in Seq([frame : Frame, state : {"working", "ok", "failed"}])
  /\ meta \in Seq(Frame) /\ last_meta \in Frame \cup {None}
  /\ input_done \in BOOLEAN /\ stopping \in BOOLEAN
  /\ error \in BOOLEAN /\ finished \in BOOLEAN
  /\ drain \in DrainPlaces /\ drainFrame \in Frame \cup {None}
  /\ emptyFlushes \in 0 .. (MaxEmptyFlushes - 1)
  /\ lb \in LbPlaces /\ lbFrame \in Frame \cup {None}
  /\ feeder \in {"idle", "feed"}
  /\ reader \in {"idle", "next", "popped", "ended"}
  /\ handed \in Frame \cup {None}
  /\ outcome \in {"none", "result", "end", "threw"}
  /\ owner \in {"alive", "flagged", "closed", "joining", "joined"}

Init ==
  /\ fed = 0 /\ queued = 0 /\ ready = 0 /\ framesDecoded = 0
  /\ eos_fed = FALSE /\ eos_seen = FALSE
  /\ frames = <<>> /\ closed_ = FALSE /\ asleep = {}
  /\ stream = <<>> /\ streamOver = FALSE
  /\ meta = <<>> /\ last_meta = None
  /\ input_done = FALSE /\ stopping = FALSE /\ error = FALSE
  /\ finished = FALSE
  /\ drain = "look" /\ drainFrame = None /\ emptyFlushes = 0
  /\ lb = "room" /\ lbFrame = None
  /\ feeder = "idle" /\ reader = "idle" /\ handed = None /\ outcome = "none"
  /\ owner = "alive"

-----------------------------------------------------------------------------
(* The decoder: one picture per chunk, decoded when a buffer is free.      *)

\* Seeded fault: the frame the letterbox stage reads is forgotten.
SizedExtraShort ==
  IF ExtraBuffers < QueueDepth + 1 THEN QueueDepth + 1 ELSE ExtraBuffers

\* sizePool(): the queue, the drain thread's frame and the letterbox's.
SizedExtra ==
  IF ExtraBuffers < QueueDepth + 2 THEN QueueDepth + 2 ELSE ExtraBuffers

\* Decoder buffers this pipeline keeps out of circulation.
Held == Len(frames) + (IF drainFrame = None THEN 0 ELSE 1)
                    + (IF lb = "letterbox" THEN 1 ELSE 0)

\* A bad picture goes back to the decoder inside recv(), unseen.
Decode ==
  /\ queued > 0
  /\ ready + Held < DecoderRefs + SizedExtra
  /\ queued' = queued - 1
  /\ ready' \in {ready, ready + 1}
  /\ UNCHANGED <<fed, framesDecoded, eos_fed, eos_seen, downVars, threadVars,
                 owner>>

-----------------------------------------------------------------------------
(* The drain thread: drainLoop() and drainStream().                        *)

DrainGoto(where) == drain' = where /\ UNCHANGED <<drainFrame, emptyFlushes>>

\* stopped() and the read of input_done lock mu one after the other.
DrainLook ==
  /\ drain = "look"
  /\ DrainGoto(IF stopping THEN "close" ELSE "choose")
  /\ UNCHANGED <<implVars, notDrain>>

DrainChoose ==
  /\ drain = "choose"
  /\ DrainGoto(IF input_done THEN "marker" ELSE "receive")
  /\ UNCHANGED <<implVars, notDrain>>

\* flush() first feeds the end-of-stream marker; with the input queue full
\* the marker does not land, and the next flush() tries again.
FeedMarker ==
  /\ drain = "marker"
  /\ eos_fed' = (eos_fed \/ queued < InputCap)
  /\ DrainGoto("tail")
  /\ UNCHANGED <<fed, queued, ready, framesDecoded, eos_seen, downVars,
                 notDrain>>

\* receive() or flush() has a picture.
DrainReceive ==
  /\ drain \in {"receive", "tail"}
  /\ ~eos_seen /\ ready > 0
  /\ ready' = ready - 1
  /\ drainFrame' = framesDecoded
  /\ framesDecoded' = framesDecoded + 1
  /\ emptyFlushes' = 0
  /\ drain' = "push"
  /\ UNCHANGED <<fed, queued, eos_fed, eos_seen, downVars, notDrain>>

\* receive() timed out; the thread looks again.
ReceiveTimesOut ==
  /\ drain = "receive" /\ ready = 0
  /\ DrainGoto("look")
  /\ UNCHANGED <<implVars, notDrain>>

\* flush() came back empty: the decoder's end of stream, or a time-out.
\* Only the flag tells them apart; enough time-outs in a row end the drain.
FlushIsEmpty ==
  /\ drain = "tail" /\ ready = 0
  /\ eos_seen' = (eos_seen \/ (eos_fed /\ queued = 0))
  /\ LET over == eos_seen' \/ emptyFlushes + 1 = MaxEmptyFlushes IN
     /\ drain' = IF over THEN "close" ELSE "look"
     /\ emptyFlushes' = IF over THEN 0 ELSE emptyFlushes + 1
  /\ UNCHANGED <<fed, queued, ready, framesDecoded, eos_fed, downVars,
                 drainFrame, notDrain>>

\* Seeded fault: one frame too many.
RoomForOneMore == Len(frames) <= QueueDepth

RoomInChannel == Len(frames) < QueueDepth

\* Seeded fault: push() forgets the notify.
SignalNobody == UNCHANGED asleep

\* not_empty_.notify_one(): only the letterbox thread sleeps there.
SignalNotEmpty == asleep' = asleep \ {"lb"}

\* Seeded fault: a full channel drops the picture in place of waiting.
PushOrDrop ==
  /\ drain = "push" /\ "drain" \notin asleep
  /\ ~closed_
  /\ frames' = IF RoomInChannel THEN Append(frames, drainFrame) ELSE frames
  /\ SignalNotEmpty
  /\ drain' = "look" /\ drainFrame' = None
  /\ UNCHANGED <<decoderVars, closed_, detectorVars, metaVars, flagVars,
                 emptyFlushes, notDrain>>

Push ==
  /\ drain = "push" /\ "drain" \notin asleep
  /\ ~closed_ /\ RoomInChannel
  /\ frames' = Append(frames, drainFrame)
  /\ SignalNotEmpty
  /\ drain' = "look" /\ drainFrame' = None
  /\ UNCHANGED <<decoderVars, closed_, detectorVars, metaVars, flagVars,
                 emptyFlushes, notDrain>>

PushSleeps ==
  /\ drain = "push" /\ "drain" \notin asleep
  /\ ~closed_ /\ ~RoomInChannel
  /\ asleep' = asleep \cup {"drain"}
  /\ UNCHANGED <<decoderVars, frames, closed_, detectorVars, metaVars,
                 flagVars, threadVars, owner>>

\* push() on a closed channel: the frame goes back to the decoder.
PushRefused ==
  /\ drain = "push" /\ "drain" \notin asleep
  /\ closed_
  /\ drain' = "close" /\ drainFrame' = None
  /\ UNCHANGED <<implVars, emptyFlushes, notDrain>>

\* Channel::close(): both sides wake.
CloseChannel == closed_' = TRUE /\ asleep' = {} /\ UNCHANGED frames

DrainExits ==
  /\ drain = "close"
  /\ CloseChannel
  /\ DrainGoto("exited")
  /\ UNCHANGED <<decoderVars, detectorVars, metaVars, flagVars, notDrain>>

\* receive(), flush() or an info change throws.
DrainThrows ==
  /\ ThreadsFail
  /\ drain \in {"receive", "tail"}
  /\ DrainGoto("fail")
  /\ UNCHANGED <<implVars, notDrain>>

-----------------------------------------------------------------------------
(* The letterbox thread: letterboxLoop().                                  *)

LbGoto(where) == lb' = where /\ UNCHANGED lbFrame

Working == Cardinality({k \in DOMAIN stream : stream[k].state = "working"})
Parked  == Len(stream) - Working

\* acquireSlot(): reorder room first, ...
LbAwaitRoom ==
  /\ lb = "room"
  /\ streamOver \/ Parked < Depth
  /\ LbGoto(IF streamOver THEN "finish" ELSE "context")
  /\ UNCHANGED <<implVars, notLb>>

\* ... then a context, given back at once if the stream is over by then.
LbAwaitContext ==
  /\ lb = "context"
  /\ Working < Size
  /\ LbGoto(IF streamOver THEN "finish" ELSE "pop")
  /\ UNCHANGED <<implVars, notLb>>

Pop ==
  /\ lb = "pop" /\ "lb" \notin asleep
  /\ frames # <<>>
  /\ lbFrame' = Head(frames) /\ frames' = Tail(frames)
  /\ asleep' = asleep \ {"drain"}
  /\ lb' = "letterbox"
  /\ UNCHANGED <<decoderVars, closed_, detectorVars, metaVars, flagVars,
                 notLb>>

PopSleeps ==
  /\ lb = "pop" /\ "lb" \notin asleep
  /\ frames = <<>> /\ ~closed_
  /\ asleep' = asleep \cup {"lb"}
  /\ UNCHANGED <<decoderVars, frames, closed_, detectorVars, metaVars,
                 flagVars, threadVars, owner>>

ClosedAndEmpty == closed_ /\ frames = <<>>

\* The channel is closed and empty: the slot goes back.
PopEnds ==
  /\ lb = "pop" /\ "lb" \notin asleep
  /\ ClosedAndEmpty
  /\ LbGoto("finish")
  /\ UNCHANGED <<implVars, notLb>>

\* letterboxIntoSlot(), frame.reset(), and the metadata enters its FIFO.
LbLetterbox ==
  /\ lb = "letterbox"
  /\ meta' = Append(meta, lbFrame)
  /\ LbGoto("commit")
  /\ UNCHANGED <<decoderVars, channelVars, detectorVars, last_meta, flagVars,
                 notLb>>

\* letterboxIntoSlot() throws: releaseSlot(), then fail().
LbThrows ==
  /\ ThreadsFail
  /\ lb = "letterbox"
  /\ lb' = "fail" /\ lbFrame' = None
  /\ UNCHANGED <<implVars, notLb>>

LbCommit ==
  /\ lb = "commit"
  /\ ~streamOver
  /\ stream' = Append(stream, [frame |-> lbFrame, state |-> "working"])
  /\ lb' = "room" /\ lbFrame' = None
  /\ UNCHANGED <<decoderVars, channelVars, streamOver, metaVars, flagVars,
                 notLb>>

\* commitSlot() returns false: finish() won the race.
LbCommitRefused ==
  /\ lb = "commit"
  /\ streamOver
  /\ lb' = "withdraw" /\ lbFrame' = None
  /\ UNCHANGED <<implVars, notLb>>

\* Seeded fault: the wrong end of the FIFO.
WithoutOldest == Tail(meta)

WithoutNewest == SubSeq(meta, 1, Len(meta) - 1)

LbWithdraw ==
  /\ lb = "withdraw"
  /\ meta' = WithoutNewest
  /\ LbGoto("finish")
  /\ UNCHANGED <<decoderVars, channelVars, detectorVars, last_meta, flagVars,
                 notLb>>

\* Seeded fault: nobody finishes the detector.
DetectorRunsOn == UNCHANGED detectorVars

\* detect->finish().
FinishDetector == streamOver' = TRUE /\ UNCHANGED stream

\* No more frames will reach the detector.
LbExits ==
  /\ lb = "finish"
  /\ FinishDetector
  /\ LbGoto("exited")
  /\ UNCHANGED <<decoderVars, channelVars, metaVars, flagVars, notLb>>

-----------------------------------------------------------------------------
(* fail(), on either thread: the error, then the channel, then the         *)
(* detector, each under a lock of its own.                                 *)

\* Seeded fault: the threads stop, and nobody is told why.
StopSilently == stopping' = TRUE /\ UNCHANGED error

RecordError == error' = TRUE /\ stopping' = TRUE

Fail(place) ==
  \/ /\ place = "fail"
     /\ RecordError
     /\ UNCHANGED <<channelVars, detectorVars>>
  \/ /\ place = "failClose"
     /\ CloseChannel
     /\ UNCHANGED <<detectorVars, error, stopping>>
  \/ /\ place = "failFinish"
     /\ FinishDetector
     /\ UNCHANGED <<channelVars, error, stopping>>

AfterFail(place, done) ==
  CASE place = "fail" -> "failClose" [] place = "failClose" -> "failFinish"
    [] OTHER -> done

DrainFails ==
  /\ Fail(drain)
  /\ DrainGoto(AfterFail(drain, "close"))
  /\ UNCHANGED <<decoderVars, metaVars, input_done, finished, notDrain>>

LbFails ==
  /\ Fail(lb)
  /\ LbGoto(AfterFail(lb, "exited"))
  /\ UNCHANGED <<decoderVars, metaVars, input_done, finished, notLb>>

\* A detector worker infers and parks a frame, in any order.
Infer(k) ==
  /\ k \in DOMAIN stream /\ stream[k].state = "working"
  /\ \E ok \in {TRUE, ~WorkersFail} :
       stream' = [stream EXCEPT ![k].state = IF ok THEN "ok" ELSE "failed"]
  /\ UNCHANGED <<decoderVars, channelVars, streamOver, metaVars, flagVars,
                 threadVars, owner>>

-----------------------------------------------------------------------------
(* The feeding caller: submit() and finish().                              *)

Refusing == finished \/ stopping

\* submit() past its rethrow() and its checks.  An error is thrown and a
\* refusal returned at once, with nothing changed.
\* (An indefinite submit() repeats this attempt between the same checks.)
Submit ==
  /\ feeder = "idle" /\ owner = "alive"
  /\ fed < Chunks
  /\ ~error /\ ~Refusing
  /\ feeder' = "feed"
  /\ UNCHANGED <<implVars, notFeeder>>

\* VideoDecoder::feed(): taken, or back-pressure.
Feed ==
  /\ feeder = "feed"
  /\ \/ /\ queued < InputCap
        /\ queued' = queued + 1 /\ fed' = fed + 1
     \/ /\ queued = InputCap
        /\ UNCHANGED <<queued, fed>>
  /\ feeder' = "idle"
  /\ UNCHANGED <<ready, framesDecoded, eos_fed, eos_seen, downVars, notFeeder>>

Finish ==
  /\ feeder = "idle" /\ owner = "alive"
  /\ ~finished
  /\ finished' = TRUE /\ input_done' = TRUE
  /\ UNCHANGED <<decoderVars, channelVars, detectorVars, metaVars, stopping,
                 error, threadVars, owner>>

-----------------------------------------------------------------------------
(* The draining caller: next() and tryNext().                              *)

\* rethrow() throws.
Rethrow ==
  /\ reader \in {"idle", "ended"} /\ owner = "alive"
  /\ error
  /\ reader' = "idle" /\ outcome' = "threw"
  /\ UNCHANGED <<implVars, notReader, handed>>

CallNext ==
  /\ reader = "idle" /\ owner = "alive"
  /\ ~error
  /\ reader' = "next" /\ outcome' = "none"
  /\ UNCHANGED <<implVars, notReader, handed>>

\* detect->next() or detect->tryNext() takes the result that is due.  A
\* frame its worker failed on is thrown, past popMeta().
TakeResult ==
  /\ stream # <<>> /\ Head(stream).state # "working"
  /\ stream' = Tail(stream)
  /\ \/ /\ Head(stream).state = "ok"
        /\ handed' = Head(stream).frame
        /\ reader' = "popped" /\ outcome' = "none"
     \/ /\ Head(stream).state = "failed"
        /\ reader' = "idle" /\ outcome' = "threw"
        /\ UNCHANGED handed
  /\ UNCHANGED <<decoderVars, channelVars, streamOver, metaVars, flagVars,
                 notReader>>

NextTakes == reader = "next" /\ TakeResult

\* tryNext(), which changes nothing when nothing is due.
TryNext == reader = "idle" /\ owner = "alive" /\ ~error /\ TakeResult

PopMeta ==
  /\ reader = "popped"
  /\ IF meta = <<>> THEN UNCHANGED metaVars
     ELSE last_meta' = Head(meta) /\ meta' = Tail(meta)
  /\ reader' = "idle" /\ outcome' = "result"
  /\ UNCHANGED <<decoderVars, channelVars, detectorVars, flagVars, notReader,
                 handed>>

\* detect->next() returns false: finished and drained.
NextEnds ==
  /\ reader = "next"
  /\ streamOver /\ stream = <<>>
  /\ reader' = "ended"
  /\ UNCHANGED <<implVars, notReader, handed, outcome>>

\* The second rethrow() finds no error, and next() returns false.
ReportEnd ==
  /\ reader = "ended"
  /\ ~error
  /\ reader' = "idle" /\ outcome' = "end"
  /\ UNCHANGED <<implVars, notReader, handed>>

-----------------------------------------------------------------------------
(* The destructor: shutdown(), while no call is in progress.               *)

Shutdown ==
  /\ owner = "alive" /\ feeder = "idle" /\ reader = "idle"
  /\ stopping' = TRUE /\ input_done' = TRUE
  /\ owner' = "flagged"
  /\ UNCHANGED <<decoderVars, channelVars, detectorVars, metaVars, error,
                 finished, threadVars>>

ShutdownClose ==
  /\ owner = "flagged"
  /\ CloseChannel
  /\ owner' = "closed"
  /\ UNCHANGED <<decoderVars, detectorVars, metaVars, flagVars, threadVars>>

ShutdownDetector ==
  /\ owner = "closed"
  /\ FinishDetector
  /\ owner' = "joining"
  /\ UNCHANGED <<decoderVars, channelVars, metaVars, flagVars,
                 threadVars>>

Join ==
  /\ owner = "joining"
  /\ drain = "exited" /\ lb = "exited"
  /\ owner' = "joined"
  /\ UNCHANGED <<implVars, threadVars>>

Over == owner = "joined" /\ UNCHANGED vars

-----------------------------------------------------------------------------

DrainThread ==
  \/ DrainLook \/ DrainChoose \/ FeedMarker \/ DrainReceive \/ ReceiveTimesOut
  \/ FlushIsEmpty \/ Push \/ PushSleeps \/ PushRefused \/ DrainThrows
  \/ DrainFails \/ DrainExits

LbThread ==
  \/ LbAwaitRoom \/ LbAwaitContext \/ Pop \/ PopSleeps \/ PopEnds
  \/ LbLetterbox \/ LbThrows \/ LbCommit \/ LbCommitRefused \/ LbWithdraw
  \/ LbFails \/ LbExits

Worker == \E k \in DOMAIN stream : Infer(k)

Destructor == ShutdownClose \/ ShutdownDetector \/ Join

\* What goes on behind the caller's back.
Inside == Decode \/ DrainThread \/ LbThread \/ Worker

FeederStep == Submit \/ Feed \/ Finish
ReaderStep == \/ Rethrow \/ CallNext \/ TryNext \/ NextTakes \/ PopMeta
              \/ NextEnds \/ ReportEnd

Next == Inside \/ FeederStep \/ ReaderStep \/ Shutdown \/ Destructor \/ Over

(***************************************************************************)
(* The VPU decodes, infer() runs return, and the pipeline's threads, a     *)
(* call of the caller's and the destructor are scheduled.  Nothing makes   *)
(* the caller feed, drain or destroy.                                      *)
(***************************************************************************)
InsideIsFair ==
  WF_vars(Decode) /\ WF_vars(DrainThread) /\ WF_vars(LbThread)
    /\ WF_vars(Worker)

Fairness ==
  /\ InsideIsFair
  /\ WF_vars(Feed)
  /\ WF_vars(NextTakes \/ PopMeta \/ NextEnds \/ ReportEnd)
  /\ WF_vars(Destructor)

Spec == Init /\ [][Next]_vars /\ Fairness

-----------------------------------------------------------------------------

(***************************************************************************)
(* lastPtsUs() and lastFrameIndex() are those of the frame the last next() *)
(* or tryNext() returned, though they travelled through a FIFO of their    *)
(* own, beside a detector that delivers what its workers finish.           *)
(***************************************************************************)
MetaMatchesResult == outcome = "result" => last_meta = handed

(***************************************************************************)
(* When next() returns false and the decoder has seen its end of stream,   *)
(* nothing the caller fed is left anywhere: neither a failure on another   *)
(* thread nor the race of finish() with a commit passes for a clean end.   *)
(***************************************************************************)
NothingLeft ==
  /\ queued = 0 /\ ready = 0 /\ frames = <<>> /\ stream = <<>> /\ meta = <<>>
  /\ drainFrame = None /\ lbFrame = None

CleanEnd == outcome = "end" => ~error /\ (eos_seen => NothingLeft)

(***************************************************************************)
(* The pipeline never holds more decoder buffers than sizePool() added for *)
(* it, so the decoder is not stalled on frames that wait downstream.       *)
(***************************************************************************)
FramesFitThePool == Held <= SizedExtra

(***************************************************************************)
(* No lost wakeup on the channel: a thread sleeps only while it has reason *)
(* to, close() included.                                                   *)
(***************************************************************************)
SleepersHaveReason ==
  /\ "drain" \in asleep => Len(frames) = QueueDepth /\ ~closed_
  /\ "lb" \in asleep => frames = <<>> /\ ~closed_

(***************************************************************************)
(* The destructor's joins end wherever its two threads are: in acquireSlot *)
(* behind undrained results, in the channel, in the decoder, in fail().    *)
(***************************************************************************)
DestructorReturns == owner = "flagged" ~> owner = "joined"
=============================================================================

-------------------------- MODULE AsyncVideoProofs --------------------------
(***************************************************************************)
(* AsyncVideo for every depth of its queues, every number of chunks and    *)
(* whatever its threads throw: the variables keep their types, a sleeper   *)
(* on the channel has reason to sleep, the pool is large enough for the    *)
(* frames held, and, when no worker fails, metadata and results stay in    *)
(* step and a clean end is one.  Whatever fails, the loop of VideoLoop is  *)
(* given the frames in order, and every one if no exception ends it.       *)
(***************************************************************************)
EXTENDS VideoLoop, SequenceTheorems, TLAPS

LEMMA Constants ==
  /\ Size \in Nat \ {0} /\ Depth \in Nat \ {0} /\ QueueDepth \in Nat \ {0}
  /\ DecoderRefs \in Nat \ {0} /\ InputCap \in Nat \ {0}
  /\ MaxEmptyFlushes \in Nat \ {0}
  /\ ExtraBuffers \in Nat /\ Chunks \in Nat
  BY VideoAssumption

-----------------------------------------------------------------------------
(* Types, part by part, each with what ties its variables to one another.  *)

\* The decoder makes at most one picture of each chunk.
DecoderOK ==
  /\ fed \in 0 .. Chunks /\ queued \in 0 .. InputCap
  /\ ready \in 0 .. Chunks /\ framesDecoded \in 0 .. Chunks
  /\ eos_fed \in BOOLEAN /\ eos_seen \in BOOLEAN
  /\ queued + ready + framesDecoded <= fed

ChannelOK ==
  /\ frames \in Seq(Frame) /\ Len(frames) <= QueueDepth
  /\ closed_ \in BOOLEAN /\ asleep \in SUBSET {"drain", "lb"}
  /\ SleepersHaveReason

DetectorOK ==
  /\ stream \in Seq([frame : Frame, state : {"working", "ok", "failed"}])
  /\ streamOver \in BOOLEAN

MetaOK == meta \in Seq(Frame) /\ last_meta \in Frame \cup {None}

FlagsOK ==
  /\ input_done \in BOOLEAN /\ stopping \in BOOLEAN
  /\ error \in BOOLEAN /\ finished \in BOOLEAN

\* Which thread has a frame in hand is told by where it is.
DrainOK ==
  /\ drain \in DrainPlaces /\ drainFrame \in Frame \cup {None}
  /\ drainFrame # None <=> drain = "push"
  /\ emptyFlushes \in 0 .. (MaxEmptyFlushes - 1)

LbOK ==
  /\ lb \in LbPlaces /\ lbFrame \in Frame \cup {None}
  /\ lbFrame # None <=> lb \in {"letterbox", "commit"}

CallerOK ==
  /\ feeder \in {"idle", "feed"}
  /\ reader \in {"idle", "next", "popped", "ended"}
  /\ handed \in Frame \cup {None}
  /\ outcome \in {"none", "result", "end", "threw"}

OwnerOK == owner \in {"alive", "flagged", "closed", "joining", "joined"}

\* feed() comes while the chunk submit() was given is still to be fed.
ChunkLeft == feeder = "feed" => fed < Chunks

TInv ==
  /\ ChunkLeft
  /\ DecoderOK /\ ChannelOK /\ DetectorOK /\ MetaOK /\ FlagsOK
  /\ DrainOK /\ LbOK /\ CallerOK /\ OwnerOK

LEMMA TypesFollow == TInv => TypeOK /\ SleepersHaveReason
  BY DEF TInv, TypeOK, DecoderOK, ChannelOK, DetectorOK, MetaOK, FlagsOK,
     DrainOK, LbOK, CallerOK, OwnerOK

LEMMA Kept ==
  /\ ChunkLeft /\ UNCHANGED <<feeder, fed>> => ChunkLeft'
  /\ DecoderOK /\ UNCHANGED decoderVars => DecoderOK'
  /\ ChannelOK /\ UNCHANGED channelVars => ChannelOK'
  /\ DetectorOK /\ UNCHANGED detectorVars => DetectorOK'
  /\ MetaOK /\ UNCHANGED metaVars => MetaOK'
  /\ FlagsOK /\ UNCHANGED flagVars => FlagsOK'
  /\ DrainOK /\ UNCHANGED drainVars => DrainOK'
  /\ LbOK /\ UNCHANGED lbVars => LbOK'
  /\ CallerOK /\ UNCHANGED callerVars => CallerOK'
  /\ OwnerOK /\ UNCHANGED owner => OwnerOK'
<1>1. DecoderOK /\ UNCHANGED decoderVars => DecoderOK'
  BY DEF DecoderOK, decoderVars
<1>2. ChannelOK /\ UNCHANGED channelVars => ChannelOK'
  BY DEF ChannelOK, channelVars, SleepersHaveReason
<1>3. DetectorOK /\ UNCHANGED detectorVars => DetectorOK'
  BY DEF DetectorOK, detectorVars
<1>4. MetaOK /\ UNCHANGED metaVars => MetaOK'
  BY DEF MetaOK, metaVars
<1>5. FlagsOK /\ UNCHANGED flagVars => FlagsOK'
  BY DEF FlagsOK, flagVars
<1>6. DrainOK /\ UNCHANGED drainVars => DrainOK'
  BY DEF DrainOK, drainVars
<1>7. LbOK /\ UNCHANGED lbVars => LbOK'
  BY DEF LbOK, lbVars
<1>8. CallerOK /\ UNCHANGED callerVars => CallerOK'
  BY DEF CallerOK, callerVars
<1>9. OwnerOK /\ UNCHANGED owner => OwnerOK'
  BY DEF OwnerOK
<1>10. ChunkLeft /\ UNCHANGED <<feeder, fed>> => ChunkLeft'
  BY DEF ChunkLeft
<1>. QED
  BY <1>1, <1>2, <1>3, <1>4, <1>5, <1>6, <1>7, <1>8, <1>9, <1>10

LEMMA DrainTypes ==
  ASSUME TInv, Decode \/ DrainThread
  PROVE  TInv'
<1>. USE Kept DEF TInv, downVars, implVars, threadVars, notDrain, notLb,
       notFeeder, notReader, decoderVars, callerVars
<1>1. CASE Decode
  <2>1. DecoderOK'
    <3>1. /\ queued' = queued - 1 /\ queued > 0
          /\ ready' = ready \/ ready' = ready + 1
          /\ UNCHANGED <<fed, framesDecoded, eos_fed, eos_seen>>
      BY <1>1 DEF Decode
    <3>2. /\ fed \in Nat /\ queued \in Nat /\ ready \in Nat /\ framesDecoded \in Nat
          /\ queued + ready + framesDecoded <= fed
          /\ fed <= Chunks /\ queued <= InputCap
      BY Constants DEF DecoderOK
    <3>3. queued' \in 0 .. InputCap /\ ready' \in 0 .. Chunks
      BY <3>1, <3>2, Constants
    <3>4. queued' + ready' + framesDecoded' <= fed'
      BY <3>1, <3>2
    <3>. QED
      BY <3>1, <3>3, <3>4 DEF DecoderOK
  <2>. QED
    BY <1>1, <2>1 DEF Decode
<1>2. CASE DrainLook
  <2>1. DrainOK'
    BY <1>2, Constants DEF DrainLook, DrainGoto, DrainOK, DrainPlaces, Frame,
       None
  <2>. QED
    BY <1>2, <2>1 DEF DrainLook, DrainGoto
<1>3. CASE DrainChoose
  <2>1. DrainOK'
    BY <1>3, Constants DEF DrainChoose, DrainGoto, DrainOK, DrainPlaces, Frame,
       None
  <2>. QED
    BY <1>3, <2>1 DEF DrainChoose, DrainGoto
<1>4. CASE FeedMarker
  <2>1. DecoderOK'
    BY <1>4, Constants DEF FeedMarker, DrainGoto, DecoderOK
  <2>2. DrainOK'
    BY <1>4, Constants DEF FeedMarker, DrainGoto, DrainOK, DrainPlaces, Frame,
       None
  <2>. QED
    BY <1>4, <2>1, <2>2 DEF FeedMarker, DrainGoto
<1>5. CASE DrainReceive
  <2>1. DecoderOK'
    BY <1>5, Constants DEF DrainReceive, DecoderOK
  <2>2. DrainOK'
    BY <1>5, Constants DEF DrainReceive, DrainOK, DrainPlaces, Frame, None,
       DecoderOK
  <2>. QED
    BY <1>5, <2>1, <2>2 DEF DrainReceive
<1>6. CASE ReceiveTimesOut
  <2>1. DrainOK'
    BY <1>6, Constants DEF ReceiveTimesOut, DrainGoto, DrainOK, DrainPlaces,
       Frame, None
  <2>. QED
    BY <1>6, <2>1 DEF ReceiveTimesOut, DrainGoto
<1>7. CASE FlushIsEmpty
  <2>1. DecoderOK'
    BY <1>7, Constants DEF FlushIsEmpty, DecoderOK
  <2>2. DrainOK'
    BY <1>7, Constants DEF FlushIsEmpty, DrainOK, DrainPlaces, Frame, None
  <2>. QED
    BY <1>7, <2>1, <2>2 DEF FlushIsEmpty
<1>8. CASE Push
  <2>1. ChannelOK'
    BY <1>8, Constants DEF Push, RoomInChannel, SignalNotEmpty, ChannelOK,
       SleepersHaveReason, Frame, None, DrainOK
  <2>2. DrainOK'
    BY <1>8, Constants DEF Push, RoomInChannel, SignalNotEmpty, DrainOK,
       DrainPlaces, Frame, None
  <2>. QED
    BY <1>8, <2>1, <2>2 DEF Push, RoomInChannel, SignalNotEmpty
<1>9. CASE PushSleeps
  <2>1. ChannelOK'
    BY <1>9, Constants DEF PushSleeps, RoomInChannel, ChannelOK,
       SleepersHaveReason, Frame, None
  <2>. QED
    BY <1>9, <2>1 DEF PushSleeps, RoomInChannel
<1>10. CASE PushRefused
  <2>1. DrainOK'
    BY <1>10, Constants DEF PushRefused, DrainOK, DrainPlaces, Frame, None
  <2>. QED
    BY <1>10, <2>1 DEF PushRefused
<1>11. CASE DrainThrows
  <2>1. DrainOK'
    BY <1>11, Constants DEF DrainThrows, DrainGoto, DrainOK, DrainPlaces,
       Frame, None
  <2>. QED
    BY <1>11, <2>1 DEF DrainThrows, DrainGoto
<1>12. CASE DrainFails
  <2>1. ChannelOK'
    BY <1>12, Constants DEF DrainFails, Fail, AfterFail, RecordError,
       CloseChannel, FinishDetector, DrainGoto, channelVars, detectorVars,
       flagVars, ChannelOK, SleepersHaveReason, Frame, None
  <2>2. DetectorOK'
    BY <1>12, Constants DEF DrainFails, Fail, AfterFail, RecordError,
       CloseChannel, FinishDetector, DrainGoto, channelVars, detectorVars,
       flagVars, DetectorOK, Frame, None
  <2>3. FlagsOK'
    BY <1>12, Constants DEF DrainFails, Fail, AfterFail, RecordError,
       CloseChannel, FinishDetector, DrainGoto, channelVars, detectorVars,
       flagVars, FlagsOK
  <2>4. DrainOK'
    BY <1>12, Constants DEF DrainFails, Fail, AfterFail, RecordError,
       CloseChannel, FinishDetector, DrainGoto, channelVars, detectorVars,
       flagVars, DrainOK, DrainPlaces, Frame, None
  <2>. QED
    BY <1>12, <2>1, <2>2, <2>3, <2>4 DEF DrainFails, Fail, AfterFail,
       RecordError, CloseChannel, FinishDetector, DrainGoto, channelVars,
       detectorVars, flagVars
<1>13. CASE DrainExits
  <2>1. ChannelOK'
    BY <1>13, Constants DEF DrainExits, CloseChannel, DrainGoto, ChannelOK,
       SleepersHaveReason, Frame, None
  <2>2. DrainOK'
    BY <1>13, Constants DEF DrainExits, CloseChannel, DrainGoto, DrainOK,
       DrainPlaces, Frame, None
  <2>. QED
    BY <1>13, <2>1, <2>2 DEF DrainExits, CloseChannel, DrainGoto
<1>. HIDE DEF TInv
<1>. QED
  BY <1>1, <1>2, <1>3, <1>4, <1>5, <1>6, <1>7, <1>8, <1>9, <1>10, <1>11, <1>12,
     <1>13 DEF DrainThread

LEMMA LbTypes ==
  ASSUME TInv, LbThread
  PROVE  TInv'
<1>. USE Kept DEF TInv, downVars, implVars, threadVars, notDrain, notLb,
       notFeeder, notReader, decoderVars, callerVars
<1>1. CASE LbAwaitRoom
  <2>1. LbOK'
    BY <1>1, Constants DEF LbAwaitRoom, LbGoto, LbOK, LbPlaces, Frame, None
  <2>. QED
    BY <1>1, <2>1 DEF LbAwaitRoom, LbGoto
<1>2. CASE LbAwaitContext
  <2>1. LbOK'
    BY <1>2, Constants DEF LbAwaitContext, LbGoto, LbOK, LbPlaces, Frame, None
  <2>. QED
    BY <1>2, <2>1 DEF LbAwaitContext, LbGoto
<1>3. CASE Pop
  <2>1. ChannelOK'
    BY <1>3, Constants DEF Pop, ChannelOK, SleepersHaveReason, Frame, None
  <2>2. LbOK'
    BY <1>3, Constants DEF Pop, LbOK, LbPlaces, Frame, None, ChannelOK
  <2>. QED
    BY <1>3, <2>1, <2>2 DEF Pop
<1>4. CASE PopSleeps
  <2>1. ChannelOK'
    BY <1>4, Constants DEF PopSleeps, ChannelOK, SleepersHaveReason, Frame,
       None
  <2>. QED
    BY <1>4, <2>1 DEF PopSleeps
<1>5. CASE PopEnds
  <2>1. LbOK'
    BY <1>5, Constants DEF PopEnds, LbGoto, LbOK, LbPlaces, Frame, None
  <2>. QED
    BY <1>5, <2>1 DEF PopEnds, LbGoto
<1>6. CASE LbLetterbox
  <2>1. MetaOK'
    BY <1>6, Constants DEF LbLetterbox, LbGoto, MetaOK, Frame, None, LbOK
  <2>2. LbOK'
    BY <1>6, Constants DEF LbLetterbox, LbGoto, LbOK, LbPlaces, Frame, None
  <2>. QED
    BY <1>6, <2>1, <2>2 DEF LbLetterbox, LbGoto
<1>7. CASE LbThrows
  <2>1. LbOK'
    BY <1>7, Constants DEF LbThrows, LbOK, LbPlaces, Frame, None
  <2>. QED
    BY <1>7, <2>1 DEF LbThrows
<1>8. CASE LbCommit
  <2>1. DetectorOK'
    BY <1>8, Constants DEF LbCommit, DetectorOK, Frame, None, LbOK
  <2>2. LbOK'
    BY <1>8, Constants DEF LbCommit, LbOK, LbPlaces, Frame, None
  <2>. QED
    BY <1>8, <2>1, <2>2 DEF LbCommit
<1>9. CASE LbCommitRefused
  <2>1. LbOK'
    BY <1>9, Constants DEF LbCommitRefused, LbOK, LbPlaces, Frame, None
  <2>. QED
    BY <1>9, <2>1 DEF LbCommitRefused
<1>10. CASE LbWithdraw
  <2>1. MetaOK'
    BY <1>10, Constants DEF LbWithdraw, LbGoto, WithoutNewest, MetaOK, Frame,
       None
  <2>2. LbOK'
    BY <1>10, Constants DEF LbWithdraw, LbGoto, WithoutNewest, LbOK, LbPlaces,
       Frame, None
  <2>. QED
    BY <1>10, <2>1, <2>2 DEF LbWithdraw, LbGoto, WithoutNewest
<1>11. CASE LbFails
  <2>1. ChannelOK'
    BY <1>11, Constants DEF LbFails, Fail, AfterFail, RecordError,
       CloseChannel, FinishDetector, LbGoto, channelVars, detectorVars,
       flagVars, ChannelOK, SleepersHaveReason, Frame, None
  <2>2. DetectorOK'
    BY <1>11, Constants DEF LbFails, Fail, AfterFail, RecordError,
       CloseChannel, FinishDetector, LbGoto, channelVars, detectorVars,
       flagVars, DetectorOK, Frame, None
  <2>3. FlagsOK'
    BY <1>11, Constants DEF LbFails, Fail, AfterFail, RecordError,
       CloseChannel, FinishDetector, LbGoto, channelVars, detectorVars,
       flagVars, FlagsOK
  <2>4. LbOK'
    BY <1>11, Constants DEF LbFails, Fail, AfterFail, RecordError,
       CloseChannel, FinishDetector, LbGoto, channelVars, detectorVars,
       flagVars, LbOK, LbPlaces, Frame, None
  <2>. QED
    BY <1>11, <2>1, <2>2, <2>3, <2>4 DEF LbFails, Fail, AfterFail, RecordError,
       CloseChannel, FinishDetector, LbGoto, channelVars, detectorVars,
       flagVars
<1>12. CASE LbExits
  <2>1. DetectorOK'
    BY <1>12, Constants DEF LbExits, FinishDetector, LbGoto, DetectorOK, Frame,
       None
  <2>2. LbOK'
    BY <1>12, Constants DEF LbExits, FinishDetector, LbGoto, LbOK, LbPlaces,
       Frame, None
  <2>. QED
    BY <1>12, <2>1, <2>2 DEF LbExits, FinishDetector, LbGoto
<1>. HIDE DEF TInv
<1>. QED
  BY <1>1, <1>2, <1>3, <1>4, <1>5, <1>6, <1>7, <1>8, <1>9, <1>10, <1>11, <1>12 DEF LbThread

LEMMA CallerTypes ==
  ASSUME TInv, Worker \/ FeederStep \/ ReaderStep
  PROVE  TInv'
<1>. USE Kept DEF TInv, downVars, implVars, threadVars, notDrain, notLb,
       notFeeder, notReader, decoderVars, callerVars
<1>1. ASSUME NEW k \in DOMAIN stream, Infer(k) PROVE TInv'
  <2>1. DetectorOK'
    <3>1. PICK v \in {"ok", "failed"} : stream' = [stream EXCEPT ![k].state = v]
      BY <1>1 DEF Infer
    <3>2. stream[k] \in [frame : Frame, state : {"working", "ok", "failed"}]
      <4>1. stream \in Seq([frame : Frame, state : {"working", "ok", "failed"}])
        BY DEF DetectorOK
      <4>2. k \in 1 .. Len(stream)
        BY <4>1, LenProperties
      <4>. QED
        BY <4>1, <4>2, ElementOfSeq
    <3>3. stream' = [stream EXCEPT ![k] = [stream[k] EXCEPT !.state = v]]
      BY <3>1
    <3>4. [stream[k] EXCEPT !.state = v]
            \in [frame : Frame, state : {"working", "ok", "failed"}]
      BY <3>2
    <3>5. stream' \in Seq([frame : Frame, state : {"working", "ok", "failed"}])
      BY <3>3, <3>4, ExceptSeq DEF DetectorOK
    <3>. QED
      BY <1>1, <3>5 DEF Infer, DetectorOK
  <2>. QED
    BY <1>1, <2>1 DEF Infer
<1>2. CASE Submit
  <2>1. CallerOK'
    BY <1>2, Constants DEF Submit, CallerOK, Frame, None
  <2>2. ChunkLeft'
    BY <1>2 DEF Submit, ChunkLeft
  <2>. QED
    BY <1>2, <2>1, <2>2 DEF Submit
<1>3. CASE Feed
  <2>1. DecoderOK'
    <3>1. UNCHANGED <<ready, framesDecoded, eos_fed, eos_seen>>
      BY <1>3 DEF Feed
    <3>2. CASE UNCHANGED <<queued, fed>>
      BY <3>1, <3>2 DEF DecoderOK
    <3>3. CASE queued < InputCap /\ queued' = queued + 1 /\ fed' = fed + 1
      <4>1. fed < Chunks
        BY <1>3 DEF Feed, ChunkLeft
      <4>. QED
        BY <3>1, <3>3, <4>1, Constants DEF DecoderOK
    <3>. QED
      BY <1>3, <3>2, <3>3 DEF Feed
  <2>2. CallerOK'
    BY <1>3, Constants DEF Feed, CallerOK, Frame, None
  <2>3. ChunkLeft'
    BY <1>3 DEF Feed, ChunkLeft
  <2>. QED
    BY <1>3, <2>1, <2>2, <2>3 DEF Feed
<1>4. CASE Finish
  <2>1. FlagsOK'
    BY <1>4, Constants DEF Finish, FlagsOK
  <2>. QED
    BY <1>4, <2>1 DEF Finish
<1>5. CASE TakeResult
  <2>1. DetectorOK'
    BY <1>5, Constants DEF TakeResult, DetectorOK, Frame, None
  <2>2. CallerOK'
    <3>1. Head(stream) \in [frame : Frame, state : {"working", "ok", "failed"}]
      BY <1>5, HeadTailProperties DEF TakeResult, DetectorOK
    <3>. QED
      BY <1>5, <3>1 DEF TakeResult, CallerOK
  <2>. QED
    BY <1>5, <2>1, <2>2 DEF TakeResult
<1>6. CASE PopMeta
  <2>1. MetaOK'
    <3>1. CASE meta = <<>>
      BY <1>6, <3>1 DEF PopMeta, metaVars, MetaOK
    <3>2. CASE meta # <<>>
      <4>1. Head(meta) \in Frame /\ Tail(meta) \in Seq(Frame)
        BY <3>2, HeadTailProperties DEF MetaOK
      <4>. QED
        BY <1>6, <3>2, <4>1 DEF PopMeta, MetaOK
    <3>. QED
      BY <3>1, <3>2
  <2>2. CallerOK'
    BY <1>6, Constants DEF PopMeta, metaVars, CallerOK, Frame, None
  <2>. QED
    BY <1>6, <2>1, <2>2 DEF PopMeta, metaVars
<1>7. CASE Rethrow \/ CallNext \/ NextEnds \/ ReportEnd
  <2>1. CallerOK'
    BY <1>7, Constants DEF Rethrow, CallNext, NextEnds, ReportEnd, CallerOK,
       Frame, None
  <2>. QED
    BY <1>7, <2>1 DEF Rethrow, CallNext, NextEnds, ReportEnd
<1>. HIDE DEF TInv
<1>. QED
  BY <1>1, <1>2, <1>3, <1>4, <1>5, <1>6, <1>7 DEF Worker, FeederStep, ReaderStep,
     TryNext, NextTakes

LEMMA OwnerTypes ==
  ASSUME TInv, Shutdown \/ Destructor \/ UNCHANGED vars
  PROVE  TInv'
<1>. USE Kept DEF TInv, downVars, implVars, threadVars, notDrain, notLb,
       notFeeder, notReader, decoderVars, callerVars
<1>1. CASE Shutdown
  <2>1. FlagsOK'
    BY <1>1, Constants DEF Shutdown, FlagsOK
  <2>2. OwnerOK'
    BY <1>1, Constants DEF Shutdown, OwnerOK
  <2>. QED
    BY <1>1, <2>1, <2>2 DEF Shutdown
<1>2. CASE ShutdownClose
  <2>1. ChannelOK'
    BY <1>2, Constants DEF ShutdownClose, CloseChannel, ChannelOK,
       SleepersHaveReason, Frame, None
  <2>2. OwnerOK'
    BY <1>2, Constants DEF ShutdownClose, CloseChannel, OwnerOK
  <2>. QED
    BY <1>2, <2>1, <2>2 DEF ShutdownClose, CloseChannel
<1>3. CASE ShutdownDetector
  <2>1. DetectorOK'
    BY <1>3, Constants DEF ShutdownDetector, FinishDetector, DetectorOK, Frame,
       None
  <2>2. OwnerOK'
    BY <1>3, Constants DEF ShutdownDetector, FinishDetector, OwnerOK
  <2>. QED
    BY <1>3, <2>1, <2>2 DEF ShutdownDetector, FinishDetector
<1>4. CASE Join
  <2>1. OwnerOK'
    BY <1>4, Constants DEF Join, OwnerOK
  <2>. QED
    BY <1>4, <2>1 DEF Join
<1>5. CASE UNCHANGED vars
  BY <1>5 DEF vars
<1>. HIDE DEF TInv
<1>. QED
  BY <1>1, <1>2, <1>3, <1>4, <1>5 DEF Destructor

LEMMA InitTypes == Init => TInv
<1>. SUFFICES ASSUME Init PROVE TInv
  OBVIOUS
<1>1. DecoderOK /\ FlagsOK /\ OwnerOK
  <2>1. 0 \in 0 .. Chunks /\ 0 \in 0 .. InputCap /\ 0 + 0 + 0 <= 0
    BY Constants
  <2>. QED
    BY <2>1 DEF Init, DecoderOK, FlagsOK, OwnerOK
<1>2. ChannelOK /\ DetectorOK /\ MetaOK
  <2>1. \A T : <<>> \in Seq(T)
    BY EmptySeq
  <2>2. Len(<<>>) = 0 /\ 0 <= QueueDepth
    BY EmptySeq, Constants
  <2>. QED
    BY <2>1, <2>2 DEF Init, ChannelOK, DetectorOK, MetaOK, SleepersHaveReason
<1>3. DrainOK /\ LbOK /\ CallerOK
  BY Constants DEF Init, DrainOK, LbOK, CallerOK, DrainPlaces, LbPlaces
<1>. QED
  BY <1>1, <1>2, <1>3 DEF TInv, ChunkLeft, Init

LEMMA TypesStep == TInv /\ [Next]_vars => TInv'
  BY DrainTypes, LbTypes, CallerTypes, OwnerTypes DEF Next, Inside, Over

\* Every variable keeps its type: among it, the channel never exceeds
\* queue_depth, and no frame but those of the stream is anywhere.
THEOREM TypesHold == Spec => []TypeOK
  BY InitTypes, TypesStep, TypesFollow, PTL DEF Spec

\* A pipeline thread asleep on the channel's condition variables has reason
\* to be: no notify of push(), pop() or close() is missed.
THEOREM ChannelWakesItsSleepers == Spec => []SleepersHaveReason
  BY InitTypes, TypesStep, TypesFollow, PTL DEF Spec

\* sizePool() adds as many buffers as the channel and the two threads hold
\* at most, whatever the depths configured.
THEOREM PoolIsLargeEnough == Spec => []FramesFitThePool
<1>1. TypeOK => FramesFitThePool
  <2>. SUFFICES ASSUME TypeOK PROVE FramesFitThePool
    OBVIOUS
  <2>1. Len(frames) \in Nat /\ Len(frames) <= QueueDepth
    BY DEF TypeOK
  <2>2. SizedExtra \in Nat /\ SizedExtra >= QueueDepth + 2
    BY Constants DEF SizedExtra
  <2>3. Held <= Len(frames) + 2 /\ Held \in Nat
    <3>1. \E a, b \in {0, 1} : Held = Len(frames) + a + b
      BY DEF Held
    <3>. QED
      BY <2>1, <3>1
  <2>. QED
    BY <2>1, <2>2, <2>3, Constants DEF FramesFitThePool
<1>. QED
  BY <1>1, TypesHold, PTL

-----------------------------------------------------------------------------
(* The metadata FIFO beside the detector.                                  *)

\* A result popped whose metadata is not popped yet, and metadata entered
\* whose frame is not committed yet (or never will be).
Behind == IF reader = "popped" THEN 1 ELSE 0
Ahead  == IF lb \in {"commit", "withdraw"} THEN 1 ELSE 0

\* The FIFO is the detector's stream, up to those two.
MetaInStep ==
  /\ Len(meta) = Behind + Len(stream) + Ahead
  /\ reader = "popped" => meta[1] = handed
  /\ \A k \in 1 .. Len(stream) : meta[Behind + k] = stream[k].frame
  /\ lb = "commit" => meta[Len(meta)] = lbFrame
  /\ outcome = "result" => last_meta = handed

\* next() or tryNext() throws what a worker threw.
FailureThrown == TakeResult /\ Head(stream).state = "failed"

\* What the FIFO's two ends are tied to.
tieVars == <<meta, last_meta, stream, handed>>

LEMMA MetaQuiet ==
  ASSUME MetaInStep, UNCHANGED tieVars,
         \/ UNCHANGED <<lb, lbFrame>>
         \/ lb \notin {"commit", "withdraw"} /\ lb' \notin {"commit", "withdraw"}
         \/ lb = "commit" /\ lb' = "withdraw",
         reader = "popped" <=> reader' = "popped",
         outcome' = "result" => outcome = "result"
  PROVE  MetaInStep'
<1>1. Behind' = Behind /\ Ahead' = Ahead
  BY DEF Behind, Ahead
<1>2. lb' = "commit" => lb = "commit" /\ lbFrame' = lbFrame
  OBVIOUS
<1>. QED
  BY <1>1, <1>2 DEF MetaInStep, tieVars

Pair == [frame : Frame, state : {"working", "ok", "failed"}]

LEMMA SequencesTyped ==
  ASSUME TInv
  PROVE  /\ meta \in Seq(Frame) /\ Len(meta) \in Nat
         /\ stream \in Seq(Pair) /\ Len(stream) \in Nat
         /\ Behind \in Nat /\ Ahead \in Nat
  BY LenProperties
     DEF TInv, MetaOK, DetectorOK, Pair, Behind, Ahead

LEMMA LbMeta ==
  ASSUME TInv, MetaInStep, LbThread
  PROVE  MetaInStep'
<1>. USE SequencesTyped DEF downVars, implVars, threadVars, notLb,
       detectorVars, metaVars, callerVars, tieVars
<1>1. CASE LbLetterbox
  <2>1. /\ lb = "letterbox" /\ lb' = "commit" /\ lbFrame' = lbFrame
        /\ meta' = Append(meta, lbFrame)
        /\ UNCHANGED <<stream, last_meta, reader, handed, outcome>>
    BY <1>1 DEF LbLetterbox, LbGoto
  <2>2. lbFrame \in Frame
    BY <2>1 DEF TInv, LbOK
  <2>3. Ahead = 0 /\ Ahead' = 1 /\ Behind' = Behind
    BY <2>1 DEF Ahead, Behind
  <2>4. /\ Len(meta') = Len(meta) + 1 /\ meta'[Len(meta) + 1] = lbFrame
        /\ \A i \in 1 .. Len(meta) : meta'[i] = meta[i]
    BY <2>1, <2>2, AppendProperties
  <2>5. reader = "popped" => 1 \in 1 .. Len(meta)
    BY <2>3 DEF MetaInStep, Behind
  <2>6. \A k \in 1 .. Len(stream) : Behind + k \in 1 .. Len(meta)
    BY <2>3 DEF MetaInStep
  <2>. QED
    BY <2>1, <2>3, <2>4, <2>5, <2>6 DEF MetaInStep
<1>2. CASE LbCommit
  <2>1. /\ lb = "commit" /\ lb' = "room"
        /\ stream' = Append(stream, [frame |-> lbFrame, state |-> "working"])
        /\ UNCHANGED <<meta, last_meta, reader, handed, outcome>>
    BY <1>2 DEF LbCommit
  <2>2. lbFrame \in Frame
    BY <2>1 DEF TInv, LbOK
  <2>3. Ahead = 1 /\ Ahead' = 0 /\ Behind' = Behind
    BY <2>1 DEF Ahead, Behind
  <2>4. [frame |-> lbFrame, state |-> "working"] \in Pair
    BY <2>2 DEF Pair
  <2>5. /\ Len(stream') = Len(stream) + 1
        /\ stream'[Len(stream) + 1] = [frame |-> lbFrame, state |-> "working"]
        /\ \A i \in 1 .. Len(stream) : stream'[i] = stream[i]
    BY <2>1, <2>4, AppendProperties
  <2>6. Len(meta) = Behind + (Len(stream) + 1) /\ meta[Len(meta)] = lbFrame
    BY <2>1, <2>3 DEF MetaInStep
  <2>7. ASSUME NEW k \in 1 .. (Len(stream) + 1)
        PROVE  meta[Behind + k] = stream'[k].frame
    <3>1. CASE k = Len(stream) + 1
      BY <2>5, <2>6, <3>1
    <3>2. CASE k \in 1 .. Len(stream)
      BY <2>5, <3>2 DEF MetaInStep
    <3>. QED
      BY <3>1, <3>2
  <2>8. reader = "popped" => meta[1] = handed
    BY DEF MetaInStep
  <2>. QED
    BY <2>1, <2>3, <2>5, <2>6, <2>7, <2>8 DEF MetaInStep
<1>3. CASE LbWithdraw
  <2>1. /\ lb = "withdraw" /\ lb' = "finish"
        /\ meta' = SubSeq(meta, 1, Len(meta) - 1)
        /\ UNCHANGED <<stream, last_meta, reader, handed, outcome>>
    BY <1>3 DEF LbWithdraw, LbGoto, WithoutNewest
  <2>2. Ahead = 1 /\ Ahead' = 0 /\ Behind' = Behind
    BY <2>1 DEF Ahead, Behind
  <2>3. Len(meta) = Behind + Len(stream) + 1
    BY <2>2 DEF MetaInStep
  <2>4. \A i \in 1 .. (Len(meta) - 1) : meta[i] \in Frame
    BY ElementOfSeq
  <2>5. Len(meta') = Behind + Len(stream)
    BY <2>1, <2>3, <2>4, SubSeqProperties
  <2>6. \A i \in 1 .. (Len(meta) - 1) : meta'[i] = meta[i]
    BY <2>1, <2>4, SubSeqProperties
  <2>7. reader = "popped" => 1 \in 1 .. (Len(meta) - 1)
    BY <2>3 DEF Behind
  <2>8. \A k \in 1 .. Len(stream) : Behind + k \in 1 .. (Len(meta) - 1)
    BY <2>3
  <2>. QED
    BY <2>1, <2>2, <2>5, <2>6, <2>7, <2>8 DEF MetaInStep
<1>4. CASE LbCommitRefused
  <2>1. lb = "commit" /\ lb' = "withdraw" /\ UNCHANGED <<reader, outcome>>
    BY <1>4 DEF LbCommitRefused
  <2>. QED
    BY <1>4, <2>1, MetaQuiet DEF LbCommitRefused
<1>5. CASE \/ LbAwaitRoom \/ LbAwaitContext \/ Pop \/ PopSleeps \/ PopEnds
           \/ LbThrows \/ LbExits
  <2>1. lb \notin {"commit", "withdraw"} /\ lb' \notin {"commit", "withdraw"}
    <3>1. CASE LbAwaitRoom
      BY <3>1 DEF LbAwaitRoom, LbGoto
    <3>2. CASE LbAwaitContext
      BY <3>2 DEF LbAwaitContext, LbGoto
    <3>3. CASE PopSleeps
      <4>. HIDE SequencesTyped
      <4>1. lb = "pop" /\ lb' = lb
        BY <3>3, Zenon DEF PopSleeps, threadVars, lbVars
      <4>. QED
        BY <4>1
    <3>4. CASE Pop \/ PopEnds \/ LbThrows \/ LbExits
      BY <3>4 DEF Pop, PopEnds, LbThrows, LbExits, LbGoto
    <3>. QED
      BY <1>5, <3>1, <3>2, <3>3, <3>4
  <2>2. UNCHANGED <<reader, outcome>> /\ UNCHANGED tieVars
    BY <1>5 DEF LbAwaitRoom, LbAwaitContext, Pop, PopSleeps, PopEnds, LbThrows,
       LbExits, FinishDetector
  <2>. QED
    BY <2>1, <2>2, MetaQuiet
<1>6. CASE LbFails
  <2>1. lb \in {"fail", "failClose", "failFinish"} /\ UNCHANGED stream
    BY <1>6 DEF LbFails, Fail, FinishDetector
  <2>2. lb' \in {"failClose", "failFinish", "exited"}
    BY <1>6 DEF LbFails, LbGoto, AfterFail
  <2>3. UNCHANGED <<reader, outcome>> /\ UNCHANGED tieVars
    BY <1>6, <2>1 DEF LbFails
  <2>. QED
    BY <2>1, <2>2, <2>3, MetaQuiet
<1>. QED
  BY <1>1, <1>2, <1>3, <1>4, <1>5, <1>6 DEF LbThread

LEMMA ReaderMeta ==
  ASSUME TInv, MetaInStep, Worker \/ ReaderStep
  PROVE  MetaInStep' \/ FailureThrown
<1>. USE SequencesTyped DEF downVars, implVars, threadVars, notReader,
       detectorVars, metaVars, callerVars, lbVars, tieVars
<1>1. ASSUME NEW k \in DOMAIN stream, Infer(k) PROVE MetaInStep'
  <2>1. PICK v \in {"ok", "failed"} :
          stream' = [stream EXCEPT ![k] = [stream[k] EXCEPT !.state = v]]
    BY <1>1 DEF Infer
  <2>2. UNCHANGED <<meta, last_meta, lb, lbFrame, reader, handed, outcome>>
    BY <1>1 DEF Infer
  <2>3. k \in 1 .. Len(stream) /\ \A i \in 1 .. Len(stream) : stream[i] \in Pair
    BY LenProperties, ElementOfSeq
  <2>4. /\ Len(stream') = Len(stream)
        /\ \A i \in 1 .. Len(stream) : stream'[i].frame = stream[i].frame
    <3>1. [stream[k] EXCEPT !.state = v] \in Pair
      BY <2>3 DEF Pair
    <3>2. [stream[k] EXCEPT !.state = v].frame = stream[k].frame
      BY <2>3 DEF Pair
    <3>. QED
      BY <2>1, <2>3, <3>1, <3>2, ExceptSeq
  <2>. QED
    BY <2>2, <2>4 DEF MetaInStep, Behind, Ahead
<1>2. ASSUME TakeResult, reader \in {"next", "idle"}
      PROVE  MetaInStep' \/ FailureThrown
  <2>. SUFFICES ASSUME Head(stream).state = "ok" PROVE MetaInStep'
    BY <1>2 DEF TakeResult, FailureThrown
  <2>1. /\ stream # <<>> /\ stream' = Tail(stream)
        /\ handed' = Head(stream).frame
        /\ reader' = "popped" /\ outcome' = "none"
        /\ UNCHANGED <<meta, last_meta, lb, lbFrame>>
    BY <1>2 DEF TakeResult
  <2>2. Behind = 0 /\ Behind' = 1 /\ Ahead' = Ahead
    BY <1>2, <2>1 DEF Behind, Ahead
  <2>3. /\ Len(stream) >= 1 /\ Len(stream') = Len(stream) - 1
        /\ \A i \in 1 .. Len(stream') : stream'[i] = stream[i + 1]
    BY <2>1, EmptySeq, HeadTailProperties
  <2>4. meta[1] = stream[1].frame /\ Head(stream) = stream[1]
    BY <2>2, <2>3 DEF MetaInStep
  <2>5. \A k \in 1 .. Len(stream') : meta[1 + k] = stream'[k].frame
    BY <2>2, <2>3 DEF MetaInStep
  <2>6. Len(meta) = 1 + Len(stream') + Ahead
    BY <2>2, <2>3 DEF MetaInStep
  <2>7. lb = "commit" => meta[Len(meta)] = lbFrame
    BY DEF MetaInStep
  <2>. QED
    BY <2>1, <2>2, <2>4, <2>5, <2>6, <2>7 DEF MetaInStep
<1>3. CASE PopMeta
  <2>1. Behind = 1 /\ Behind' = 0 /\ Ahead' = Ahead /\ reader = "popped"
    BY <1>3 DEF PopMeta, Behind, Ahead
  <2>2. meta # <<>> /\ Len(meta) = 1 + Len(stream) + Ahead
    BY <2>1, EmptySeq DEF MetaInStep
  <2>3. /\ last_meta' = Head(meta) /\ meta' = Tail(meta)
        /\ reader' = "idle" /\ outcome' = "result"
        /\ UNCHANGED <<stream, lb, lbFrame, handed>>
    BY <1>3, <2>2 DEF PopMeta
  <2>4. /\ Len(meta') = Len(meta) - 1
        /\ \A i \in 1 .. Len(meta') : meta'[i] = meta[i + 1]
    BY <2>2, <2>3, HeadTailProperties
  <2>5. last_meta' = meta[1] /\ meta[1] = handed
    BY <2>1, <2>2, <2>3 DEF MetaInStep
  <2>6. ASSUME NEW k \in 1 .. Len(stream) PROVE meta'[k] = stream[k].frame
    <3>1. k \in 1 .. Len(meta')
      BY <2>2, <2>4
    <3>2. meta'[k] = meta[1 + k]
      BY <2>4, <3>1
    <3>3. meta[1 + k] = stream[k].frame
      BY <2>1 DEF MetaInStep
    <3>. QED
      BY <3>2, <3>3
  <2>7. lb = "commit" => meta'[Len(meta')] = lbFrame
    <3>1. lb = "commit" => Ahead = 1 /\ meta[Len(meta)] = lbFrame
      BY DEF Ahead, MetaInStep
    <3>. QED
      BY <2>2, <2>4, <3>1
  <2>8. Len(meta') = Behind' + Len(stream') + Ahead'
    BY <2>1, <2>2, <2>3, <2>4
  <2>9. \A k \in 1 .. Len(stream') : meta'[Behind' + k] = stream'[k].frame
    <3>. SUFFICES ASSUME NEW k \in 1 .. Len(stream')
                  PROVE  meta'[Behind' + k] = stream'[k].frame
      OBVIOUS
    <3>1. k \in 1 .. Len(stream) /\ stream' = stream
      BY <2>3
    <3>2. Behind' + k = k
      BY <2>1, <3>1
    <3>. QED
      BY <2>6, <3>1, <3>2
  <2>10. /\ reader' # "popped" /\ last_meta' = handed'
         /\ lb' = "commit" => meta'[Len(meta')] = lbFrame'
    BY <2>3, <2>5, <2>7
  <2>. QED
    BY <2>8, <2>9, <2>10 DEF MetaInStep
<1>4. CASE Rethrow \/ CallNext \/ NextEnds \/ ReportEnd
  <2>1. /\ UNCHANGED tieVars /\ UNCHANGED <<lb, lbFrame>>
        /\ reader # "popped" /\ reader' # "popped"
        /\ outcome' = "result" => outcome = "result"
    BY <1>4 DEF Rethrow, CallNext, NextEnds, ReportEnd
  <2>. QED
    BY <2>1, MetaQuiet
<1>. QED
  BY <1>1, <1>2, <1>3, <1>4 DEF Worker, ReaderStep, NextTakes, TryNext

\* Whatever else happens leaves both ends alone.
LEMMA OthersMeta ==
  ASSUME MetaInStep,
         \/ Decode \/ DrainThread \/ FeederStep
         \/ Shutdown \/ Destructor \/ UNCHANGED vars
  PROVE  MetaInStep'
<1>. USE DEF downVars, implVars, threadVars, notDrain, notFeeder,
       detectorVars, metaVars, callerVars, lbVars, tieVars
<1>1. UNCHANGED tieVars /\ UNCHANGED <<lb, lbFrame, reader, outcome>>
  <2>1. CASE Decode
    BY <2>1 DEF Decode
  <2>2. CASE DrainThread
    BY <2>2 DEF DrainThread, DrainLook, DrainChoose, FeedMarker, DrainReceive,
       ReceiveTimesOut, FlushIsEmpty, Push, PushSleeps, PushRefused,
       DrainThrows, DrainFails, Fail, FinishDetector, DrainExits, DrainGoto
  <2>3. CASE FeederStep
    BY <2>3 DEF FeederStep, Submit, Feed, Finish
  <2>4. CASE Shutdown \/ Destructor \/ UNCHANGED vars
    BY <2>4 DEF Shutdown, Destructor, ShutdownClose, ShutdownDetector, Join,
       FinishDetector, vars
  <2>. QED
    BY <2>1, <2>2, <2>3, <2>4
<1>. QED
  BY <1>1, MetaQuiet

LEMMA MetaStep ==
  ASSUME TInv, MetaInStep, [Next]_vars
  PROVE  MetaInStep' \/ FailureThrown
  BY LbMeta, ReaderMeta, OthersMeta DEF Next, Inside, Over


\* While no worker fails, the FIFO stays in step for good.
NoFailure == \A k \in DOMAIN stream : stream[k].state # "failed"

LEMMA NoFailureStep ==
  ASSUME ~WorkersFail, TInv, NoFailure, [Next]_vars
  PROVE  NoFailure' /\ ~FailureThrown
<1>. USE DEF downVars, implVars, threadVars, notReader, notLb, notDrain,
       notFeeder, detectorVars, metaVars
<1>. DEFINE Spotless(s) == \A k \in 1 .. Len(s) : s[k].state # "failed"
<1>1. stream \in Seq(Pair) /\ Len(stream) \in Nat /\ DOMAIN stream = 1 .. Len(stream)
  BY SequencesTyped, LenProperties
<1>2. Spotless(stream)
  BY <1>1 DEF NoFailure
<1>3. stream' \in Seq(Pair) /\ DOMAIN stream' = 1 .. Len(stream')
  <2>1. TInv'
    BY TypesStep
  <2>2. stream' \in Seq(Pair)
    BY <2>1 DEF TInv, DetectorOK, Pair
  <2>. QED
    BY <2>2, LenProperties
<1>4. ~FailureThrown
  <2>1. stream # <<>> => 1 \in 1 .. Len(stream) /\ Head(stream) = stream[1]
    BY <1>1, EmptySeq, HeadTailProperties
  <2>. QED
    BY <1>2, <2>1 DEF FailureThrown, TakeResult
<1>5. CASE LbCommit
  <2>1. stream' = Append(stream, [frame |-> lbFrame, state |-> "working"])
    BY <1>5 DEF LbCommit
  <2>2. [frame |-> lbFrame, state |-> "working"] \in Pair
    <3>1. lb = "commit"
      BY <1>5 DEF LbCommit
    <3>2. lbFrame \in Frame
      BY <3>1 DEF TInv, LbOK
    <3>. QED
      BY <3>2 DEF Pair
  <2>3. /\ Len(stream') = Len(stream) + 1
        /\ stream'[Len(stream) + 1] = [frame |-> lbFrame, state |-> "working"]
        /\ \A i \in 1 .. Len(stream) : stream'[i] = stream[i]
    BY <1>1, <2>1, <2>2, AppendProperties
  <2>4. \A k \in 1 .. Len(stream') : k \in 1 .. Len(stream) \/ k = Len(stream) + 1
    BY <1>1, <2>3
  <2>5. Spotless(stream')
    BY <1>2, <2>3, <2>4
  <2>. QED
    BY <1>3, <1>4, <2>5 DEF NoFailure
<1>6. ASSUME NEW k \in DOMAIN stream, Infer(k) PROVE NoFailure'
  <2>1. stream' = [stream EXCEPT ![k] = [stream[k] EXCEPT !.state = "ok"]]
    BY <1>6 DEF Infer
  <2>2. k \in 1 .. Len(stream) /\ stream[k] \in Pair
    BY <1>1, ElementOfSeq
  <2>3. /\ [stream[k] EXCEPT !.state = "ok"] \in Pair
        /\ [stream[k] EXCEPT !.state = "ok"].state = "ok"
    BY <2>2 DEF Pair
  <2>4. /\ Len(stream') = Len(stream)
        /\ \A i \in 1 .. Len(stream) : stream'[i] =
             IF i = k THEN [stream[k] EXCEPT !.state = "ok"] ELSE stream[i]
    BY <1>1, <2>1, <2>2, <2>3, ExceptSeq
  <2>5. Spotless(stream')
    BY <1>2, <2>3, <2>4
  <2>. QED
    BY <1>3, <2>5 DEF NoFailure
<1>7. CASE TakeResult
  <2>1. stream # <<>> /\ stream' = Tail(stream)
    BY <1>7 DEF TakeResult
  <2>2. /\ Len(stream') = Len(stream) - 1
        /\ \A i \in 1 .. Len(stream') : stream'[i] = stream[i + 1]
    BY <1>1, <2>1, HeadTailProperties
  <2>3. \A i \in 1 .. Len(stream') : i + 1 \in 1 .. Len(stream)
    BY <1>1, <2>2
  <2>4. Spotless(stream')
    BY <1>2, <2>2, <2>3
  <2>. QED
    BY <1>3, <1>4, <2>4 DEF NoFailure
<1>8. UNCHANGED stream => NoFailure'
  BY DEF NoFailure
<1>. USE DEF callerVars, lbVars, drainVars
<1>9. ASSUME \/ Decode \/ DrainThread \/ FeederStep
             \/ Shutdown \/ Destructor \/ UNCHANGED vars
      PROVE  UNCHANGED stream
  <2>1. CASE Decode
    BY <2>1 DEF Decode
  <2>2. CASE DrainThread
    BY <2>2 DEF DrainThread, DrainLook, DrainChoose, FeedMarker,
       DrainReceive, ReceiveTimesOut, FlushIsEmpty, Push, PushSleeps,
       PushRefused, DrainThrows, DrainFails, Fail, FinishDetector, DrainExits,
       DrainGoto
  <2>3. CASE FeederStep
    BY <2>3 DEF FeederStep, Submit, Feed, Finish
  <2>4. CASE Shutdown \/ Destructor \/ UNCHANGED vars
    BY <2>4 DEF Shutdown, Destructor, ShutdownClose, ShutdownDetector,
       Join, FinishDetector, vars
  <2>. QED
    BY <1>9, <2>1, <2>2, <2>3, <2>4
<1>10. ASSUME LbThread PROVE LbCommit \/ UNCHANGED stream
  <2>1. CASE LbFails
    BY <2>1 DEF LbFails, Fail, FinishDetector
  <2>2. CASE \/ LbAwaitRoom \/ LbAwaitContext \/ Pop \/ PopSleeps \/ PopEnds
             \/ LbLetterbox \/ LbThrows \/ LbCommitRefused \/ LbWithdraw
             \/ LbExits
    BY <2>2 DEF LbAwaitRoom, LbAwaitContext, Pop, PopSleeps, PopEnds,
       LbLetterbox, LbThrows, LbCommitRefused, LbWithdraw, LbExits,
       FinishDetector
  <2>. QED
    BY <1>10, <2>1, <2>2 DEF LbThread
<1>11. ASSUME ReaderStep PROVE TakeResult \/ UNCHANGED stream
  <2>1. CASE Rethrow \/ CallNext \/ PopMeta \/ NextEnds \/ ReportEnd
    BY <2>1 DEF Rethrow, CallNext, PopMeta, NextEnds, ReportEnd
  <2>. QED
    BY <1>11, <2>1 DEF ReaderStep, NextTakes, TryNext
<1>. QED
  BY <1>4, <1>5, <1>6, <1>7, <1>8, <1>9, <1>10, <1>11
     DEF Next, Inside, Over, Worker

LEMMA InitMeta == Init => MetaInStep /\ NoFailure
<1>1. Len(<<>>) = 0 /\ DOMAIN <<>> = {} /\ 1 .. 0 = {}
  BY EmptySeq
<1>. QED
  BY <1>1 DEF Init, MetaInStep, NoFailure, Behind, Ahead

\* What lastPtsUs() and lastFrameIndex() say is of the frame the last call
\* returned, whatever order the workers finish in, as long as none fails.
THEOREM MetadataFollows ==
  ASSUME ~WorkersFail
  PROVE  Spec => []MetaMatchesResult
<1>1. Init => TInv /\ MetaInStep /\ NoFailure
  BY InitTypes, InitMeta
<1>2. TInv /\ MetaInStep /\ NoFailure /\ [Next]_vars
        => TInv' /\ MetaInStep' /\ NoFailure'
  BY TypesStep, MetaStep, NoFailureStep
<1>3. MetaInStep => MetaMatchesResult
  BY DEF MetaInStep, MetaMatchesResult
<1>. QED
  BY <1>1, <1>2, <1>3, PTL DEF Spec


-----------------------------------------------------------------------------
(* How a stream ends: who closed the channel, who finished the detector.   *)

\* fail() records the error before it closes anything.
FailuresRecorded ==
  \/ drain \in {"failClose", "failFinish"}
  \/ lb \in {"failClose", "failFinish"}
  => error

\* The destructor runs while no call is in progress.
CallsBeforeShutdown == reader # "idle" => owner = "alive"

\* After finish(), or in the destructor, nothing more is fed.
InputClosed == input_done => feeder = "idle" /\ (finished \/ owner # "alive")

\* The decoder is flushed only then, and an end of stream leaves it dry.
TailAfterInput ==
  drain \in {"marker", "tail"} \/ eos_fed \/ eos_seen => input_done

EosIsDry == eos_seen => queued = 0 /\ ready = 0

\* Failures and shutdown() apart, the drain thread closes the channel last of
\* all, and the letterbox thread finishes the detector last of all, ...
DrainCloses ==
  closed_ /\ ~error /\ owner \in {"alive", "flagged"} => drain = "exited"

LbFinishes ==
  /\ streamOver /\ ~error /\ owner \notin {"joining", "joined"}
       => lb = "exited"
  /\ lb = "withdraw" => streamOver

\* ... when the drain thread is gone and the channel empty.
LbAfterDrain ==
  ~error /\ owner = "alive" /\ lb \in {"finish", "exited"}
    => closed_ /\ frames = <<>> /\ drain = "exited"

\* What next() has seen when it returns false.
Ended ==
  /\ drain = "exited" /\ lb = "exited"
  /\ ~error /\ streamOver /\ frames = <<>> /\ stream = <<>>

EndReached ==
  /\ reader = "ended" /\ ~error => Ended
  /\ outcome = "end" => Ended /\ reader = "idle"

EndInv ==
  /\ FailuresRecorded /\ CallsBeforeShutdown /\ InputClosed
  /\ TailAfterInput /\ EosIsDry /\ DrainCloses /\ LbFinishes /\ LbAfterDrain
  /\ EndReached

LEMMA DrainEnd ==
  ASSUME TInv, EndInv, Decode \/ DrainThread
  PROVE  EndInv'
<1>. USE DEF EndInv, FailuresRecorded, CallsBeforeShutdown,
       InputClosed, TailAfterInput, EosIsDry, DrainCloses, LbFinishes,
       LbAfterDrain, Ended, EndReached,
       decoderVars, channelVars, detectorVars,
       metaVars, flagVars, drainVars, lbVars, callerVars, downVars, implVars,
       threadVars, notDrain, notLb, notFeeder, notReader
<1>. USE DEF FlagsOK, DrainOK, LbOK, OwnerOK
<1>1. CASE Decode
  BY <1>1 DEF Decode
<1>2. CASE DrainLook
  BY <1>2 DEF DrainLook, DrainGoto
<1>3. CASE DrainChoose
  BY <1>3 DEF DrainChoose, DrainGoto
<1>4. CASE FeedMarker
  BY <1>4 DEF FeedMarker, DrainGoto
<1>5. CASE DrainReceive
  BY <1>5 DEF DrainReceive
<1>6. CASE ReceiveTimesOut
  BY <1>6 DEF ReceiveTimesOut, DrainGoto
<1>7. CASE FlushIsEmpty
  BY <1>7 DEF FlushIsEmpty
<1>8. CASE Push
  BY <1>8 DEF Push, SignalNotEmpty
<1>9. CASE PushSleeps
  BY <1>9 DEF PushSleeps
<1>10. CASE PushRefused
  BY <1>10 DEF PushRefused
<1>11. CASE DrainThrows
  BY <1>11 DEF DrainThrows, DrainGoto
<1>12. CASE DrainFails
  BY <1>12 DEF DrainFails, DrainGoto, Fail, AfterFail, RecordError, CloseChannel,
     FinishDetector
<1>13. CASE DrainExits
  BY <1>13 DEF DrainExits, DrainGoto, CloseChannel
<1>. QED
  BY <1>1, <1>2, <1>3, <1>4, <1>5, <1>6, <1>7, <1>8, <1>9, <1>10, <1>11, <1>12, <1>13 DEF DrainThread

LEMMA LbEnd ==
  ASSUME TInv, EndInv, LbThread
  PROVE  EndInv'
<1>. USE DEF EndInv, FailuresRecorded, CallsBeforeShutdown,
       InputClosed, TailAfterInput, EosIsDry, DrainCloses, LbFinishes,
       LbAfterDrain, Ended, EndReached,
       decoderVars, channelVars, detectorVars,
       metaVars, flagVars, drainVars, lbVars, callerVars, downVars, implVars,
       threadVars, notDrain, notLb, notFeeder, notReader
<1>. USE DEF FlagsOK, DrainOK, LbOK, OwnerOK
<1>1. CASE LbAwaitRoom
  BY <1>1 DEF LbAwaitRoom, LbGoto
<1>2. CASE LbAwaitContext
  BY <1>2 DEF LbAwaitContext, LbGoto
<1>3. CASE Pop
  BY <1>3 DEF Pop
<1>4. CASE PopSleeps
  BY <1>4 DEF PopSleeps
<1>5. CASE PopEnds
  BY <1>5 DEF PopEnds, LbGoto, ClosedAndEmpty
<1>6. CASE LbLetterbox
  BY <1>6 DEF LbLetterbox, LbGoto
<1>7. CASE LbThrows
  BY <1>7 DEF LbThrows
<1>8. CASE LbCommit
  BY <1>8 DEF LbCommit
<1>9. CASE LbCommitRefused
  BY <1>9 DEF LbCommitRefused
<1>10. CASE LbWithdraw
  BY <1>10 DEF LbWithdraw, LbGoto
<1>11. CASE LbFails
  BY <1>11 DEF LbFails, LbGoto, Fail, AfterFail, RecordError, CloseChannel,
     FinishDetector
<1>12. CASE LbExits
  BY <1>12 DEF LbExits, LbGoto, FinishDetector
<1>. QED
  BY <1>1, <1>2, <1>3, <1>4, <1>5, <1>6, <1>7, <1>8, <1>9, <1>10, <1>11, <1>12 DEF LbThread

LEMMA CallerEnd ==
  ASSUME TInv, EndInv, FeederStep \/ ReaderStep \/ Worker
  PROVE  EndInv'
<1>. USE DEF EndInv, FailuresRecorded, CallsBeforeShutdown,
       InputClosed, TailAfterInput, EosIsDry, DrainCloses, LbFinishes,
       LbAfterDrain, Ended, EndReached,
       decoderVars, channelVars, detectorVars,
       metaVars, flagVars, drainVars, lbVars, callerVars, downVars, implVars,
       threadVars, notDrain, notLb, notFeeder, notReader
<1>. USE DEF FlagsOK, DrainOK, LbOK, OwnerOK
<1>1. CASE Submit
  BY <1>1 DEF Submit, Refusing
<1>2. CASE Feed
  BY <1>2 DEF Feed
<1>3. CASE Finish
  BY <1>3 DEF Finish
<1>4. CASE Rethrow
  BY <1>4 DEF Rethrow
<1>5. CASE CallNext
  BY <1>5 DEF CallNext
<1>6. CASE NextTakes \/ TryNext
  <2>. HIDE DEF InputClosed, TailAfterInput, EosIsDry, FailuresRecorded
  <2>1. reader \in {"next", "idle"} /\ owner = "alive"
    BY <1>6 DEF NextTakes, TryNext
  <2>2. /\ stream # <<>> /\ ~Ended
        /\ reader' = "popped" \/ reader' = "idle"
        /\ outcome' = "none" \/ outcome' = "threw"
        /\ UNCHANGED <<decoderVars, channelVars, streamOver, flagVars,
                       drainVars, lbVars, feeder, owner>>
    BY <1>6 DEF NextTakes, TryNext, TakeResult
  <2>. QED
    BY <2>1, <2>2 DEF InputClosed, TailAfterInput, EosIsDry, FailuresRecorded
<1>7. CASE PopMeta
  BY <1>7 DEF PopMeta
<1>8. CASE NextEnds
  BY <1>8 DEF NextEnds
<1>9. CASE ReportEnd
  BY <1>9 DEF ReportEnd
<1>10. CASE Worker
  BY <1>10 DEF Worker, Infer
<1>. QED
  BY <1>1, <1>2, <1>3, <1>4, <1>5, <1>6, <1>7, <1>8, <1>9, <1>10 DEF FeederStep, ReaderStep

LEMMA OwnerEnd ==
  ASSUME TInv, EndInv, Shutdown \/ Destructor \/ UNCHANGED vars
  PROVE  EndInv'
<1>. USE DEF EndInv, FailuresRecorded, CallsBeforeShutdown,
       InputClosed, TailAfterInput, EosIsDry, DrainCloses, LbFinishes,
       LbAfterDrain, Ended, EndReached,
       decoderVars, channelVars, detectorVars,
       metaVars, flagVars, drainVars, lbVars, callerVars, downVars, implVars,
       threadVars, notDrain, notLb, notFeeder, notReader
<1>. USE DEF FlagsOK, DrainOK, LbOK, OwnerOK
<1>1. CASE Shutdown
  BY <1>1 DEF Shutdown
<1>2. CASE ShutdownClose
  BY <1>2 DEF ShutdownClose, CloseChannel
<1>3. CASE ShutdownDetector
  BY <1>3 DEF ShutdownDetector, FinishDetector
<1>4. CASE Join
  BY <1>4 DEF Join
<1>5. CASE UNCHANGED vars
  BY <1>5 DEF vars
<1>. QED
  BY <1>1, <1>2, <1>3, <1>4, <1>5 DEF Destructor

LEMMA InitEnd == Init => EndInv
  BY DEF Init, EndInv, FailuresRecorded, CallsBeforeShutdown, InputClosed,
     TailAfterInput, EosIsDry, DrainCloses, LbFinishes, LbAfterDrain,
     EndReached

LEMMA EndStep ==
  ASSUME TInv, EndInv, [Next]_vars
  PROVE  EndInv'
  BY DrainEnd, LbEnd, CallerEnd, OwnerEnd DEF Next, Inside, Over


\* A clean end leaves nothing anywhere, if the decoder is at its end too.
LEMMA NothingIsLeft ==
  ASSUME TInv, MetaInStep, EndInv, outcome = "end"
  PROVE  ~error /\ (eos_seen => NothingLeft)
<1>1. Ended /\ reader = "idle"
  BY DEF EndInv, EndReached
<1>2. frames = <<>> /\ stream = <<>> /\ Behind = 0 /\ Ahead = 0
  BY <1>1 DEF Ended, Behind, Ahead
<1>3. meta = <<>>
  <2>1. Len(meta) = 0
    BY <1>2, EmptySeq DEF MetaInStep
  <2>. QED
    BY <2>1, SequencesTyped, EmptySeq
<1>4. drainFrame = None /\ lbFrame = None
  BY <1>1 DEF Ended, TInv, DrainOK, LbOK
<1>. QED
  BY <1>1, <1>2, <1>3, <1>4 DEF Ended, EndInv, EosIsDry, NothingLeft

\* When next() returns false no thread has recorded an error, and nothing is
\* left on its way if the decoder is at its end of stream: neither a failure
\* nor finish() racing a commit passes for the end.
THEOREM AnEndIsClean ==
  ASSUME ~WorkersFail
  PROVE  Spec => []CleanEnd
<1>1. Init => TInv /\ MetaInStep /\ NoFailure /\ EndInv
  BY InitTypes, InitMeta, InitEnd
<1>2. TInv /\ MetaInStep /\ NoFailure /\ EndInv /\ [Next]_vars
        => TInv' /\ MetaInStep' /\ NoFailure' /\ EndInv'
  BY TypesStep, MetaStep, NoFailureStep, EndStep
<1>3. TInv /\ MetaInStep /\ EndInv => CleanEnd
  BY NothingIsLeft DEF CleanEnd
<1>. QED
  BY <1>1, <1>2, <1>3, PTL DEF Spec

-----------------------------------------------------------------------------
(* Every frame decoded is somewhere, in order.                             *)

InDrain == IF drain = "push" THEN 1 ELSE 0
InLb    == IF lb \in {"letterbox", "commit"} THEN 1 ELSE 0

\* Frames decoded and not delivered; the first of them.
Pending == Len(stream) + InLb + Len(frames) + InDrain
Due     == Len(got)

\* The letterbox thread takes no more frames.
Stopped ==
  lb \in {"withdraw", "finish", "fail", "failClose", "failFinish", "exited"}

\* A thread that fails may lose the frame it had in hand, ...
Lost == error \/ lb = "fail"

\* ... and then nobody pushes behind the gap, or nobody takes from behind it.
Whole == ~Lost \/ (~Stopped /\ ~closed_)

GotInOrder == got \in Seq(Frame) /\ \A i \in 1 .. Len(got) : got[i] = i - 1

\* What is on its way to the caller follows what it got without a gap, and
\* while nothing was lost that is all the decoder handed out.
InOrder ==
  /\ \A k \in 1 .. Len(stream) : stream[k].frame = Due + k - 1
  /\ InLb = 1 => lbFrame = Due + Len(stream)
  /\ ~Stopped =>
       \A i \in 1 .. Len(frames) : frames[i] = Due + Len(stream) + InLb + i - 1
  /\ Whole => framesDecoded = Due + Pending
  /\ InDrain = 1 => drainFrame = framesDecoded - 1

LEMMA OrderNumbers ==
  ASSUME TInv, GotInOrder
  PROVE  /\ stream \in Seq(Pair) /\ Len(stream) \in Nat
         /\ frames \in Seq(Frame) /\ Len(frames) \in Nat
         /\ framesDecoded \in Nat /\ InDrain \in Nat /\ InLb \in Nat
         /\ Pending \in Nat /\ Due \in Nat
<1>1. /\ stream \in Seq(Pair) /\ Len(stream) \in Nat
      /\ frames \in Seq(Frame) /\ Len(frames) \in Nat
  BY LenProperties DEF TInv, DetectorOK, ChannelOK, Pair
<1>2. framesDecoded \in Nat /\ InDrain \in Nat /\ InLb \in Nat
  BY Constants DEF TInv, DecoderOK, InDrain, InLb
<1>3. Due \in Nat
  BY LenProperties DEF GotInOrder, Due
<1>. QED
  BY <1>1, <1>2, <1>3 DEF Pending

\* An error is never taken back, and a thread that failed records one.
LEMMA LostStays ==
  ASSUME Lost, [Next]_vars
  PROVE  Lost'
<1>. USE DEF implVars, downVars, flagVars, threadVars, drainVars, lbVars,
       callerVars, notDrain, notLb, notFeeder, notReader
<1>1. ASSUME UNCHANGED <<lb, error>> PROVE Lost'
  BY <1>1 DEF Lost
<1>2. CASE Decode
  BY <1>1, <1>2 DEF Decode
<1>3. CASE DrainThread
  <2>1. CASE DrainFails
    <3>1. lb' = lb /\ (error' = error \/ error' = TRUE)
      BY <2>1 DEF DrainFails, Fail, RecordError
    <3>. QED
      BY <3>1 DEF Lost
  <2>2. CASE DrainThread /\ ~DrainFails
    <3>1. UNCHANGED <<lb, error>>
      BY <2>2 DEF DrainThread, DrainLook, DrainChoose, FeedMarker,
         DrainReceive, ReceiveTimesOut, FlushIsEmpty, Push, PushSleeps,
         PushRefused, DrainThrows, DrainExits, DrainGoto
    <3>. QED
      BY <1>1, <3>1
  <2>. QED
    BY <1>3, <2>1, <2>2
<1>4. CASE LbThread
  <2>1. CASE LbFails
    <3>1. error' = TRUE \/ (lb # "fail" /\ error' = error)
      BY <2>1 DEF LbFails, Fail, RecordError
    <3>. QED
      BY <3>1 DEF Lost
  <2>2. CASE LbThread /\ ~LbFails
    <3>1. error' = error
      BY <2>2 DEF LbThread, LbAwaitRoom, LbAwaitContext, Pop, PopSleeps,
         PopEnds, LbLetterbox, LbThrows, LbCommit, LbCommitRefused,
         LbWithdraw, LbExits
    <3>2. lb # "fail"
      BY <2>2 DEF LbThread, LbAwaitRoom, LbAwaitContext, Pop, PopSleeps,
         PopEnds, LbLetterbox, LbThrows, LbCommit, LbCommitRefused,
         LbWithdraw, LbExits
    <3>. QED
      BY <3>1, <3>2 DEF Lost
  <2>. QED
    BY <1>4, <2>1, <2>2
<1>5. CASE Worker \/ FeederStep \/ ReaderStep
  <2>1. UNCHANGED <<lb, error>>
    BY <1>5 DEF Worker, Infer, FeederStep, Submit, Feed, Finish, ReaderStep,
       Rethrow, CallNext, NextTakes, TryNext, TakeResult, PopMeta, NextEnds,
       ReportEnd
  <2>. QED
    BY <1>1, <2>1
<1>6. CASE Shutdown \/ Destructor \/ UNCHANGED vars
  <2>1. UNCHANGED <<lb, error>>
    BY <1>6 DEF Shutdown, Destructor, ShutdownClose, ShutdownDetector, Join,
       vars
  <2>. QED
    BY <1>1, <2>1
<1>. QED
  BY <1>2, <1>3, <1>4, <1>5, <1>6 DEF Next, Inside, Over

LEMMA StoppedStays ==
  ASSUME [Next]_vars
  PROVE  (Stopped => Stopped') /\ (closed_ => closed_')
<1>. USE DEF Stopped, implVars, downVars, channelVars, threadVars, drainVars,
       lbVars, callerVars, notDrain, notLb, notFeeder, notReader
<1>1. CASE Decode \/ Worker
  BY <1>1 DEF Decode, Worker, Infer
<1>2. CASE DrainThread
  BY <1>2 DEF DrainThread, DrainLook, DrainChoose, FeedMarker, DrainReceive,
     ReceiveTimesOut, FlushIsEmpty, Push, PushSleeps, PushRefused,
     DrainThrows, DrainFails, Fail, CloseChannel, DrainExits, DrainGoto
<1>3. CASE LbThread
  <2>1. CASE LbFails
    BY <2>1 DEF LbFails, Fail, AfterFail, CloseChannel, LbGoto
  <2>2. CASE LbThread /\ ~LbFails
    BY <2>2 DEF LbThread, LbAwaitRoom, LbAwaitContext, Pop, PopSleeps,
       PopEnds, LbLetterbox, LbThrows, LbCommit, LbCommitRefused, LbWithdraw,
       LbExits, LbGoto
  <2>. QED
    BY <1>3, <2>1, <2>2
<1>4. CASE FeederStep \/ ReaderStep
  BY <1>4 DEF FeederStep, Submit, Feed, Finish, ReaderStep, Rethrow, CallNext,
     NextTakes, TryNext, TakeResult, PopMeta, NextEnds, ReportEnd
<1>5. CASE Shutdown \/ Destructor \/ UNCHANGED vars
  BY <1>5 DEF Shutdown, Destructor, ShutdownClose, ShutdownDetector, Join,
     CloseChannel, vars
<1>. QED
  BY <1>1, <1>2, <1>3, <1>4, <1>5 DEF Next, Inside, Over

LEMMA WholeWas ==
  ASSUME [Next]_vars, Whole'
  PROVE  Whole
  BY LostStays, StoppedStays, Zenon DEF Whole

\* A step that changes none of the places a frame can be in.
LEMMA OrderQuiet ==
  ASSUME InOrder, [Next]_vars,
         UNCHANGED <<stream, frames, framesDecoded, lbFrame, drainFrame, got>>,
         InLb' = InLb, InDrain' = InDrain
  PROVE  InOrder'
<1>1. Pending' = Pending /\ Due' = Due
  BY DEF Pending, Due
<1>2. (Whole' => Whole) /\ (Stopped => Stopped')
  BY WholeWas, StoppedStays
<1>. QED
  BY <1>1, <1>2 DEF InOrder

LEMMA DrainOrder ==
  ASSUME TInv, EndInv, GotInOrder, InOrder, owner = "alive",
         Decode \/ DrainThread, UNCHANGED got
  PROVE  InOrder'
<1>. USE OrderNumbers
<1>1. [Next]_vars /\ (Whole' => Whole) /\ (Stopped => Stopped')
  <2>1. [Next]_vars
    BY DEF Next, Inside
  <2>. QED
    BY <2>1, WholeWas, StoppedStays
<1>2. CASE DrainReceive
  <2>1. /\ drain # "push" /\ drain' = "push"
        /\ drainFrame' = framesDecoded /\ framesDecoded' = framesDecoded + 1
        /\ UNCHANGED <<stream, frames, lb, lbFrame>>
    BY <1>2 DEF DrainReceive, downVars, channelVars, detectorVars, notDrain,
       lbVars, callerVars
  <2>2. InDrain = 0 /\ InDrain' = 1 /\ InLb' = InLb
    BY <2>1 DEF InDrain, InLb
  <2>3. Pending' = Pending + 1 /\ Due' = Due
    BY <2>1, <2>2 DEF Pending, Due
  <2>4. drainFrame' = framesDecoded' - 1
    BY <2>1
  <2>5. Whole' => framesDecoded' = Due + Pending'
    BY <1>1, <2>1, <2>3 DEF InOrder
  <2>. QED
    BY <1>1, <2>1, <2>2, <2>3, <2>4, <2>5 DEF InOrder
<1>3. CASE Push
  <2>1. /\ drain = "push" /\ drain' = "look" /\ ~closed_
        /\ frames' = Append(frames, drainFrame)
        /\ UNCHANGED <<stream, framesDecoded, lb, lbFrame>>
    BY <1>3 DEF Push, decoderVars, detectorVars, notDrain, lbVars, callerVars
  <2>2. drainFrame \in Frame
    BY <2>1 DEF TInv, DrainOK
  <2>3. InDrain = 1 /\ InDrain' = 0 /\ InLb' = InLb
    BY <2>1 DEF InDrain, InLb
  <2>4. /\ Len(frames') = Len(frames) + 1
        /\ frames'[Len(frames) + 1] = drainFrame
        /\ \A i \in 1 .. Len(frames) : frames'[i] = frames[i]
    BY <2>1, <2>2, AppendProperties
  <2>5. Pending' = Pending /\ Due' = Due
    BY <2>1, <2>3, <2>4 DEF Pending, Due
  <2>6. ~Stopped => drainFrame = Due + Len(stream) + InLb + Len(frames)
    <3>. SUFFICES ASSUME ~Stopped
                  PROVE  drainFrame = Due + Len(stream) + InLb + Len(frames)
      OBVIOUS
    <3>1. drainFrame = framesDecoded - 1
      BY <2>3, Zenon DEF InOrder
    <3>2. framesDecoded = Due + Pending
      BY <2>1 DEF InOrder, Whole
    <3>3. PICK n \in Int, s \in Int, f \in Int, l \in Int :
            n = Due /\ s = Len(stream) /\ f = Len(frames) /\ l = InLb
      OBVIOUS
    <3>4. framesDecoded = n + (s + l + f + 1)
      BY <2>3, <3>2, <3>3 DEF Pending
    <3>5. (n + (s + l + f + 1)) - 1 = n + s + l + f
      BY <3>3
    <3>. QED
      BY <3>1, <3>3, <3>4, <3>5
  <2>7. ASSUME ~Stopped, NEW i \in 1 .. (Len(frames) + 1)
        PROVE  frames'[i] = Due + Len(stream) + InLb + i - 1
    <3>1. CASE i = Len(frames) + 1
      BY <2>4, <2>6, <2>7, <3>1
    <3>2. CASE i \in 1 .. Len(frames)
      BY <2>4, <2>7, <3>2 DEF InOrder
    <3>3. ASSUME NEW m \in Nat, NEW j \in 1 .. (m + 1)
          PROVE  j = m + 1 \/ j \in 1 .. m
      OBVIOUS
    <3>4. Len(frames) \in Nat /\ i \in 1 .. (Len(frames) + 1)
      BY <2>7
    <3>5. i = Len(frames) + 1 \/ i \in 1 .. Len(frames)
      BY <3>3, <3>4, Zenon
    <3>. QED
      BY <3>1, <3>2, <3>5, Zenon
  <2>. QED
    BY <1>1, <2>1, <2>3, <2>4, <2>5, <2>7 DEF InOrder
<1>4. CASE PushRefused
  <2>1. /\ closed_ /\ drain = "push" /\ drain' = "close"
        /\ UNCHANGED <<stream, frames, framesDecoded, lb, lbFrame, error,
                       closed_>>
    BY <1>4 DEF PushRefused, implVars, downVars, flagVars, decoderVars,
       channelVars, detectorVars, notDrain, lbVars
  <2>2. error
    BY <2>1 DEF EndInv, DrainCloses
  <2>3. ~Whole'
    BY <2>1, <2>2 DEF Whole, Lost
  <2>4. InLb' = InLb /\ InDrain' = 0 /\ Due' = Due
    BY <2>1 DEF InLb, InDrain, Due
  <2>. QED
    BY <1>1, <2>1, <2>3, <2>4 DEF InOrder
<1>5. CASE DrainFails
  <2>1. /\ UNCHANGED <<stream, frames, framesDecoded, lb, lbFrame, drainFrame>>
        /\ drain \in {"fail", "failClose", "failFinish"}
        /\ drain' \in {"failClose", "failFinish", "close"}
    BY <1>5 DEF DrainFails, Fail, AfterFail, DrainGoto, CloseChannel,
       FinishDetector, decoderVars, channelVars, detectorVars, notDrain,
       lbVars, callerVars
  <2>2. InLb' = InLb /\ InDrain' = InDrain
    BY <2>1 DEF InLb, InDrain
  <2>. QED
    BY <1>1, <2>1, <2>2, OrderQuiet
<1>6. CASE \/ Decode \/ DrainLook \/ DrainChoose \/ FeedMarker
           \/ ReceiveTimesOut \/ FlushIsEmpty \/ PushSleeps \/ DrainThrows
           \/ DrainExits
  <2>1. /\ UNCHANGED <<stream, frames, framesDecoded, lb, lbFrame, drainFrame>>
        /\ drain = "push" <=> drain' = "push"
    <3>. USE DEF implVars, downVars, decoderVars, channelVars, detectorVars,
           threadVars, drainVars, lbVars, callerVars, notDrain, DrainGoto
    <3>1. CASE Decode
      BY <3>1 DEF Decode
    <3>2. CASE DrainLook \/ DrainChoose \/ FeedMarker
      BY <3>2 DEF DrainLook, DrainChoose, FeedMarker
    <3>3. CASE ReceiveTimesOut \/ FlushIsEmpty
      BY <3>3 DEF ReceiveTimesOut, FlushIsEmpty
    <3>4. CASE PushSleeps
      BY <3>4 DEF PushSleeps
    <3>5. CASE DrainThrows \/ DrainExits
      BY <3>5 DEF DrainThrows, DrainExits, CloseChannel
    <3>. QED
      BY <1>6, <3>1, <3>2, <3>3, <3>4, <3>5
  <2>2. InLb' = InLb /\ InDrain' = InDrain
    BY <2>1 DEF InLb, InDrain
  <2>. QED
    BY <1>1, <2>1, <2>2, OrderQuiet
<1>. QED
  BY <1>2, <1>3, <1>4, <1>5, <1>6 DEF DrainThread


LEMMA LbOrder ==
  ASSUME TInv, EndInv, GotInOrder, InOrder, owner = "alive", LbThread,
         UNCHANGED got
  PROVE  InOrder'
<1>. USE OrderNumbers
<1>1. [Next]_vars /\ (Whole' => Whole) /\ (Stopped => Stopped')
  <2>1. [Next]_vars
    BY DEF Next, Inside
  <2>. QED
    BY <2>1, WholeWas, StoppedStays
<1>2. CASE Pop
  <2>1. /\ lb = "pop" /\ lb' = "letterbox" /\ frames # <<>>
        /\ lbFrame' = Head(frames) /\ frames' = Tail(frames)
        /\ UNCHANGED <<stream, framesDecoded, drain, drainFrame>>
    BY <1>2 DEF Pop, decoderVars, detectorVars, notLb, drainVars, callerVars
  <2>2. InLb = 0 /\ InLb' = 1 /\ InDrain' = InDrain /\ ~Stopped
    BY <2>1 DEF InLb, InDrain, Stopped
  <2>3. /\ Len(frames) >= 1 /\ Len(frames') = Len(frames) - 1
        /\ \A i \in 1 .. Len(frames') : frames'[i] = frames[i + 1]
        /\ lbFrame' = frames[1]
    BY <2>1, EmptySeq, HeadTailProperties
  <2>4. Pending' = Pending /\ Due' = Due
    BY <2>1, <2>2, <2>3 DEF Pending, Due
  <2>5. lbFrame' = Due + Len(stream)
    BY <2>2, <2>3 DEF InOrder
  <2>6. ASSUME NEW i \in 1 .. Len(frames')
        PROVE  frames'[i] = Due + Len(stream) + 1 + i - 1
    <3>1. i + 1 \in 1 .. Len(frames) /\ frames'[i] = frames[i + 1]
      BY <2>3
    <3>2. frames[i + 1] = Due + Len(stream) + InLb + (i + 1) - 1
      BY <2>2, <3>1 DEF InOrder
    <3>. QED
      BY <2>2, <3>1, <3>2
  <2>. QED
    BY <1>1, <2>1, <2>2, <2>4, <2>5, <2>6 DEF InOrder
<1>3. CASE LbCommit
  <2>1. /\ lb = "commit" /\ lb' = "room"
        /\ stream' = Append(stream, [frame |-> lbFrame, state |-> "working"])
        /\ UNCHANGED <<frames, framesDecoded, drain, drainFrame>>
    BY <1>3 DEF LbCommit, decoderVars, channelVars, notLb, drainVars,
       callerVars
  <2>2. lbFrame \in Frame
    BY <2>1 DEF TInv, LbOK
  <2>3. InLb = 1 /\ InLb' = 0 /\ InDrain' = InDrain /\ ~Stopped
    BY <2>1 DEF InLb, InDrain, Stopped
  <2>4. [frame |-> lbFrame, state |-> "working"] \in Pair
    BY <2>2 DEF Pair
  <2>5. /\ Len(stream') = Len(stream) + 1
        /\ stream'[Len(stream) + 1] = [frame |-> lbFrame, state |-> "working"]
        /\ \A i \in 1 .. Len(stream) : stream'[i] = stream[i]
    BY <2>1, <2>4, AppendProperties
  <2>6. Pending' = Pending /\ Due' = Due
    BY <2>1, <2>3, <2>5 DEF Pending, Due
  <2>7. ASSUME NEW k \in 1 .. (Len(stream) + 1)
        PROVE  stream'[k].frame = Due + k - 1
    <3>1. CASE k = Len(stream) + 1
      BY <2>3, <2>5, <3>1 DEF InOrder
    <3>2. CASE k \in 1 .. Len(stream)
      BY <2>5, <3>2 DEF InOrder
    <3>. QED
      BY <3>1, <3>2
  <2>8. ASSUME NEW i \in 1 .. Len(frames)
        PROVE  frames[i] = Due + (Len(stream) + 1) + 0 + i - 1
    BY <2>3 DEF InOrder
  <2>. QED
    BY <1>1, <2>1, <2>3, <2>5, <2>6, <2>7, <2>8 DEF InOrder
<1>4. CASE LbCommitRefused \/ LbThrows
  <2>1. /\ UNCHANGED <<stream, frames, framesDecoded, drain, drainFrame, error>>
        /\ lb' \in {"withdraw", "fail"}
        /\ lb' = "withdraw" => streamOver /\ lb = "commit"
    BY <1>4 DEF LbCommitRefused, LbThrows, implVars, downVars, flagVars,
       decoderVars, channelVars, detectorVars, notLb, drainVars
  <2>2. lb' = "withdraw" => error
    BY <2>1 DEF EndInv, LbFinishes
  <2>3. Stopped' /\ ~Whole'
    BY <2>1, <2>2 DEF Whole, Lost, Stopped
  <2>4. InLb' = 0 /\ InDrain' = InDrain /\ Due' = Due
    BY <2>1 DEF InLb, InDrain, Due
  <2>. QED
    BY <2>1, <2>3, <2>4 DEF InOrder
<1>5. CASE LbFails
  <2>1. /\ UNCHANGED <<stream, frames, framesDecoded, lbFrame, drain,
                       drainFrame>>
        /\ lb \in {"fail", "failClose", "failFinish"}
        /\ lb' \in {"failClose", "failFinish", "exited"}
    BY <1>5 DEF LbFails, Fail, AfterFail, LbGoto, CloseChannel,
       FinishDetector, decoderVars, channelVars, detectorVars, notLb,
       drainVars, callerVars
  <2>2. InLb' = InLb /\ InDrain' = InDrain
    BY <2>1 DEF InLb, InDrain
  <2>. QED
    BY <1>1, <2>1, <2>2, OrderQuiet
<1>6. CASE \/ LbAwaitRoom \/ LbAwaitContext \/ PopSleeps \/ PopEnds
           \/ LbLetterbox \/ LbWithdraw \/ LbExits
  <2>1. /\ UNCHANGED <<stream, frames, framesDecoded, lbFrame, drain,
                       drainFrame>>
        /\ lb \in {"letterbox", "commit"} <=> lb' \in {"letterbox", "commit"}
    <3>. USE DEF implVars, downVars, decoderVars, channelVars, detectorVars,
           threadVars, drainVars, lbVars, callerVars, notLb, LbGoto
    <3>1. CASE LbAwaitRoom \/ LbAwaitContext
      BY <3>1 DEF LbAwaitRoom, LbAwaitContext
    <3>2. CASE PopSleeps \/ PopEnds
      BY <3>2 DEF PopSleeps, PopEnds
    <3>3. CASE LbLetterbox \/ LbWithdraw
      BY <3>3 DEF LbLetterbox, LbWithdraw
    <3>4. CASE LbExits
      BY <3>4 DEF LbExits, FinishDetector
    <3>. QED
      BY <1>6, <3>1, <3>2, <3>3, <3>4
  <2>2. InLb' = InLb /\ InDrain' = InDrain
    BY <2>1 DEF InLb, InDrain
  <2>. QED
    BY <1>1, <2>1, <2>2, OrderQuiet
<1>. QED
  BY <1>2, <1>3, <1>4, <1>5, <1>6 DEF LbThread

LEMMA ReaderOrder ==
  ASSUME TInv, GotInOrder, InOrder,
         \/ Worker /\ UNCHANGED got
         \/ (FeederStep \/ ReaderStep \/ UNCHANGED vars) /\ Record
  PROVE  GotInOrder' /\ (InOrder' \/ FailureThrown)
<1>. USE OrderNumbers
<1>1. [Next]_vars /\ (Whole' => Whole) /\ (Stopped => Stopped')
  <2>1. [Next]_vars
    BY DEF Next, Inside
  <2>. QED
    BY <2>1, WholeWas, StoppedStays
<1>2. UNCHANGED got => GotInOrder'
  BY DEF GotInOrder
<1>3. ASSUME NEW k \in DOMAIN stream, Infer(k), UNCHANGED got PROVE InOrder'
  <2>1. PICK v \in {"ok", "failed"} :
          stream' = [stream EXCEPT ![k] = [stream[k] EXCEPT !.state = v]]
    BY <1>3 DEF Infer
  <2>2. UNCHANGED <<frames, framesDecoded, lb, lbFrame, drain, drainFrame>>
    BY <1>3 DEF Infer, decoderVars, channelVars, threadVars, drainVars, lbVars,
       callerVars
  <2>3. k \in 1 .. Len(stream) /\ \A i \in 1 .. Len(stream) : stream[i] \in Pair
    BY LenProperties, ElementOfSeq
  <2>4. /\ [stream[k] EXCEPT !.state = v] \in Pair
        /\ [stream[k] EXCEPT !.state = v].frame = stream[k].frame
    BY <2>3 DEF Pair
  <2>5. /\ Len(stream') = Len(stream)
        /\ \A i \in 1 .. Len(stream) : stream'[i].frame = stream[i].frame
    BY <2>1, <2>3, <2>4, ExceptSeq
  <2>6. InLb' = InLb /\ InDrain' = InDrain
    BY <2>2 DEF InLb, InDrain
  <2>7. Pending' = Pending /\ Due' = Due
    BY <1>3, <2>2, <2>5, <2>6 DEF Pending, Due
  <2>. QED
    BY <1>1, <2>2, <2>5, <2>6, <2>7 DEF InOrder
<1>4. ASSUME NextTakes \/ TryNext, Record
      PROVE  GotInOrder' /\ (InOrder' \/ FailureThrown)
  <2>1. TakeResult /\ reader \in {"next", "idle"}
    BY <1>4 DEF NextTakes, TryNext
  <2>. SUFFICES ASSUME Head(stream).state = "ok" PROVE GotInOrder' /\ InOrder'
    <3>1. CASE Head(stream).state = "failed"
      <4>1. reader' = "idle" /\ FailureThrown
        BY <2>1, <3>1 DEF TakeResult, FailureThrown
      <4>. QED
        BY <1>4, <1>2, <4>1 DEF Record
    <3>. QED
      BY <2>1, <3>1 DEF TakeResult
  <2>2. /\ stream # <<>> /\ stream' = Tail(stream)
        /\ reader # "popped" /\ reader' = "popped"
        /\ handed' = Head(stream).frame
        /\ UNCHANGED <<frames, framesDecoded, lb, lbFrame, drain, drainFrame>>
    BY <2>1 DEF TakeResult, decoderVars, channelVars, notReader, drainVars,
       lbVars
  <2>3. InLb' = InLb /\ InDrain' = InDrain
    BY <2>2 DEF InLb, InDrain
  <2>4. /\ Len(stream) >= 1 /\ Len(stream') = Len(stream) - 1
        /\ \A i \in 1 .. Len(stream') : stream'[i] = stream[i + 1]
        /\ Head(stream) = stream[1]
    BY <2>2, EmptySeq, HeadTailProperties
  <2>5. handed' = Due /\ handed' \in Frame
    <3>1. 1 \in 1 .. Len(stream) /\ stream[1] \in Pair
      BY <2>4, ElementOfSeq
    <3>2. stream[1].frame \in Frame
      BY <3>1 DEF Pair
    <3>3. stream[1].frame = Due + 1 - 1
      BY <3>1 DEF InOrder
    <3>. QED
      BY <2>2, <2>4, <3>2, <3>3
  <2>6. got' = Append(got, handed') /\ got \in Seq(Frame)
    BY <1>4, <2>2 DEF Record, GotInOrder
  <2>7. /\ got' \in Seq(Frame) /\ Len(got') = Len(got) + 1
         /\ got'[Len(got) + 1] = handed'
         /\ \A i \in 1 .. Len(got) : got'[i] = got[i]
    BY <2>5, <2>6, AppendProperties
  <2>8. GotInOrder'
    <3>1. ASSUME NEW i \in 1 .. (Len(got) + 1) PROVE got'[i] = i - 1
      <4>1. CASE i = Len(got) + 1
        BY <2>5, <2>7, <4>1 DEF Due
      <4>2. CASE i \in 1 .. Len(got)
        BY <2>7, <4>2 DEF GotInOrder
      <4>. QED
        BY <3>1, <4>1, <4>2 DEF Due
    <3>. QED
      BY <2>7, <3>1 DEF GotInOrder
  <2>9. Pending' = Pending - 1 /\ Due' = Due + 1
    <3>1. Pending' = Len(stream') + InLb + Len(frames) + InDrain
      BY <2>2, <2>3 DEF Pending
    <3>2. Pending' = Pending - 1
      BY <2>4, <3>1 DEF Pending
    <3>. QED
      BY <2>7, <3>2 DEF Due
  <2>10. ASSUME NEW k \in 1 .. Len(stream')
        PROVE  stream'[k].frame = (Due + 1) + k - 1
    <3>1. k + 1 \in 1 .. Len(stream) /\ stream'[k] = stream[k + 1]
      BY <2>4
    <3>2. stream[k + 1].frame = Due + (k + 1) - 1
      BY <3>1 DEF InOrder
    <3>. QED
      BY <3>1, <3>2
  <2>11. ASSUME ~Stopped, NEW i \in 1 .. Len(frames)
        PROVE  frames[i] = (Due + 1) + (Len(stream) - 1) + InLb + i - 1
    <3>1. frames[i] = Due + Len(stream) + InLb + i - 1
      BY <2>11 DEF InOrder
    <3>. QED
      BY <3>1
  <2>12. InLb = 1 => lbFrame = (Due + 1) + (Len(stream) - 1)
    <3>1. InLb = 1 => lbFrame = Due + Len(stream)
      BY DEF InOrder
    <3>. QED
      BY <3>1
  <2>13. /\ Whole' => framesDecoded = (Due + 1) + (Pending - 1)
         /\ InDrain = 1 => drainFrame = framesDecoded - 1
    BY <1>1 DEF InOrder
  <2>. QED
    BY <1>1, <2>2, <2>3, <2>4, <2>8, <2>9, <2>10, <2>11, <2>12, <2>13
       DEF InOrder
<1>5. ASSUME \/ FeederStep \/ Rethrow \/ CallNext \/ PopMeta \/ NextEnds
             \/ ReportEnd \/ UNCHANGED vars,
             Record
      PROVE  GotInOrder' /\ InOrder'
  <2>1. /\ UNCHANGED <<stream, frames, framesDecoded, lb, lbFrame, drain,
                       drainFrame>>
        /\ reader' = "popped" => reader = "popped"
    <3>. USE DEF implVars, downVars, decoderVars, channelVars, detectorVars,
           threadVars, drainVars, lbVars, callerVars, notFeeder, notReader
    <3>1. CASE FeederStep
      BY <3>1 DEF FeederStep, Submit, Feed, Finish
    <3>2. CASE Rethrow \/ CallNext \/ PopMeta \/ NextEnds \/ ReportEnd
      BY <3>2 DEF Rethrow, CallNext, PopMeta, NextEnds, ReportEnd
    <3>3. CASE UNCHANGED vars
      BY <3>3 DEF vars
    <3>. QED
      BY <1>5, <3>1, <3>2, <3>3
  <2>2. InLb' = InLb /\ InDrain' = InDrain
    BY <2>1 DEF InLb, InDrain
  <2>3. UNCHANGED got
    BY <1>5, <2>1 DEF Record
  <2>. QED
    BY <1>1, <1>2, <2>1, <2>2, <2>3, OrderQuiet
<1>. QED
  BY <1>3, <1>4, <1>5, <1>2 DEF Worker, ReaderStep


-----------------------------------------------------------------------------
(* The loop of the header, which stops at the first exception.             *)

\* What the loop was given is in order for good; until something is thrown
\* at it, so is what is on its way, and the metadata is in step.
LoopInv ==
  /\ owner = "alive"
  /\ outcome \in {"end", "threw"} => loop = "done"
  /\ GotInOrder
  /\ outcome # "threw" => MetaInStep /\ InOrder

\* The pipeline's own threads leave what the caller was told.
LEMMA InsideIsQuiet ==
  ASSUME Inside \/ UNCHANGED vars
  PROVE  UNCHANGED <<outcome, owner>>
<1>. USE DEF threadVars, drainVars, lbVars, callerVars, notDrain, notLb
<1>1. CASE Decode \/ Worker \/ UNCHANGED vars
  BY <1>1 DEF Decode, Worker, Infer, vars
<1>2. CASE DrainThread
  BY <1>2 DEF DrainThread, DrainLook, DrainChoose, FeedMarker, DrainReceive,
     ReceiveTimesOut, FlushIsEmpty, Push, PushSleeps, PushRefused,
     DrainThrows, DrainFails, DrainExits, DrainGoto
<1>3. CASE LbThread
  BY <1>3 DEF LbThread, LbAwaitRoom, LbAwaitContext, Pop, PopSleeps, PopEnds,
     LbLetterbox, LbThrows, LbCommit, LbCommitRefused, LbWithdraw, LbFails,
     LbExits
<1>. QED
  BY <1>1, <1>2, <1>3 DEF Inside

\* A step of the loop is a step of the pipeline, and none of the
\* destructor's.
LEMMA LoopTakesSteps ==
  ASSUME [LoopNextStep]_loopVars
  PROVE  \/ Inside /\ UNCHANGED got
         \/ (FeederStep \/ ReaderStep \/ UNCHANGED vars) /\ Record
<1>1. ASSUME CallerStep PROVE FeederStep \/ ReaderStep \/ UNCHANGED vars
  BY <1>1 DEF CallerStep, Read, LoopSubmit, LoopFeed, LoopTryNext, LoopNext,
     FeederStep, ReaderStep
<1>2. ASSUME UNCHANGED loopVars PROVE UNCHANGED vars /\ Record
  <2>1. UNCHANGED <<vars, got>>
    BY <1>2 DEF loopVars
  <2>2. UNCHANGED reader
    BY <2>1 DEF vars, threadVars, callerVars
  <2>. QED
    BY <2>1, <2>2 DEF Record
<1>. QED
  BY <1>1, <1>2 DEF LoopNextStep, InsideStep, LoopOver

LEMMA CallsAreQuiet ==
  ASSUME FeederStep \/ ReaderStep
  PROVE  UNCHANGED owner
  BY DEF FeederStep, Submit, Feed, Finish, ReaderStep, Rethrow, CallNext,
     NextTakes, TryNext, TakeResult, PopMeta, NextEnds, ReportEnd, threadVars,
     notFeeder, notReader

\* An exception or the end of the stream ends the loop, for good.
LEMMA LoopStops ==
  ASSUME [LoopNextStep]_loopVars, LoopInv
  PROVE  /\ outcome' \in {"end", "threw"} => loop' = "done"
         /\ outcome \in {"end", "threw"} => UNCHANGED <<outcome, got>>
<1>1. ASSUME loop = "done" PROVE UNCHANGED <<outcome, loop, got>>
  <2>1. ~CallerStep
    BY <1>1 DEF CallerStep, Read, LoopSubmit, LoopFeed, LoopTryNext, LoopNext
  <2>. QED
    BY <2>1, InsideIsQuiet DEF LoopNextStep, InsideStep, LoopOver, loopVars,
       vars, threadVars, callerVars
<1>2. ASSUME CallerStep PROVE outcome' \in {"end", "threw"} => loop' = "done"
  <2>. SUFFICES ASSUME outcome' \in {"end", "threw"}, loop # "done"
                PROVE  loop' = "done"
    BY <1>1
  <2>1. outcome \notin {"end", "threw"}
    BY DEF LoopInv
  <2>2. UNCHANGED outcome => FALSE
    BY <2>1
  <2>. USE DEF vars, threadVars, callerVars, notFeeder, notReader
  <2>3. ~Read
    BY <2>2 DEF Read, Finish
  <2>4. ~LoopSubmit
    BY <2>2 DEF LoopSubmit, Submit
  <2>5. ~LoopFeed
    BY <2>2 DEF LoopFeed, Feed
  <2>6. CASE LoopTryNext
    <3>1. ~PopMeta
      BY DEF PopMeta
    <3>2. TryNext => outcome' = "threw"
      BY DEF TryNext, TakeResult
    <3>. QED
      BY <2>2, <2>6, <3>1, <3>2 DEF LoopTryNext, Goto
  <2>7. CASE LoopNext
    <3>1. ~CallNext /\ ~PopMeta /\ ~NextEnds
      BY <2>2 DEF CallNext, PopMeta, NextEnds
    <3>2. NextTakes \/ ReportEnd \/ Rethrow => reader' = "idle"
      BY DEF NextTakes, TakeResult, ReportEnd, Rethrow
    <3>. QED
      BY <2>7, <3>1, <3>2 DEF LoopNext, Goto
  <2>. QED
    BY <1>2, <2>3, <2>4, <2>5, <2>6, <2>7 DEF CallerStep
<1>3. ASSUME ~CallerStep PROVE UNCHANGED <<outcome, loop>>
  BY <1>3, InsideIsQuiet DEF LoopNextStep, InsideStep, LoopOver, loopVars,
     vars, threadVars, callerVars
<1>. QED
  BY <1>1, <1>2, <1>3 DEF LoopInv

LEMMA LoopStep ==
  ASSUME TInv, EndInv, LoopInv, [LoopNextStep]_loopVars
  PROVE  TInv' /\ EndInv' /\ LoopInv'
<1>1. [Next]_vars
  BY LoopTakesSteps DEF Next
<1>2. TInv' /\ EndInv'
  BY <1>1, TypesStep, EndStep
<1>3. owner' = "alive"
  BY LoopTakesSteps, InsideIsQuiet, CallsAreQuiet DEF LoopInv
<1>4. ASSUME outcome # "threw"
      PROVE  GotInOrder' /\ (InOrder' \/ FailureThrown)
  <2>1. GotInOrder /\ InOrder /\ owner = "alive"
    BY <1>4 DEF LoopInv
  <2>2. UNCHANGED got => GotInOrder'
    BY <2>1 DEF GotInOrder
  <2>. QED
    BY <2>1, <2>2, LoopTakesSteps, DrainOrder, LbOrder, ReaderOrder DEF Inside
<1>5. GotInOrder'
  <2>1. CASE outcome = "threw"
    <3>1. UNCHANGED got
      BY <2>1, LoopStops
    <3>. QED
      BY <3>1 DEF LoopInv, GotInOrder
  <2>. QED
    BY <1>4, <2>1
<1>6. ASSUME outcome' # "threw" PROVE MetaInStep' /\ InOrder'
  <2>1. outcome # "threw"
    BY <1>6, LoopStops
  <2>2. ~FailureThrown
    BY <1>6 DEF FailureThrown, TakeResult
  <2>3. MetaInStep'
    BY <1>1, <2>1, <2>2, MetaStep DEF LoopInv
  <2>. QED
    BY <1>4, <2>1, <2>2, <2>3
<1>. QED
  BY <1>2, <1>3, <1>5, <1>6, LoopStops DEF LoopInv

LEMMA LoopStarts == LoopInit => TInv /\ EndInv /\ LoopInv
<1>. SUFFICES ASSUME LoopInit PROVE TInv /\ EndInv /\ LoopInv
  OBVIOUS
<1>1. Init /\ got = <<>>
  BY DEF LoopInit
<1>2. GotInOrder
  BY <1>1, EmptySeq DEF GotInOrder
<1>3. InOrder
  <2>1. Len(stream) = 0 /\ Len(frames) = 0 /\ InLb = 0 /\ InDrain = 0 /\ Due = 0
    BY <1>1, EmptySeq DEF Init, InLb, InDrain, Due
  <2>2. framesDecoded = Due + Pending
    BY <1>1, <2>1 DEF Init, Pending
  <2>. QED
    BY <2>1, <2>2 DEF InOrder
<1>. QED
  BY <1>1, <1>2, <1>3, InitTypes, InitEnd, InitMeta DEF Init, LoopInv

\* The loop is given the decoder's pictures in order, none skipped, whatever
\* its threads and workers throw; and all of them, if it ends without an
\* exception.
THEOREM TheLoopDeliversAll == LoopSpec => []LoopDeliversAll
<1>1. TInv /\ EndInv /\ LoopInv => LoopDeliversAll
  <2>. SUFFICES ASSUME TInv, EndInv, LoopInv
                PROVE  LoopDeliversAll
    OBVIOUS
  <2>1. \A i \in DOMAIN got : got[i] = i - 1
    BY LenProperties DEF LoopInv, GotInOrder
  <2>2. ASSUME outcome = "end"
        PROVE  Len(got) = framesDecoded /\ (eos_seen => NothingLeft)
    <3>1. eos_seen => NothingLeft
      BY <2>2, NothingIsLeft DEF LoopInv
    <3>2. Ended
      BY <2>2 DEF EndInv, EndReached
    <3>3. InOrder /\ Whole
      BY <2>2, <3>2 DEF LoopInv, Whole, Lost, Ended
    <3>4. Pending = 0
      <4>1. Len(stream) = 0 /\ Len(frames) = 0 /\ InLb = 0 /\ InDrain = 0
        BY <3>2, EmptySeq DEF Ended, InLb, InDrain
      <4>. QED
        BY <4>1 DEF Pending
    <3>5. framesDecoded = Len(got) + 0 /\ Len(got) \in Nat
      BY <3>3, <3>4, OrderNumbers DEF LoopInv, InOrder, Due
    <3>. QED
      BY <3>1, <3>5
  <2>. QED
    BY <2>1, <2>2 DEF LoopDeliversAll
<1>. QED
  BY <1>1, LoopStarts, LoopStep, PTL DEF LoopSpec

=============================================================================

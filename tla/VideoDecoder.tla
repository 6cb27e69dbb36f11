---------------------------- MODULE VideoDecoder ----------------------------
(***************************************************************************)
(* rcdl::VideoDecoder (src/src/media/video_decoder.cc) with the VideoFrames *)
(* it hands out (src/src/media/video_frame.cc): one thread feeds, one      *)
(* drains, and any thread may call reset() for a seek.  MPP, the codec     *)
(* runtime, is external: an input queue, a decode thread that parks at an  *)
(* info change, and an output queue.                                       *)
(*                                                                         *)
(* FramePools are numbered in the order they are built, and a picture      *)
(* names its slot <<pool number, index>>; 0 is MPP's own default pool.     *)
(***************************************************************************)
EXTENDS MppFormats

CONSTANTS Configs,    \* VideoDecConfigs: [external_buffers, pool_heap, buffer_count, extra_buffers]
          Headers,    \* sequence headers: [w, h, hs, vs, fmt, buf_size, used]
          Holders,    \* the VideoFrame variables of the callers
          NoFrame, NoPool, NoGeometry,
          QueueMax,   \* MPP's input queue
          Budget      \* bound: chunks fed, reset()s, and errors of the runtime, in all

\* What the callers, the pools and the runtime know a picture by.
Slots == Nat \X Nat
VideoFrames == [slot : Slots, below4g : BOOLEAN, cpu_window : BOOLEAN]
MppFrames == [kind : {"info"}, header : Headers] \cup [kind : {"eos"}]
               \cup [kind : {"picture", "corrupt", "eos"}, slot : Slots]
FramePools == [number : Nat, external : BOOLEAN, heap : Heaps,
               slot_bytes : Int, count : Int]

ASSUME DecoderAssumption ==
  /\ Configs \subseteq [external_buffers : BOOLEAN, pool_heap : Heaps,
                        buffer_count : Int, extra_buffers : Int]
  /\ Headers \subseteq [w : Int, h : Int, hs : Int, vs : Int, fmt : STRING,
                        buf_size : Int, used : Int]
  /\ IsFiniteSet(Holders)
  /\ NoFrame \notin VideoFrames \cup MppFrames
  /\ NoPool \notin FramePools /\ NoGeometry \notin Headers

kDefaultSlots == 8
kMinSlots == 4
kMaxSlots == 64

VARIABLES
  cfg, pool_, retired_,            \* the Impl's configuration and its pools
  geometry, external, pool_heap,   \* what publishGeometry() publishes
  eos_fed, eos_seen, frames,
  held,      \* Holders -> the VideoFrame in that variable
  windows,   \* slots the kernel has an open CPU read window on
  built,     \* FramePools built so far
  inq, outq, parked, parser,       \* MPP: queues, parked at an info change, the
                                   \* header it decodes by (NoGeometry: none)
  feeder,    \* "idle", or where feedEndOfStream() is: "put", "unset"
  drainer,   \* "idle", or where receive() is: "poll", "have"
  target,    \* receive()'s out parameter (NoFrame: no call)
  hand,      \* the MppFrame receive() has taken and not yet looked at
  resetter,  \* "idle", or between reset()'s two halves: "clear"
  fed, resets, faults,             \* for the bounds
  latest, switches,   \* the last header that raised an info change, and how
                      \* often it was another than the one before
  overlap,   \* a reset() ran while feedEndOfStream() or receive() was under way
  lost       \* an exception took the end-of-stream marker with it

poolVars == <<pool_, retired_, built, geometry, external, pool_heap>>
eosVars == <<eos_fed, eos_seen>>
parserVars == <<parser, latest, switches>>
mppVars == <<inq, outq, parked, parserVars>>
frameVars == <<frames, held, windows>>
drainVars == <<drainer, target, hand>>
boundVars == <<fed, resets, faults>>
vars == <<cfg, poolVars, eosVars, frameVars, mppVars, feeder, drainVars,
          resetter, boundVars, overlap, lost>>

Init ==
  /\ cfg \in Configs
  /\ pool_ = NoPool /\ retired_ = <<>> /\ built = 0
  /\ geometry = NoGeometry /\ external = FALSE /\ pool_heap = "System"
  /\ eos_fed = FALSE /\ eos_seen = FALSE /\ frames = 0
  /\ held = [h \in Holders |-> NoFrame] /\ windows = {}
  /\ inq = <<>> /\ outq = <<>> /\ parked = FALSE /\ parser = NoGeometry
  /\ latest = NoGeometry /\ switches = 0
  /\ feeder = "idle" /\ drainer = "idle" /\ resetter = "idle"
  /\ target = NoFrame /\ hand = NoFrame
  /\ fed = 0 /\ resets = 0 /\ faults = 0
  /\ overlap = FALSE /\ lost = FALSE

(***************************************************************************)
(* The feed side.                                                          *)
(***************************************************************************)
WithinBudget == fed + resets + faults < Budget
CanQueue == Len(inq) < QueueMax

\* feed(): putPacket() returns true, or false when the queue stays full for
\* the whole timeout, or throws on any other answer of the runtime.
Feed ==
  /\ feeder = "idle" /\ WithinBudget /\ ~eos_fed
  /\ CanQueue
  /\ \E chunk \in [kind : {"header"}, header : Headers]
                  \cup [kind : {"picture", "corrupt"}] :
       inq' = Append(inq, chunk)
  /\ fed' = fed + 1
  /\ UNCHANGED <<cfg, poolVars, eosVars, frameVars, outq, parked, parserVars, feeder,
                 drainVars, resetter, resets, faults, overlap, lost>>

\* feedEos(), the test and set under the lock.
FeedEos ==
  /\ feeder = "idle" /\ ~eos_fed
  /\ eos_fed' = TRUE /\ feeder' = "put"
  /\ overlap' = (overlap \/ resetter # "idle")
  /\ UNCHANGED <<cfg, poolVars, eos_seen, frameVars, mppVars, drainVars,
                 resetter, boundVars, lost>>

\* Its putPacket(): queued; still full after kEosFeedWaitMs; an exception,
\* which leaves the flag set.
PutMarker ==
  /\ feeder = "put"
  /\ \/ /\ CanQueue
        /\ inq' = Append(inq, [kind |-> "eos"])
        /\ feeder' = "idle" /\ UNCHANGED <<faults, lost>>
     \/ /\ ~CanQueue
        /\ feeder' = "unset" /\ UNCHANGED <<inq, faults, lost>>
     \/ /\ WithinBudget
        /\ faults' = faults + 1 /\ lost' = TRUE
        /\ feeder' = "idle" /\ UNCHANGED inq
  /\ UNCHANGED <<cfg, poolVars, eosVars, frameVars, outq, parked, parserVars,
                 drainVars, resetter, fed, resets, overlap>>

UnsetEosFed ==
  /\ feeder = "unset"
  /\ eos_fed' = FALSE /\ feeder' = "idle"
  /\ UNCHANGED <<cfg, poolVars, eos_seen, frameVars, mppVars, drainVars,
                 resetter, boundVars, overlap, lost>>

(***************************************************************************)
(* MPP's decode thread (external).                                         *)
(***************************************************************************)
SlotsOf(seq) == {seq[i].slot : i \in {j \in DOMAIN seq : "slot" \in DOMAIN seq[j]}}
HeldSlots == {held[h].slot : h \in {k \in Holders : held[k] # NoFrame}}
InHand == IF hand # NoFrame /\ "slot" \in DOMAIN hand THEN {hand.slot} ELSE {}
BusySlots == SlotsOf(outq) \cup HeldSlots \cup InHand

PoolNumber == IF pool_ = NoPool THEN 0 ELSE pool_.number
\* An internal group grows as the stream needs it.
PoolSize == IF pool_ # NoPool /\ pool_.external THEN pool_.count
            ELSE Cardinality(BusySlots) + 1
FreeSlots == {s \in {PoolNumber} \X (1..PoolSize) : s \notin BusySlots}
NextSlot == CHOOSE s \in FreeSlots : \A r \in FreeSlots : s[2] <= r[2]

Emit(frame) == outq' = Append(outq, frame)

MppDecode ==
  /\ inq # <<>> /\ ~parked
  /\ inq' = Tail(inq)
  /\ LET chunk == Head(inq)
     IN \/ /\ chunk.kind = "header" /\ chunk.header # parser
           /\ parser' = chunk.header /\ latest' = chunk.header
           /\ switches' = IF latest \in {NoGeometry, chunk.header} THEN switches
                          ELSE switches + 1
           /\ parked' = TRUE
           /\ Emit([kind |-> "info", header |-> chunk.header])
        \/ /\ chunk.kind = "header" /\ chunk.header = parser
           /\ UNCHANGED <<outq, parked, parserVars>>
        \/ /\ chunk.kind \in {"picture", "corrupt"} /\ parser # NoGeometry
           /\ FreeSlots # {}
           /\ Emit([kind |-> chunk.kind, slot |-> NextSlot])
           /\ UNCHANGED <<parked, parserVars>>
        \/ /\ chunk.kind \in {"picture", "corrupt"} /\ parser = NoGeometry
           /\ UNCHANGED <<outq, parked, parserVars>>
        \/ /\ chunk.kind = "eos"
           /\ Emit([kind |-> "eos"])
           /\ UNCHANGED <<parked, parserVars>>
        \/ /\ chunk.kind = "eos" /\ parser # NoGeometry /\ FreeSlots # {}
           /\ Emit([kind |-> "eos", slot |-> NextSlot])   \* with the last picture
           /\ UNCHANGED <<parked, parserVars>>
  /\ UNCHANGED <<cfg, poolVars, eosVars, frameVars, feeder, drainVars, resetter,
                 boundVars, overlap, lost>>

(***************************************************************************)
(* receive(): recv().                                                      *)
(***************************************************************************)
Recv(h) ==
  /\ drainer = "idle" /\ ~eos_seen
  /\ drainer' = "poll" /\ target' = h
  /\ overlap' = (overlap \/ resetter # "idle")
  /\ UNCHANGED <<cfg, poolVars, eosVars, frameVars, mppVars, feeder, hand,
                 resetter, boundVars, lost>>

RecvReturns == drainer' = "idle" /\ target' = NoFrame

\* The deadline may have passed by now.
RecvGoesOn == RecvReturns \/ (drainer' = "poll" /\ UNCHANGED target)

\* decode_get_frame() has nothing and the deadline has passed.
RecvTimeout ==
  /\ drainer = "poll" /\ outq = <<>>
  /\ RecvReturns
  /\ UNCHANGED <<cfg, poolVars, eosVars, frameVars, mppVars, feeder, hand,
                 resetter, boundVars, overlap, lost>>

\* It has a frame; or a frame and an error, which throws.
RecvTake ==
  /\ drainer = "poll" /\ outq # <<>>
  /\ outq' = Tail(outq)
  /\ \/ /\ hand' = Head(outq) /\ drainer' = "have"
        /\ UNCHANGED <<target, faults, lost>>
     \/ /\ WithinBudget /\ faults' = faults + 1
        /\ lost' = (lost \/ Head(outq).kind = "eos")
        /\ RecvReturns /\ UNCHANGED hand
  /\ UNCHANGED <<cfg, poolVars, eosVars, frameVars, inq, parked, parserVars, feeder,
                 resetter, fed, resets, overlap>>

\* How many slots, of how many bytes, a header asks for.
SlotBytes(hdr) ==
  LET computed == frameBufferBytes(hdr.fmt, hdr.hs, hdr.vs)
  IN  IF computed > hdr.buf_size THEN computed ELSE hdr.buf_size

SlotCount(hdr) ==
  LET used == IF hdr.used <= 0 THEN kDefaultSlots ELSE hdr.used
      want == IF cfg.buffer_count > 0 THEN cfg.buffer_count
              ELSE used + (IF cfg.extra_buffers > 0 THEN cfg.extra_buffers ELSE 0)
  IN  IF want < kMinSlots THEN kMinSlots
      ELSE IF want > kMaxSlots THEN kMaxSlots ELSE want

GeometryOf(hdr) == [w |-> hdr.w, h |-> hdr.h, hs |-> hdr.hs, vs |-> hdr.vs]

\* A mutant: an internal pool never fits.
OnlyExternalFits(hdr) ==
  /\ geometry = GeometryOf(hdr) /\ pool_ # NoPool
  /\ pool_.slot_bytes >= SlotBytes(hdr) /\ pool_.count >= SlotCount(hdr)

PoolFits(hdr) ==
  /\ geometry = GeometryOf(hdr) /\ pool_ # NoPool
  /\ pool_.external => pool_.slot_bytes >= SlotBytes(hdr) /\ pool_.count >= SlotCount(hdr)

\* The pools a negotiation may end with: an external one from the requested
\* heap, or from System when that heap fails; an internal one; none at all.
NewPools(hdr) ==
  LET made(ext, heap) == [number |-> built + 1, external |-> ext, heap |-> heap,
                          slot_bytes |-> IF ext THEN SlotBytes(hdr) ELSE 0,
                          count |-> IF ext THEN SlotCount(hdr) ELSE 0]
  IN  {made(TRUE, heap) : heap \in IF cfg.external_buffers
                                   THEN {cfg.pool_heap, "System"} ELSE {}}
      \cup {made(FALSE, "System"), NoPool}

publishGeometry(hdr, ext) ==
  /\ geometry' = GeometryOf(hdr)
  /\ external' = ext
  /\ pool_heap' = IF ext /\ pool_' # NoPool THEN pool_'.heap ELSE "System"

\* The control that unparks the decode thread, or its refusal, which throws.
InfoChangeReady(hdr, ext) ==
  \/ /\ parked' = FALSE
     /\ publishGeometry(hdr, ext)
     /\ RecvGoesOn
     /\ UNCHANGED faults
  \/ /\ WithinBudget /\ faults' = faults + 1
     /\ RecvReturns
     /\ UNCHANGED <<parked, geometry, external, pool_heap>>

\* A mutant: a pool that fits needs no answer.
ReusePoolSilently(hdr) ==
  /\ UNCHANGED <<pool_, retired_, built, parked, geometry, external, pool_heap, faults>>
  /\ RecvGoesOn

ReusePool(hdr) ==
  /\ UNCHANGED <<pool_, retired_, built>>
  /\ InfoChangeReady(hdr, TRUE)

\* A mutant: the old pool is released at once.
ReplacePoolReleasing(hdr) ==
  /\ retired_' = retired_
  /\ pool_' \in NewPools(hdr)
  /\ built' = built + 1
  /\ InfoChangeReady(hdr, pool_' # NoPool /\ pool_'.external)

\* The callers may hold frames of the old pool: it is retired, not released.
ReplacePool(hdr) ==
  /\ retired_' = IF pool_ = NoPool THEN retired_ ELSE Append(retired_, pool_)
  /\ pool_' \in NewPools(hdr)
  /\ built' = built + 1
  /\ InfoChangeReady(hdr, pool_' # NoPool /\ pool_'.external)

handleInfoChange(hdr) ==
  IF SlotBytes(hdr) = 0
  THEN /\ faults' = faults + 1 /\ RecvReturns   \* throws
       /\ UNCHANGED <<poolVars, parked>>
  ELSE IF PoolFits(hdr) THEN ReusePool(hdr) ELSE ReplacePool(hdr)

RecvInfoChange ==
  /\ drainer = "have" /\ hand.kind = "info"
  /\ handleInfoChange(hand.header)
  /\ hand' = NoFrame
  /\ UNCHANGED <<cfg, eosVars, frameVars, inq, outq, parserVars, feeder,
                 resetter, fed, resets, overlap, lost>>

\* The frame the caller gets: every slot of an external pool is of its heap.
Below4G == pool_ # NoPool /\ pool_.external /\ heapBelow4G(pool_.heap)

\* VideoFrame::reset(): the window closes before the slot goes back.
WindowsWithout(h) ==
  windows \ (IF held[h] # NoFrame /\ held[h].cpu_window THEN {held[h].slot} ELSE {})

\* out = VideoFrame::adopt(...): out's old frame is released.
Deliver(h, slot) ==
  /\ held' = [held EXCEPT ![h] = [slot |-> slot, below4g |-> Below4G,
                                  cpu_window |-> FALSE]]
  /\ windows' = WindowsWithout(h)
  /\ frames' = frames + 1

\* A picture, a frame to throw away, or the end of the stream, alone or on the
\* last picture.
RecvFrame ==
  /\ drainer = "have" /\ hand.kind # "info"
  /\ eos_seen' = (eos_seen \/ hand.kind = "eos")
  /\ IF hand.kind # "corrupt" /\ "slot" \in DOMAIN hand
     THEN Deliver(target, hand.slot) /\ RecvReturns
     ELSE /\ IF hand.kind = "eos" THEN RecvReturns ELSE RecvGoesOn
          /\ UNCHANGED frameVars
  /\ hand' = NoFrame
  /\ UNCHANGED <<cfg, poolVars, eos_fed, mppVars, feeder, resetter,
                 boundVars, overlap, lost>>

(***************************************************************************)
(* reset(): the runtime drops what it has queued, without the lock; then   *)
(* the flags are cleared under it.                                         *)
(***************************************************************************)
ResetMpp ==
  /\ resetter = "idle" /\ WithinBudget
  /\ resets' = resets + 1 /\ resetter' = "clear"
  /\ inq' = <<>> /\ outq' = <<>> /\ parked' = FALSE /\ parser' = NoGeometry
  /\ UNCHANGED <<latest, switches>>
  /\ overlap' = (overlap \/ feeder # "idle" \/ drainer # "idle")
  /\ UNCHANGED <<cfg, poolVars, eosVars, frameVars, feeder, drainVars, fed,
                 faults, lost>>

\* A mutant: the seen flag survives.
ResetFedOnly ==
  /\ resetter = "clear"
  /\ eos_fed' = FALSE /\ resetter' = "idle" /\ lost' = FALSE
  /\ UNCHANGED <<cfg, poolVars, eos_seen, frameVars, mppVars, feeder, drainVars,
                 boundVars, overlap>>

ResetFlags ==
  /\ resetter = "clear"
  /\ eos_fed' = FALSE /\ eos_seen' = FALSE /\ resetter' = "idle"
  /\ lost' = FALSE
  /\ UNCHANGED <<cfg, poolVars, frameVars, mppVars, feeder, drainVars, boundVars,
                 overlap>>

(***************************************************************************)
(* VideoFrame, in the variable the drain thread is not writing to.         *)
(***************************************************************************)
Mine(h) == target # h

OnlyFramesChange ==
  UNCHANGED <<cfg, poolVars, eosVars, frames, mppVars, feeder, drainVars,
              resetter, boundVars, overlap, lost>>

\* A mutant: the frame that was in `to` goes with its window open.
MoveFrameOver(to, from) ==
  /\ Mine(to) /\ Mine(from) /\ to # from /\ held[from] # NoFrame
  /\ held' = [held EXCEPT ![to] = held[from], ![from] = NoFrame]
  /\ OnlyFramesChange /\ UNCHANGED windows

MoveFrame(to, from) ==
  /\ Mine(to) /\ Mine(from) /\ to # from /\ held[from] # NoFrame
  /\ held' = [held EXCEPT ![to] = held[from], ![from] = NoFrame]
  /\ windows' = WindowsWithout(to)
  /\ OnlyFramesChange

ResetFrame(h) ==
  /\ Mine(h) /\ held[h] # NoFrame
  /\ held' = [held EXCEPT ![h] = NoFrame] /\ windows' = WindowsWithout(h)
  /\ OnlyFramesChange

\* beginCpuRead() opens a window if the frame has none open.
BeginCpuRead(h) ==
  /\ Mine(h) /\ held[h] # NoFrame /\ ~held[h].cpu_window
  /\ held' = [held EXCEPT ![h].cpu_window = TRUE]
  /\ windows' = windows \cup {held[h].slot}
  /\ OnlyFramesChange

\* endCpuRead(): the flag goes only when the ioctl has succeeded.
EndCpuRead(h) ==
  /\ Mine(h) /\ held[h] # NoFrame /\ held[h].cpu_window
  /\ held' = [held EXCEPT ![h].cpu_window = FALSE]
  /\ windows' = WindowsWithout(h)
  /\ OnlyFramesChange

Next ==
  \/ Feed \/ FeedEos \/ PutMarker \/ UnsetEosFed
  \/ MppDecode
  \/ \E h \in Holders : Recv(h)
  \/ RecvTimeout \/ RecvTake \/ RecvInfoChange \/ RecvFrame
  \/ ResetMpp \/ ResetFlags
  \/ \E to, from \in Holders : MoveFrame(to, from)
  \/ \E h \in Holders : ResetFrame(h) \/ BeginCpuRead(h) \/ EndCpuRead(h)

Spec == Init /\ [][Next]_vars

(***************************************************************************)
(* Properties.                                                             *)
(***************************************************************************)
Pools == {pool_} \cup Range(retired_)

\* "Frames already handed out stay valid": whatever info changes and seeks come
\* in between, the pool of a frame a caller holds is still there, and a frame
\* said to be below 4 GiB comes from a heap whose pages are.
FramesStayBacked ==
  ~overlap =>
    \A h \in Holders :
      held[h] # NoFrame /\ held[h].slot[1] # 0 =>
        \E p \in Pools \ {NoPool} :
          /\ p.number = held[h].slot[1]
          /\ held[h].below4g = (p.external /\ heapBelow4G(p.heap))

\* handleInfoChange() keeps every pool it replaces until the decoder goes, so
\* it must not replace one without need: no more pools are retired than the
\* stream has changed its header, however often the caller seeks.
RetiredBounded == Len(retired_) <= switches + faults

\* feedEndOfStream() queues the marker once and only once: with the calls
\* returned and none of them overlapped by a reset(), eos_fed says exactly
\* that one marker is in the decoder or has been drained.
Markers(seq) == Cardinality({i \in DOMAIN seq : seq[i].kind = "eos"})
MarkerAccounted ==
  feeder = "idle" /\ resetter = "idle" /\ ~overlap /\ ~lost =>
    Markers(inq) + Markers(outq) + (IF hand # NoFrame THEN Markers(<<hand>>) ELSE 0)
      + (IF eos_seen THEN 1 ELSE 0) = IF eos_fed THEN 1 ELSE 0

\* A parked decode thread has its info change on the way to receive(): no path
\* through recv() that does not throw drops one unanswered.
ParkedIsAnswered ==
  parked /\ faults = 0 =>
    \/ \E i \in DOMAIN outq : outq[i].kind = "info"
    \/ hand # NoFrame /\ hand.kind = "info"

\* The VPU never writes a slot under an open CPU read window: the windows the
\* kernel knows are those of the frames the callers hold.
WindowsAreHeld ==
  windows = {held[h].slot : h \in {k \in Holders : held[k] # NoFrame /\ held[k].cpu_window}}

\* usingExternalBuffers(): "True when frames come from an RCDL-allocated buffer
\* group ... false if it fell back to MPP's pool" (video_codec.h).
ExternalFlagTruthful == external => pool_ # NoPool /\ pool_.external

\* reset(): the flags are touched "when there is nothing left in flight to
\* disagree with them", so a stream that goes on is not taken for ended.
NoStaleEnd == eos_seen /\ resetter = "idle" /\ ~lost => eos_fed
=============================================================================

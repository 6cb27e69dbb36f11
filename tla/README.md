# rcdl in TLA+

rcdl runs vision models on Rockchip boards: compressed video is decoded on the
VPU, frames are letterboxed by the RGA, models run on the NPU, and the CPU
decodes the outputs and tracks the objects. Two things are hard to get right and
hard to test. One is how those units are kept busy at once: a pool of NPU
contexts leased to threads, a detection pipeline that overlaps frames and still
delivers them in order, a video pipeline of four stages joined by bounded
queues, codecs with a thread on either end. The other is arithmetic that goes
wrong silently: strides, layouts, rounding, thresholds, list keeping. This
project specifies both, model-checks them with TLC, and proves the safety of the
concurrent parts and of the tracker with TLAPS.

All paths below are relative to the repository, which is `src/` here: the
repository's own `src/pipeline/x.cc` is written `src/src/pipeline/x.cc`.

## Inventory

| component | code | state | operations | what makes it correct |
|---|---|---|---|---|
| EnginePool, Lease | `src/src/backend/engine_pool.cc` | free list, counter, waiters; each lease's index | acquire, tryAcquire, release, moves, destructor | each context free or in one lease; no lost wakeup |
| AsyncDetectionPipeline | `src/src/pipeline/async_detection_pipeline.cc` | slots (state, lease, seq, geometry), reorder buffer, next_in/next_out, finished/stopping, one thread per context | acquireSlot, letterboxIntoSlot, commitSlot, releaseSlot, submit, next, tryNext, finish, destructor | a FIFO to its callers; exclusive contexts and tensors; everything ends |
| AsyncVideoDetectionPipeline | `src/src/pipeline/async_video_detection_pipeline.cc` | frame channel, metadata FIFO, error and flags, two threads | submit, next, tryNext, finish, finished, destructor | metadata paired with results; failures reported; no stall, no lost frame |
| VideoDecoder | `src/src/media/video_decoder.cc` | MPP context, buffer pools (current and retired), end-of-stream flags | feed, receive, flush, reset, info change | every picture once; the end is seen exactly at the end |
| VideoEncoder, JpegEncoder, JpegDecoder | `src/src/media/` | MPP context, end-of-stream flags, pending header | feed, receive, flush; encode; decode | a packet belongs to its frame; the marker is not lost |
| VideoFrame, DmaBuf | `src/src/media/video_frame.cc`, `src/src/core/dma_buf.cc` | handle, mapping, CPU window | moves, reset, beginCpuRead/endCpuRead | released once, window closed first |
| Engine | `src/src/backend/engine.cc` | context, tensors, async_pending | infer, inferAsync, wait, setInput, dup | tensors not touched while the NPU runs |
| ByteTracker, TrackingPipeline | `src/src/tracks/byte_tracker.cc`, `src/src/pipeline/tracking_pipeline.cc` | tracked and lost lists, frame and id counters | update, reset | an id is one object; a live track is in one list |
| Preprocessing | `src/src/preproc/` | RGA capabilities, probed once | letterbox, resize, cvtColor, drawRects | geometry is invertible; the fallback runs what it says |
| Task decoders | `src/src/tasks/` | none | postprocess | NMS and CTC keep what they should |
| Tensor I/O | `src/src/backend/engine.cc`, `output_reader.cc`, `custom_ops.cc` | none | setInput, gather, dequantise, GridSample | padding and codes are undone exactly |
| Bindings, helpers | `src/src/python/rcdl_py.cc`, `src/src/media/mpp_common.cc`, ... | none | conversions | - |

How they interact. A caller's thread leases a context from the EnginePool, has
the RGA write a frame straight into that context's input tensor, and hands the
lease to the worker that owns the context; the worker infers, decodes, parks
the result and returns the lease (shared state under `mu`, four kinds of
condition variable, the pool's own `mu_` never held together with `mu` except
on the worker's way out). The video pipeline is a client of that one and of
VideoDecoder: its drain thread calls the decoder, a bounded channel passes
frames to its letterbox thread, which calls acquireSlot/commitSlot, and a FIFO
under a third mutex carries each frame's timestamp past the detector.

The hard behaviours: notifies outside locks; flags read before a wait for a
context and acted on after it; finish() and the destructor racing callers that
hold slots; results finished out of order; a bound tested long before it is
used; exceptions on threads that may not throw; time-outs that look like an end
of stream; one thread that feeds and drains a chain of bounded queues. The
hazards, each at its line and with the properties that would catch it, are the
list `hazards` in `PROJECT.json`.

## Modules

| module | models | notes |
|---|---|---|
| `EnginePool` | the pool's state and its critical sections | extended by the next two |
| `PoolClients` | the pool under arbitrary clients, each with one Lease | moves included |
| `OrderedStream` | what AsyncDetectionPipeline promises: a FIFO of frames | the abstract specification |
| `AsyncDetection` | the whole of AsyncDetectionPipeline over EnginePool | refines `OrderedStream` |
| `SubmitLoop` | the single-threaded loop of its header | a caller of `AsyncDetection` |
| `AsyncVideo` | the whole of AsyncVideoDetectionPipeline | decoder and detector at the level of their calls |
| `VideoLoop` | the drain-while-you-feed loop of its header | a caller of `AsyncVideo` |
| `MppFormats` | mpp_common.cc: formats, layouts, buffer sizes | tables |
| `VideoDecoder` | VideoDecoder with the VideoFrames it hands out | over MPP's decode thread |
| `VideoEncoder` | VideoEncoder | feeder and drainer over MPP's encoder |
| `JpegCodec` | JpegEncoder, JpegDecoder | calls as transactions, giving up included |
| `MCMedia` | the three codecs in one run | one of them acts in a behaviour |
| `ByteTracker` | the life cycle of tracklets | associations left open |
| `TrackingPipeline` | detect, embed, update | extends `ByteTracker` |
| `Association` | what the associations compute | functions |
| `Images`, `CpuPixels`, `Rga` | descriptors and geometry, the software and the hardware preprocessing | functions |
| `Tensors` | engine.cc's packing, output_reader.cc, custom_ops.cc | functions |
| `YoloHeads`, `YoloDecode` | recognition of a head's layout, decoding through it (detection, pose, obb) | functions |
| `InstanceMasks`, `Faces`, `Ocr`, `DenseMaps`, `Crops`, `Features` | the other heads, embeddings and ReID | functions |
| `MCVision` | tracking, and one call of each function above | one run |
| other `MC*` | TLC instances | model values, symmetry |
| `EnginePoolProofs`, `PoolClientsProofs`, `AsyncDetectionProofs`, `AsyncVideoProofs`, `MediaProofs` (encoder and JPEG), `VideoDecoderProofs`, `ByteTrackerProofs` (with `TrackingPipeline`), `GeometryProofs` (of `Images`, `Rga`, `Crops`) | theorems and their proofs | see below |

**Granularity.** One action is one critical section, or one notify that the code
issues after unlocking, or one stretch of code that runs without a lock (an RGA
operation, infer() with the decode). `pc[t]` and `worker[i]` say where each
thread is between two of them, `ctx`, `callerLb`, `job` and `taken` are its
locals. A condition variable is the set of threads asleep on it, and a sleeper
takes no step until it is removed from the set, by a notify or spuriously; so a
missing notify is a behaviour of the model and not an assumption.

**EnginePool.** `free` is the set of indices whose flag is set in `free_`;
`in_use` is kept apart from it as in the code, because acquire() sleeps on the
one and scans the other. `Take` picks the lowest index as the scan does. 
`GiveBack` and `NotifyOne` are two steps because the notify follows the unlock.

**AsyncDetection.** `slotLease[i]` says whether slot i holds context i's lease
(the lease in slot i is always the one of context i). `tensor[i]` is the image
in the context's input tensor, NoFrame when an RGA operation failed on it.
A result is the image its detections come from, the image its geometry comes
from, and whether the worker failed: that is all the ordering and pairing
properties can tell apart. commitSlot()'s notify_one is under `mu` and only
worker i ever sleeps on its slot's variable, so it is part of the commit's
step; so is cv_ready's notify when a result is parked. next()'s notify on
cv_room, finish()'s two and the destructor's come after the unlock and are
steps of their own. A worker that leaves on `stopping` calls lease.release()
with `mu` held: give_back is in its step and the notify after it. Callers are
assumed to obey the header: calls begin only while the object is alive, and
every acquired slot is committed or released once. Calls already begun when the
destructor starts run on, the worst case its comments argue about.

**AsyncVideo.** The decoder is its counters: chunks in the input queue, pictures
ready, whether the end marker was fed and seen. A chunk is one picture or none
(a picture the hardware reports as bad is dropped inside recv()); decoding
needs a buffer that is neither ready nor held downstream. The detector is the
queue `stream` of committed frames that `OrderedStream` allows it to be, with
reorder room and contexts as the guards of acquireSlot(). `frames` and
`closed_` are the channel, `meta` the FIFO of metadata, a frame being known by
its index. fail() is three steps, since it takes three locks one after the
other. submit() is modelled with one attempt to feed; the form that waits
indefinitely repeats that attempt between the same checks. The drain's flush()
may come back empty at any time: that is the time-out the code cannot tell from
the end of the stream except by the decoder's flag.

**VideoDecoder.** Feeder, drain thread, resetter and the holders of frames act
step by step: each critical section of `mu_` is an action and so is each call
into MPP, because reset() and feedEos() leave the lock in between. MPP is an
input queue, a decode thread that parks at an info change, and an output queue.
handleInfoChange() is one action with its disjuncts (the pool fits, it is
replaced, either call fails). `held` are the caller's VideoFrame variables; a
move, a reset and the read window are actions on them, `windows` the windows the
kernel has open. `lost` and `overlap` remember that a marker's put threw and
that a reset() overlapped another call; the code promises nothing after either.

**VideoEncoder.** The strides of the input layout are two variables, stored and
read one at a time as the code does, with the feeder's re-programming between. The
configuration is computed as configure() computes it, products wrapping at 2^32.
A packet starts with a header or not; that is all `PlayableFile` tells apart. Which
keyframes the runtime repeats the header on (none, the first, later ones) is
chosen at the start, and receive() may throw.

**JpegCodec.** A call is a feed and a drain under the object's mutex, so one at a
time; what a call that gave up leaves in MPP is the state between them.
`enc_asked` and `enc_answers` are histories of the images given and of the answers.

**ByteTracker.** The lists share their STracks, so a list is a set of ids and
`stracks` the objects. An association may match any tracklets it is given;
`Association` says which matchings there are. The overlaps that
removeDuplicateStracks() finds are any pairs. An update() that throws has
already counted its frame. **TrackingPipeline** adds the stages of process(), each of
which may throw, and the member vectors that outlive a call.

**The functions.** Stateless code is operators, one for each function of the
source, with its control kept and its numbers made exact: pixel values are bytes,
weights and scores are integers over a named unit (`Unit`, `Fine`, `Sub`), an
interpolation carries its denominator. std::exp is any positive monotonic
function or powers of two. Floating-point rounding is therefore not modelled.
A tensor's buffer is its bytes, each
known as byte b of element k, so that a count of elements taken for one of bytes shows.
Each has a reference definition next to it that says what is promised without
saying how: a tensor's bytes where the device looks for them, a mask computed alone on a clean canvas, the labels as a plain
argmax, a matching no bijection undercuts, boxes that do not depend on how the head was
exported. `MCVision` chooses a `subject` and an `input` out of the small sets
listed there; the properties compare, as action properties of the step that chooses. No such module holds
a recursive operator that a module with theorems could reach.

## Runs

| run | instance | result |
|---|---|---|
| `pool_clients` | 2 contexts, 4 clients | passes, 775 states |
| `async_order` | 2 contexts, 2 threads that submit and drain, 2 images, 3 frames, depth 1, symmetric | passes, 1.5 million states |
| `async_live` | 1 context, 2 submitters (one also reads), 4 frames, depth 1 | passes, 51 000 states |
| `async_occupancy` | 2 contexts, 1 submitter, 1 reader, depth 8 | violated, see findings |
| `submit_loop` | 1 context, 1 caller, depth 1, 4 frames | violated, see findings |
| `async_video` | 2 contexts, queue 1, 4 chunks, threads may fail | passes, 620 000 states |
| `video_failure` | the same, workers may fail | violated, see findings |
| `video_loop` | 1 context, queue 1, 6 chunks, everything may fail | passes, 490 000 states |
| `media` | decoder: 2 frame variables, queues of 1, 4 chunks, resets or failures; encoder: 3 frames, 1 failure; JPEG: 3 calls, 2 images, 7 files | passes, 1.4 million states |
| `jpeg_timeout` | the same | violated, see findings |
| `vision` | tracking: 3 ids, 5 frames, buffer of 2; 42 kinds of call on some 118 000 inputs | passes, 161 000 states |
| `narrowing` | the same | violated, see findings |

*pool_clients.* Four clients over two contexts: two can hold, two can sleep, and
one that has just returned its context can take it back past the sleepers.
`NoLostWakeup` counts: free contexts never outnumber the threads that are about
to notify or about to look. `BlockedAcquireReturns` assumes that demand
eventually stops, because nothing in the code is fair to a waiter.

*async_order* checks safety and the refinement with both threads in both roles,
so two readers race for results and two submitters for contexts while a third
party finishes or destroys the pipeline. Two contexts are what it takes for
results to be out of order, three frames for a context to be reused while an
older frame is still being inferred, a depth of one for submitters to wait for
room; two images tell a frame from its neighbour. The refinement maps the
abstract queue to the frames from next_out on, wherever each of them is
(reorder buffer or slot).

*async_live* uses one context so that callers queue for it and four frames so
that a caller comes back; depth one makes room a bottleneck. `ReorderBound`
accounts for the overshoot the code calls "racy by a few".

*async_video* allows failures of its own threads, and a destructor at any moment
between the caller's calls. Four chunks fill every queue: one in the input
queue, one in the channel, two with workers, one in the reorder buffer.
`MaxEmptyFlushes` is 2 where the code has 20: the drain can give up and can be
saved by a late picture, and no property depends on the number.

*video_loop* runs the header's loop with every queue at capacity one. The extra
buffers are not taken as one but computed as sizePool() computes them. The
history `got` lists the pictures the loop was given: `LoopDeliversAll` says that it
is always the first ones decoded, in order, and that at an end without an
exception it is all of them. That holds also when the drain gave up on a slow
decoder; what the decoder had not decoded by then is lost, as the comment in
drainStream() says.

*media.* In each behaviour one codec object acts. Two frame variables are what a
move needs, two header kinds besides a broken one make a stream change and
change back, four chunks, resets and failures together allow a header, a
picture, a seek and the header again, which is how a pool is reused or
retired; a queue of one makes every put a wait. The symmetric holders may be
exchanged. `FramesStayBacked`: a frame the caller holds is backed by a pool that
lives. `RetiredBounded`: pools are retired by changes of the stream, not by
seeks. `ParkedIsAnswered`: nothing but an exception leaves MPP parked.
`MarkerAccounted`, `OneEosMarker`: the end marker is in exactly one place, or at
most one. `WindowsAreHeld`: a CPU window is open only on a frame somebody
holds. `LayoutMatchesBuffer`: what the encoder is told of a buffer is the
buffer's own layout, however it was re-programmed between. `PlayableFile`: the
packets back to back begin with header and keyframe, whether or not the runtime
puts the header there itself and wherever receive() throws, and a further header
is only one the runtime repeats before a later keyframe. `AnswersMatchCalls`:
decode() answers for its own file; encode() for its own image until a call gives up,
and after that for the image given as many calls earlier as calls gave up, which
is finding 4 in exact terms. The objects may stop for good, so deadlock is not
checked here.

*vision.* A behaviour with subject "tracking" is one of `TrackingPipeline`, or of a
bare tracker under a caller that may pass anything; five frames are one more
than it takes to lose a track, keep it for the buffer of two and drop it, and
three ids are a tracked, a lost and a new one. `LostForItsBuffer` bounds the life
of a lost track from above (`LostWithinBuffer`) and from below (`LostUntilExpiry`: it
goes when its buffer is over, by reset(), or for a longer-lived duplicate that is
still there); both count frames as the code does, rejected calls included. The other behaviours are one call
each, so they end (deadlock is not checked): `ImagesArriveWhole`,
`NumbersSurvive`, `HeadsAgree`, `FindingsAreSound` and `AssociationIsSound` are
the comparisons of all subjects of one kind, and the comment of each conjunct's
definition says what it claims. The input sets hold the boundary values: odd
sizes, rectangles across every edge, element types of one, two and four bytes in
packed and padded rows, half floats around every exponent border, heads of every
layout a segmenter is exported with, text lines narrower and wider than the
recogniser's input, every way the RGA's checks and submissions may fail, ties.

Every property of a passing run has a seeded fault that breaks it, a definition
next to the one it replaces ("Seeded fault" or "A mutant" in its comment), paired with the
property in `PROJECT.json`. None of them is used by a specification.

Bounds: `MaxFrames` (sequence numbers committed or under way) and `Chunks`
bound the streams; both only stop new work, and the properties are about work
already begun. Deadlock is checked in every run except `submit_loop`, where the
program hangs; `Over` and `LoopOver` are the intended ends.

### Fairness

Weak fairness on each thread that is inside a call, on each worker, on the
destructor's remaining steps, on each thread of the video pipeline and on the
decoder. It stands for an OS that schedules runnable threads and for hardware
operations that end; the RGA, NPU and VPU calls of the code have no cancellation
path, so it relies on that too. Nothing obliges a caller to submit, drain, finish
or destroy, a condition variable to wake anybody spuriously, or a worker to
fail. A mutex is weakly fair because each critical section is one step that ends.
`ReaderIsServed` holds for a lone reader; several readers may starve one another.

### Findings

1. **Out-of-order occupancy** (`async_occupancy`). The comment at
   `src/src/pipeline/async_detection_pipeline.cc:140-143` bounds it by the number of
   workers. While one frame is slow the other workers keep parking results
   behind it: three with two workers. The header has it right.
2. **A single-threaded caller can block itself** (`submit_loop`). The comment at
   lines 264-269 says it cannot. Parking never waits, but acquireSlot() does,
   for room that only the waiting caller could make: with a `reorder_depth` no
   larger than the results the header's loop lets pile up, the loop never ends.
   With the default depth, four times the workers, it does (put `Depth = 4` in
   `MCSubmitLoop.cfg`).
3. **Timestamps shift after a failed frame** (`video_failure`). When a worker
   failed, detect->next() throws after counting the frame out, and
   AsyncVideoDetectionPipeline::next() never reaches popMeta()
   (`src/src/pipeline/async_video_detection_pipeline.cc:362-366`). From then on each result
   is paired with the previous frame's timestamp and index. A caller that
   treats the exception as the end, as the header's loop does, does not see it.
4. **A timed-out encode() shifts every later JPEG** (`jpeg_timeout`). encode() throws
   at `src/src/media/jpeg_codec.cc:198` with its frame still in the encoder; the next
   call returns that frame's packet. The decoder resets MPP before a call that
   follows another (line 335), the encoder does not. `AnswersMatchCalls` holds:
   without a time-out every answer belongs to its call, and after n of them each
   belongs to the call n before.
5. **num_classes shears a channels-last label map** (`narrowing`). The header
   (`src/include/rcdl/tasks/segmentation.h:32-34`) says a non-zero value only narrows
   the argmax. In decodeSeg() and argmaxQuantized()
   (`src/src/tasks/segmentation.cc:224`, `:154`) the narrowed count is also the distance
   between pixels.

Four smaller divergences are formulas of the modules that no run checks; each is
refuted within seconds when it takes the place of the invariant in the .cfg named:

* `NoStaleEnd` (`VideoDecoder`, `MCJpegTimeout.cfg`): reset() clears the end flags
  while a drain thread holds an end-of-stream frame taken before, which then sets
  `eos_seen` for the stream after the seek (`src/src/media/video_decoder.cc:698`, `:625`).
* `ExternalFlagTruthful` (same): after the second info change on an internal
  pool usingExternalBuffers() is true (line 443).
* `BitrateCorridor` (`VideoEncoder`, same): above 126 Mbit/s the CBR ceiling
  overflows (`src/src/media/video_encoder.cc:259`).
* `NothingIsCutOff` (`MCVision`, `MCNarrowing.cfg`): the window of a mask can end
  before the mask does (`src/src/tasks/instance_seg.cc:180`).

## Proofs

TLAPS proves every safety property of the passing runs that is about a state
machine, its action properties and the refinement, for every value of the
constants, and the rectangles of preprocessing for every size. Theorems stand in the modules named `*Proofs`; `PROJECT.json` lists each
beside the property it states.

**Assumptions**, all named where the constants are declared, and evaluated by TLC
in every run: `SizeAssumption` (at least one context, which build() requires);
`ConfigAssumption` (submitters and consumers are threads, NoFrame is not an image, the
depth is positive); `VideoAssumption` (capacities are positive, bounds are numbers);
`BufferAssumption`, `WidthsAssumption`, `CropsAssumption` (the tracker's buffer and caps are
numbers); `DecoderAssumption` (configurations and headers are records of numbers, the
holders finitely many, the No... values apart from what they stand against);
`EncoderAssumption`, `JpegAssumption` (likewise). Theorems that count threads
(`ReorderIsBounded`, both `WakeupsAreNotLost`) have the hypothesis that the set of
threads is finite; for an infinite one a cardinality means nothing.

* **EnginePoolProofs.** `Take` and `GiveBack` preserve `PoolInv`, the agreement of
  counter and free list; `PredicateMeansFree`: under it the predicate of
  acquire() is exactly that a context is free.
* **PoolClientsProofs.** `CountIsRight`, `LeasesAreExclusive`, `ClientTypes`. The
  invariant is the conjunction of the three: the counter needs to know that a
  returned context was not free, which is what the exclusive leases say.
  `WakeupsAreNotLost` follows the count of `NoLostWakeup` through each step: a
  context becomes free in the step that makes its giver an attentive thread, and
  an attentive thread stops being one by taking a context, by waking another, or
  by going to sleep when nothing is free.
* **AsyncDetectionProofs**, in four parts.
  - *Ownership.* `OwnershipHolds` is the inductive invariant: types,
    pool agreement, `OneOwner`, `HandleIsValid`, and three links that are not
    stated by the code anywhere. A slot has a lease exactly when it is not free;
    a caller with a lease or a slot knows which; a worker with a frame in hand
    has a queued slot. `SingleOwner`, `HandlesStayValid`, `TypesHold` and
    `TensorsAreExclusive` follow. The last is the argument the comment in
    letterboxIntoSlot() makes ("nothing else can touch it"): a writer's slot is
    held, a worker's is queued.
  - *Numbers and contents.* `StreamHolds` adds where each sequence number is:
    parked numbers and queued slots' numbers lie in next_out .. next_in - 1,
    are disjoint and unique, and until the destructor runs cover that range.
    That a worker parks the number its slot says needs that its local copy still
    agrees with the slot, since nobody writes a queued slot. `StreamHasNoHole` and
    `GeometryBelongsToResult` follow.
  - *Service.* `ReorderIsBounded`: the invariant `Accounted` weighs parked results,
    queued slots and submitters past the test of acquireSlot() together, so
    that the late use of an early test is paid for when the test is passed. Each
    step is one of four moves (`ReorderMove`) on that weight. `WakeupsAreNotLost`
    treats the four condition variables one by one; the pool's is again a count,
    over callers and workers.
  - *Refinement.* `PipelineIsAnOrderedStream`: `SafetySpec` implements `OrderedStream`.
    The queue the mapping builds is the unbroken run of frames from next_out on;
    `QueueReachesHolds` replaces its CHOOSE by the number `Reach` characterises,
    `FrameIsOneHolds` says that the frame of a number is well defined, and
    `SameFrame` that it stays the same while it moves from tensor to reorder
    buffer. Then one lemma per kind of step: a commit pushes, next() and tryNext()
    pop, parking changes nothing, a worker leaving on `stopping` cuts the queue
    where its frame was. `InHands` is what the pipeline's invariant lacks for it: a
    result is in a reader's hand only between its pop and its return.
* **AsyncVideoProofs.** `TypesHold`; `ChannelWakesItsSleepers` (`SleepersHaveReason`);
  `PoolIsLargeEnough`: buffers downstream are at most the channel, one frame in each
  thread's hand and those the detector lets in, which is what sizePool() adds up
  to. `MetadataFollows`: metadata FIFO and stream have the same indices in the same
  order, the frame whose metadata is pushed before its commit apart; `AnEndIsClean`:
  when next() returns false no error is recorded and, at the decoder's end of
  stream, nothing is left on its way.
  These two are stated for ~WorkersFail, because they are false otherwise:
  `video_failure` shows it, finding 3. `TheLoopDeliversAll` needs no such hypothesis: in
  `VideoLoop` the first exception ends the loop before a shifted pair can be
  taken, so the invariant holds as long as the loop runs. It lines up, from the
  caller back to the decoder, the pictures given, the one being handed over, the
  stream, and what the threads and the channel hold: as long as nothing has thrown,
  these are the numbers from 0 on, with no gap.
* **MediaProofs.** For the encoder, `FramesKeepTheirLayout` (though the two strides
  are stored one after the other), `TheMarkerIsQueuedOnce`, `TheFileIsPlayable`; for
  the JPEG codecs, `JpegCallsAreAnswered`: the images given to encode() are those
  answered, in order, followed by those inside MPP, of which there is one for each
  call that gave up and one for the call in progress; and what a decode() that gave
  up leaves behind is in a context that the next call resets first.
* **VideoDecoderProofs.** `WindowsCloseInTime`; `FramesOutliveTheirPool`, from an invariant
  that covers the frames on their way, in the output queue and in receive()'s hand,
  and not only those the caller holds; `InfoChangesAreAnswered`; `TheMarkerIsAccountedFor`;
  `RetiredPoolsAreBounded`. A pool is retired when the header changes, but info changes
  wait in the output queue while newer headers are parsed and the caller seeks, so
  counts alone are not inductive. `RetiredInv` labels the pool, the frame in hand and
  each info change in the queue with the number of the header it is for, and says
  that the labels ascend and that no more pools are retired than the current
  pool's label and the faults together allow.
* **ByteTrackerProofs.** `TrackerInvariant`, for any number of tracks and detections, any
  buffer and any association: types, `ListsAgree` and `OutputIsFresh` together.
  The lists' agreement is what makes the case split of update() exhaustive (a
  lost track matched again is on the tracked list because its state says Lost),
  and types alone or freshness alone are not inductive. `AssociatedStates` says
  what update() makes of each kind of track, `MergedLists` what the list
  operations then come to. `TrackListsAgree` and `TrackOutputIsFresh` follow.
  `LostTracksAreKept` has two halves. `LostTracksExpire` adds the ages of lost tracks
  (`LostAges`), counting the calls that threw since expiry last ran. `LostTracksWait`:
  the duplicates that removeDuplicateStracks() finds may form chains whose links go
  in the same call, so the track outlived by its duplicate is led to one that stays
  by taking a longest-lived one (`LongestLived`, from the least of a bounded set of
  numbers). `TrackerInvariantInPipeline` and
  `EmbeddingsBelongToFrame` carry these to `TrackingPipeline`, whose stages may throw
  and whose member vectors outlive a call (`CropsInv`).

* **GeometryProofs.** Five of the references that `MCVision` tries on boundary values,
  for all values. `LetterboxesAgree`: the two ways to a letterbox rectangle are one, on
  the canvas, centred, and undone by the reported scale to within half a model
  pixel (`AxisFits`, one axis at a time: rounding is off by half a step at most, and
  a column's share of that error grows with its number). `BoxCropsCoverTheBox`,
  `AllocationsAreUsable`, `GreyBorderStaysOnRga3`, and `OutlinesAreRings`, whose
  hypothesis that a 4:2:0 canvas has even sides is what `Image::alloc()` and the
  software path refuse otherwise. The run's property `ImagesArriveWhole` is about all of
  its references together, so none of the five states it alone.

The proof that a step preserves an invariant has one case per action, grouped by
actor where a group disturbs the same conjuncts; Next is put together in the lemma of
the step, and the temporal theorem combines the facts by PTL. Facts about a defined
value in both states of a step (`QueueFacts`) are proved once as closed formulas
and primed by temporal reasoning.

Only model-checked: all liveness (`BlockedAcquireReturns`, `EveryFrameIsParked`,
`ReaderIsServed`, `FinishEndsEveryCall`, `DestructorReturns`, `LoopEnds`), since
fairness and ENABLED are outside what the backends handle; and the other functions of
`MCVision` against their references, which are mostly inductions over data (pixels,
rows, characters, sorted lists), which they cannot do either. (`CenterCropFits`, an
inequality between quotients of products, may be within reach and is not proved yet.) `Association` has
recursive operators besides, so nothing can be proved in a module that reaches it.

## Not modelled, and why

* Floating-point rounding, and what images and tensors contain beyond the small
  values of the runs.
* What the code gives up on purpose, though the models contain it: an encoder's end
  marker that a full queue refuses (`src/src/media/video_encoder.cc:598`, "best
  effort"), a marker whose two strides are read around a re-programming (it carries no
  buffer), a frame counted for an update() that throws. No property asks otherwise.
* Callers that break the header's rules. In particular checkedSlot() tests that
  a slot is held, not by whom, so a stale handle may pass.
* Profiling counters, logging, drawing of text, accessors without effects.
* Construction failures: an object that was never built has no threads.
* Engine's loading, dup() and asynchronous run: calls into the NPU runtime with
  one flag of their own. (A wait() that times out throws with the run still
  pending, `src/src/backend/engine.cc:296`; nothing in src/ but the bindings calls it.)
* DetectionPipeline: preprocess, infer, decode in sequence, no state of its own.
* The heads open_vocab, optical_flow, panoptic_drive, promptable_seg, superres and
  wholebody: they combine the decoders above with arithmetic for which no
  reference simpler than the code was found.
* The Python bindings: conversions and lock release around the C++ calls.
* applyCameraMotion(), which warps boxes and touches no list.

## Plan

1. Done: the pool, the detection pipeline, the video pipeline and the loops of
   their headers; ownership and stream invariants proved.
2. Done: the codecs, VideoFrame's window.
3. Done: ByteTracker and TrackingPipeline; the lists' invariant proved.
4. Done: preprocessing, tensor I/O, the task decoders and association as functions
   against reference definitions.
5. Done: every safety property of the state machines, their action properties and
   the refinement of `OrderedStream` proved; the rectangles of preprocessing proved
   for every size.
6. Left: `CenterCropFits`; the packing of tensor rows (`RowsSurvive`), given that the
   element count is the product of rows and row length.

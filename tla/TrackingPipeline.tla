-------------------------- MODULE TrackingPipeline --------------------------
(***************************************************************************)
(* rcdl::TrackingPipeline (src/src/pipeline/tracking_pipeline.cc): detect,  *)
(* embed the crops worth it, update the ByteTracker; any stage may throw.   *)
(* A frame of the VPU is read by the CPU, for the crops, in a window.       *)
(***************************************************************************)
EXTENDS ByteTracker, Sequences

CONSTANTS max_crops,   \* 0: no cap
          MaxDets,     \* bound: detections of a frame
          MaxCalls     \* bound: calls of process()

ASSUME CropsAssumption == max_crops \in Int

VARIABLES
  reid_,               \* a ReID engine was given
  last_dets_,          \* scores, best first: "embed" is at least min_score
  embeddings_,         \* one entry a detection: 0 empty, else the call it is of
  last_embed_count_,
  call,                \* calls of process() so far
  stage,               \* where the call is; "idle" between calls, "alone" for
                       \* a tracker whose caller has no pipeline
  crop,                \* the detection embedDetections() is at
  cpu_window           \* beginCpuRead() without its endCpuRead()

pipelineVars == <<reid_, last_dets_, embeddings_, last_embed_count_, call, stage, crop,
                  cpu_window>>

PipelineInit ==
  /\ TrackerInit
  /\ reid_ \in BOOLEAN
  /\ last_dets_ = <<>> /\ embeddings_ = <<>> /\ last_embed_count_ = 0
  /\ call = 0 /\ stage \in {"idle", "alone"} /\ crop = 1 /\ cpu_window = FALSE

\* The end of process(VideoFrame&), normal or not.
Leave == stage' = "idle" /\ cpu_window' = FALSE

\* process(): the window is for the crops alone; it may throw, before any of
\* the pipeline's state is touched.
Process ==
  /\ stage = "idle" /\ frame_id < MaxFrames /\ call < MaxCalls
  /\ call' = call + 1
  /\ \/ stage' = "detect" /\ cpu_window' \in {FALSE, reid_}
     \/ UNCHANGED <<stage, cpu_window>>
  /\ UNCHANGED <<trackerVars, reid_, last_dets_, embeddings_, last_embed_count_, crop>>

\* det_.process(), whose detections come in descending order of score.
Detect ==
  /\ stage = "detect"
  /\ \/ /\ \E strong, weak \in 0..MaxDets :
             /\ strong + weak <= MaxDets
             /\ last_dets_' = [i \in 1..strong + weak |->
                                 IF i <= strong THEN "embed" ELSE "skip"]
        /\ stage' = IF reid_ THEN "embed" ELSE "update"
        /\ last_embed_count_' = IF reid_ THEN last_embed_count_ ELSE 0
        /\ UNCHANGED cpu_window
     \/ Leave /\ UNCHANGED <<last_dets_, last_embed_count_>>
  /\ UNCHANGED <<trackerVars, reid_, embeddings_, call, crop>>

\* A mutant: the entries of the frame before are left in place.
StartEmbeddingOver ==
  /\ stage = "embed"
  /\ embeddings_' = [i \in 1..Len(last_dets_) |->
                       IF i \in DOMAIN embeddings_ THEN embeddings_[i] ELSE 0]
  /\ last_embed_count_' = 0 /\ crop' = 1
  /\ stage' = "crops" /\ UNCHANGED cpu_window
  /\ UNCHANGED <<trackerVars, reid_, last_dets_, call>>

\* embedDetections(): all entries empty; a source without a CPU mapping throws.
StartEmbedding ==
  /\ stage = "embed"
  /\ embeddings_' = [i \in 1..Len(last_dets_) |-> 0]
  /\ last_embed_count_' = 0 /\ crop' = 1
  /\ \/ stage' = "crops" /\ UNCHANGED cpu_window
     \/ Leave
  /\ UNCHANGED <<trackerVars, reid_, last_dets_, call>>

CropsDone ==
  \/ crop > Len(last_dets_)
  \/ max_crops > 0 /\ last_embed_count_ >= max_crops

\* One crop: too weak, embedded, or empty because the embedder threw.
EmbedCrop ==
  /\ stage = "crops" /\ ~CropsDone
  /\ crop' = crop + 1
  /\ \/ /\ last_dets_[crop] = "embed"
        /\ embeddings_' = [embeddings_ EXCEPT ![crop] = call]
        /\ last_embed_count_' = last_embed_count_ + 1
     \/ embeddings_' = [embeddings_ EXCEPT ![crop] = 0] /\ UNCHANGED last_embed_count_
  /\ UNCHANGED <<trackerVars, reid_, last_dets_, call, stage, cpu_window>>

EmbeddingDone ==
  /\ stage = "crops" /\ CropsDone /\ stage' = "update"
  /\ UNCHANGED <<trackerVars, reid_, last_dets_, embeddings_, last_embed_count_, call,
                 crop, cpu_window>>

\* The tracker's update(), which throws on a list that is not parallel.
Track ==
  /\ stage = "update"
  /\ IF reid_ /\ Len(embeddings_) # Len(last_dets_) THEN UpdateThrows ELSE UpdateReturns
  /\ Leave
  /\ UNCHANGED <<reid_, last_dets_, embeddings_, last_embed_count_, call, crop>>

PipelineNext ==
  \/ Process \/ Detect \/ StartEmbedding \/ EmbedCrop \/ EmbeddingDone \/ Track

\* A tracker in the pipeline, or one under a caller that may pass it anything.
TrackingNext ==
  \/ stage = "alone" /\ TrackerNext /\ UNCHANGED pipelineVars
  \/ PipelineNext

TrackingSpec == PipelineInit /\ [][TrackingNext]_<<trackerVars, pipelineVars>>

(***************************************************************************)
(* Properties.                                                             *)
(***************************************************************************)
\* What reaches the tracker is of the frame in hand: the embeddings run
\* parallel to the detections, none is left over from an earlier frame
\* whatever that frame threw on, no more than max_crops were computed and as
\* many as embedCount() says.
EmbeddingsOfThisFrame ==
  stage = "update" /\ reid_ =>
    LET full == {i \in DOMAIN embeddings_ : embeddings_[i] # 0}
    IN  /\ Len(embeddings_) = Len(last_dets_)
        /\ \A i \in full : embeddings_[i] = call /\ last_dets_[i] = "embed"
        /\ last_embed_count_ = Cardinality(full)
        /\ max_crops > 0 => Cardinality(full) <= max_crops
=============================================================================

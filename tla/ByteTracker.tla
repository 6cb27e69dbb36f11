---------------------------- MODULE ByteTracker ----------------------------
(***************************************************************************)
(* rcdl::ByteTracker (src/src/tracks/byte_tracker.cc): what update() does   *)
(* with its tracklets.  Which tracklet matches which detection is geometry  *)
(* (module Association), so the outcome of an assignment is any matching.   *)
(* The lists share their STracks, so a list is a set of track ids and       *)
(* `stracks` the objects.                                                   *)
(***************************************************************************)
EXTENDS Integers, FiniteSets, FiniteSetsExt

CONSTANTS max_time_lost,
          Widths,      \* widths of embedding vectors a caller may pass
          MaxStrong,   \* bound: detections above track_thresh in a frame
          MaxFrames,   \* bound: calls of update()
          MaxIds       \* bound: tracks started

ASSUME BufferAssumption == max_time_lost \in Nat
ASSUME WidthsAssumption == Widths \subseteq Nat \ {0}

VARIABLES
  frame_id, id_count, embed_dim,
  tracked, lost,       \* sets of ids
  stracks,             \* id -> [state, activated, frame, start]
  emitted,             \* the ids the last update() returned
  returned,            \* the frame_id of the last update() that returned
  thrown               \* how often update() has thrown since the last reset()

trackerVars == <<frame_id, id_count, embed_dim, tracked, lost, stracks, emitted,
                 returned, thrown>>

TrackerInit ==
  /\ frame_id = 0 /\ id_count = 0 /\ embed_dim = 0
  /\ tracked = {} /\ lost = {} /\ stracks = <<>>
  /\ emitted = {} /\ returned = 0 /\ thrown = 0

Kept == tracked \cup lost
activated(i) == stracks[i].activated

(***************************************************************************)
(* STrack.                                                                 *)
(***************************************************************************)
\* activate(): only the first frame's tracks start confirmed.
activate(frame) ==
  [state |-> "Tracked", activated |-> frame = 1, frame |-> frame, start |-> frame]

\* update() and reActivate() differ in tracklet_len_ alone, which nothing reads.
matched(t, frame) == [t EXCEPT !.state = "Tracked", !.activated = TRUE, !.frame = frame]

jointStracks(a, b) == a \cup b
subStracks(a, b) == a \ b

\* removeDuplicateStracks(): of two tracks that overlap the one that has lived
\* longer stays, and the lost one when they have lived as long.
Lifetime(t) == t.frame - t.start
duplicates(ts, overlap) ==
  [dupa |-> {pair[1] : pair \in {p \in overlap : Lifetime(ts[p[1]]) <= Lifetime(ts[p[2]])}},
   dupb |-> {pair[2] : pair \in {p \in overlap : Lifetime(ts[p[1]]) > Lifetime(ts[p[2]])}}]

(***************************************************************************)
(* update().                                                               *)
(***************************************************************************)
\* The embeddings are checked after the frame has been counted; the width that
\* is latched stays latched when a later entry throws.
Latch(width) == embed_dim' = IF embed_dim = 0 THEN width ELSE embed_dim

UpdateThrows ==
  /\ frame_id < MaxFrames
  /\ frame_id' = frame_id + 1
  /\ thrown' = thrown + 1
  /\ \/ UNCHANGED embed_dim                       \* not parallel
     \/ \E first, other \in Widths :              \* widths that differ
          /\ other # (IF embed_dim = 0 THEN first ELSE embed_dim)
          /\ Latch(first)
  /\ UNCHANGED <<id_count, tracked, lost, stracks, emitted, returned>>

\* No embeddings, or of one width.
EmbeddingsFit ==
  \/ UNCHANGED embed_dim
  \/ \E width \in Widths : embed_dim \in {0, width} /\ Latch(width)

\* The tracklets each association matches: m1 of the confirmed and lost ones
\* with strong detections, m2 of the tracked ones left with weak ones, m3 of
\* the unconfirmed ones with strong ones left; `spawned` strong detections are
\* left and score high_thresh.
confirmed == {i \in tracked : activated(i)}
\* A mutant: a new track is confirmed by being there for a second frame.
unconfirmedNew == {i \in tracked \ confirmed : stracks[i].start = frame_id}
unconfirmed == tracked \ confirmed
strack_pool == jointStracks(confirmed, lost)
r_tracked(m1) == {i \in strack_pool \ m1 : stracks[i].state = "Tracked"}

\* A mutant: the last frame of the buffer is not waited for.
ExpiredEarly(i, ts, frame) == frame - ts[i].frame >= max_time_lost

Expired(i, ts, frame) == frame - ts[i].frame > max_time_lost

\* After the associations, with the new tracks started.
Associated(m1, m2, m3, spawned, frame) ==
  LET lost_now == r_tracked(m1) \ m2
  IN  [i \in Kept \cup spawned |->
         IF i \in spawned THEN activate(frame)
         ELSE IF i \in m1 \cup m2 \cup m3 THEN matched(stracks[i], frame)
         ELSE IF i \in lost_now THEN [stracks[i] EXCEPT !.state = "Lost"]
         ELSE IF i \in unconfirmed \/ (i \in lost /\ Expired(i, stracks, frame))
         THEN [stracks[i] EXCEPT !.state = "Removed"] ELSE stracks[i]]

\* A mutant: the tracks found again stay on the lost list.
MergedTwice(ts, m1, m2, m3, spawned) ==
  LET lost_now == r_tracked(m1) \ m2
  IN  [tracked |-> {i \in tracked : ts[i].state = "Tracked"} \cup m1 \cup m2 \cup m3 \cup spawned,
       lost |-> {i \in lost \cup lost_now : ts[i].state # "Removed"}]

\* The lists before the duplicates go.
Merged(ts, m1, m2, m3, spawned) ==
  LET still == {i \in tracked : ts[i].state = "Tracked"}
      activatedNow == {i \in m1 : stracks[i].state = "Tracked"} \cup m2 \cup m3 \cup spawned
      refind == {i \in m1 : stracks[i].state = "Lost"}
      lost_now == r_tracked(m1) \ m2
      removed_now == {i \in unconfirmed \cup lost : ts[i].state = "Removed"}
      new_tracked == jointStracks(jointStracks(still, activatedNow), refind)
  IN  [tracked |-> new_tracked,
       lost |-> subStracks(subStracks(lost, new_tracked) \cup lost_now, removed_now)]

\* The associations have matched m1, m2 and m3 and left `started` strong ones.
Associate(m1, m2, m3, started) ==
  LET spawned == id_count + 1 .. id_count + started
      ts   == Associated(m1, m2, m3, spawned, frame_id')
      both == Merged(ts, m1, m2, m3, spawned)
  IN  /\ Cardinality(m1) + Cardinality(m3) + started <= MaxStrong
      /\ id_count + started <= MaxIds
      /\ id_count' = id_count + started   \* nextId()
      /\ \E overlap \in SUBSET (both.tracked \X both.lost) :
           /\ tracked' = both.tracked \ duplicates(ts, overlap).dupa
           /\ lost' = both.lost \ duplicates(ts, overlap).dupb
      /\ stracks' = [i \in tracked' \cup lost' |-> ts[i]]

UpdateReturns ==
  /\ frame_id < MaxFrames
  /\ frame_id' = frame_id + 1
  /\ EmbeddingsFit
  /\ \E m1 \in SUBSET strack_pool, m3 \in SUBSET unconfirmed :
     \E m2 \in SUBSET r_tracked(m1), started \in 0..MaxStrong : Associate(m1, m2, m3, started)
  /\ emitted' = {i \in tracked' : stracks'[i].activated}
  /\ returned' = frame_id' /\ UNCHANGED thrown

\* applyCameraMotion() warps the boxes, which are not modelled here: no step.
reset ==
  /\ frame_id > 0
  /\ tracked' = {} /\ lost' = {} /\ stracks' = <<>>
  /\ frame_id' = 0 /\ id_count' = 0 /\ embed_dim' = 0
  /\ emitted' = {} /\ returned' = 0 /\ thrown' = 0

TrackerNext == UpdateReturns \/ UpdateThrows \/ reset
TrackerSpec == TrackerInit /\ [][TrackerNext]_trackerVars

(***************************************************************************)
(* Properties.                                                             *)
(***************************************************************************)
\* The two lists and the states of their tracks agree: a track is on one list
\* at most, a tracked one is Tracked, a lost one Lost, and a Removed one is on
\* neither (subStracks() and the state filter are two ways of saying so).
ListsAgree ==
  /\ tracked \cap lost = {}
  /\ DOMAIN stracks = Kept
  /\ \A i \in tracked : stracks[i].state = "Tracked"
  /\ \A i \in lost : stracks[i].state = "Lost"
  /\ Kept \subseteq 1..id_count

\* Every tracked tracklet was matched or started by the last update() that
\* returned, an unconfirmed one in that very frame (a candidate has one frame
\* to be seen again), and what update() returns is the confirmed ones.
OutputIsFresh ==
  /\ \A i \in tracked : stracks[i].frame = returned
  /\ \A i \in tracked : ~activated(i) => stracks[i].start = returned
  /\ emitted = confirmed

\* "Lost tracklets are kept for frame_rate/30 * track_buffer frames before
\* being permanently removed": none is older (one lost in this very frame has
\* age 1), but for the frames update() threw in, which count although nothing
\* could be matched in them.
LostWithinBuffer ==
  \A i \in lost : returned - stracks[i].frame \in 1..Max({max_time_lost, 1 + thrown})

\* And none goes before that, counted in frames: a lost tracklet that is not
\* found again is forgotten by reset(), when its buffer is over, or for a
\* duplicate that has lived longer and is still there, however long the chain
\* of duplicates the overlaps make and whichever of them go in the same call.
LostUntilExpiry ==
  [][\A i \in lost \ Kept' :
       \/ frame_id' = 0
       \/ frame_id' - stracks[i].frame > max_time_lost
       \/ \E j \in Kept' : Lifetime(stracks'[j]) > Lifetime(stracks[i])]_trackerVars

\* A lost tracklet is kept for its buffer, no longer and no shorter.
LostForItsBuffer == []LostWithinBuffer /\ LostUntilExpiry
=============================================================================

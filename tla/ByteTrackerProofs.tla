------------------------- MODULE ByteTrackerProofs -------------------------
(***************************************************************************)
(* Proofs about ByteTracker and the pipeline that feeds it, for every buffer *)
(* length, any number of tracks and whatever the associations and the       *)
(* overlaps come to.  The tracker's inductive invariant is the agreement of *)
(* the lists with the tracks' own states, with the freshness of what is      *)
(* tracked; neither is inductive without the types.                         *)
(***************************************************************************)
EXTENDS TrackingPipeline, FiniteSetTheorems, SequenceTheorems, WellFoundedInduction, TLAPS

STrack == [state : {"Tracked", "Lost", "Removed"}, activated : BOOLEAN, frame : Nat, start : Nat]

TrackTypes ==
  /\ frame_id \in Nat /\ id_count \in Nat
  /\ stracks \in [Kept -> STrack]

TrackInv == TrackTypes /\ ListsAgree /\ OutputIsFresh

\* One update(): the matched and the spawned, and what the lists hold before
\* the duplicates go.
Matching(m1, m2, m3, spawned, frame) ==
  /\ m1 \subseteq strack_pool /\ m3 \subseteq unconfirmed /\ m2 \subseteq r_tracked(m1)
  /\ spawned \cap (1..id_count) = {}
  /\ frame \in Nat

\* What the associations make of each kind of track.
Settled(ts, m1, m2, m3, spawned, frame) ==
  /\ ts \in [Kept \cup spawned -> STrack]
  /\ \A i \in spawned : ts[i].state = "Tracked" /\ ts[i].frame = frame /\ ts[i].start = frame
  /\ \A i \in m1 \cup m2 \cup m3 :
       i \in Kept /\ ts[i].state = "Tracked" /\ ts[i].frame = frame /\ ts[i].activated
  /\ \A i \in tracked \ (m1 \cup m2 \cup m3) : ts[i].state # "Tracked"
  /\ \A i \in r_tracked(m1) \ m2 : i \in confirmed /\ i \notin m3 /\ ts[i].state = "Lost"
  /\ \A i \in lost \ (m1 \cup m2 \cup m3) : ts[i].state = "Lost" \/ ts[i].state = "Removed"

LEMMA AssociatedStates ==
  ASSUME TrackInv,
         NEW m1, NEW m2, NEW m3, NEW spawned, NEW frame,
         Matching(m1, m2, m3, spawned, frame)
  PROVE  Settled(Associated(m1, m2, m3, spawned, frame), m1, m2, m3, spawned, frame)
<1> DEFINE ts == Associated(m1, m2, m3, spawned, frame)
              put(t, s) == [t EXCEPT !.state = s]
<1> HIDE DEF ts, put
<1>1. /\ frame_id \in Nat /\ id_count \in Nat /\ frame \in Nat
      /\ stracks \in [Kept -> STrack]
      /\ tracked \cap lost = {}
      /\ \A i \in tracked : stracks[i].state = "Tracked"
      /\ \A i \in lost : stracks[i].state = "Lost"
      /\ Kept \subseteq 1..id_count
      /\ Kept \cap spawned = {}
  BY DEF TrackInv, TrackTypes, ListsAgree, Matching
<1>2. /\ confirmed \subseteq tracked /\ unconfirmed \subseteq tracked
      /\ confirmed \cap unconfirmed = {} /\ confirmed \cup unconfirmed = tracked
      /\ strack_pool = confirmed \cup lost
  BY DEF confirmed, unconfirmed, strack_pool, jointStracks
<1>3. /\ m1 \subseteq confirmed \cup lost /\ m3 \subseteq unconfirmed
      /\ m2 \subseteq confirmed \ m1
      /\ r_tracked(m1) = confirmed \ m1
  BY <1>1, <1>2 DEF Matching, r_tracked
<1>4. Kept = tracked \cup lost
  BY DEF Kept
<1>5. DOMAIN ts = Kept \cup spawned
  BY DEF ts, Associated
<1>6. \A i \in spawned : ts[i] = activate(frame)
  BY <1>5 DEF ts, Associated
<1>7. \A i \in m1 \cup m2 \cup m3 : i \in Kept /\ ts[i] = matched(stracks[i], frame)
  <2>1. \A i \in m1 \cup m2 \cup m3 : i \in Kept /\ i \notin spawned
    BY <1>1, <1>2, <1>3, <1>4
  <2>2. QED
    BY <2>1, <1>5 DEF ts, put, Associated
<1>8. \A i \in r_tracked(m1) \ m2 :
        i \in confirmed /\ i \notin m3 /\ ts[i] = put(stracks[i], "Lost")
  <2>1. \A i \in r_tracked(m1) \ m2 : i \in Kept /\ i \notin spawned /\ i \notin m1 \cup m2 \cup m3
    BY <1>1, <1>2, <1>3, <1>4
  <2>2. QED
    BY <2>1, <1>3, <1>5 DEF ts, put, Associated
<1>9. \A i \in unconfirmed \ m3 : ts[i] = put(stracks[i], "Removed")
  <2>1. \A i \in unconfirmed \ m3 : /\ i \in Kept /\ i \notin spawned /\ i \notin m1 \cup m2 \cup m3
                                    /\ i \notin r_tracked(m1) \ m2
    BY <1>1, <1>2, <1>3, <1>4
  <2>2. QED
    BY <2>1, <1>5 DEF ts, put, Associated
<1>10. \A i \in lost \ m1 : \/ ts[i] = stracks[i]
                            \/ ts[i] = put(stracks[i], "Removed")
  <2>1. \A i \in lost \ m1 : /\ i \in Kept /\ i \notin spawned /\ i \notin m1 \cup m2 \cup m3
                             /\ i \notin r_tracked(m1) \ m2
    BY <1>1, <1>2, <1>3, <1>4
  <2>2. QED
    BY <2>1, <1>5 DEF ts, put, Associated
<1>11. \A i \in Kept : stracks[i] \in STrack
  BY <1>1
<1>12. \A i \in Kept \cup spawned : \/ i \in spawned
                                   \/ i \in m1 \cup m2 \cup m3
                                   \/ i \in r_tracked(m1) \ m2
                                   \/ i \in unconfirmed \ m3
                                   \/ i \in lost \ m1
  BY <1>2, <1>3, <1>4
<1>13. ts \in [Kept \cup spawned -> STrack]
  <2>1. activate(frame) \in STrack
    BY <1>1 DEF activate, STrack
  <2>2. \A t \in STrack : /\ matched(t, frame) \in STrack
                          /\ put(t, "Lost") \in STrack
                          /\ put(t, "Removed") \in STrack
    BY <1>1 DEF matched, put, STrack
  <2>3. \A i \in Kept \cup spawned : ts[i] \in STrack
    <3> TAKE i \in Kept \cup spawned
    <3>1. i \in spawned \/ i \in Kept
      OBVIOUS
    <3>2. CASE i \in spawned
      BY <2>1, <3>2, <1>6
    <3>3. CASE i \in Kept \ spawned
      <4>1. stracks[i] \in STrack
        BY <3>3, <1>11
      <4>2. \/ ts[i] = matched(stracks[i], frame) \/ ts[i] = put(stracks[i], "Lost")
            \/ ts[i] = put(stracks[i], "Removed") \/ ts[i] = stracks[i]
        BY <3>3, <1>7, <1>8, <1>9, <1>10, <1>12
      <4>3. QED
        BY <4>1, <4>2, <2>2
    <3>4. QED
      BY <3>1, <3>2, <3>3
  <2>4. ts = [i \in Kept \cup spawned |-> ts[i]]
    BY DEF ts, Associated
  <2>5. QED
    BY <2>3, <2>4, <1>5
<1>14. \A t \in STrack : /\ matched(t, frame).state = "Tracked" /\ matched(t, frame).frame = frame
                         /\ matched(t, frame).activated
                         /\ put(t, "Lost").state = "Lost"
                         /\ put(t, "Removed").state = "Removed"
  BY DEF matched, put, STrack
<1>15. /\ activate(frame).state = "Tracked" /\ activate(frame).frame = frame
       /\ activate(frame).start = frame
  BY DEF activate
<1>16. \A i \in m1 \cup m2 \cup m3 :
         i \in Kept /\ ts[i].state = "Tracked" /\ ts[i].frame = frame /\ ts[i].activated
  BY <1>7, <1>11, <1>14
<1>17. \A i \in r_tracked(m1) \ m2 : i \in confirmed /\ i \notin m3 /\ ts[i].state = "Lost"
  BY <1>2, <1>4, <1>8, <1>11, <1>14
<1>18. \A i \in unconfirmed \ m3 : ts[i].state = "Removed"
  BY <1>2, <1>4, <1>9, <1>11, <1>14
<1>19. \A i \in tracked \ (m1 \cup m2 \cup m3) : ts[i].state # "Tracked"
  <2>1. \A i \in tracked \ (m1 \cup m2 \cup m3) : i \in r_tracked(m1) \ m2 \/ i \in unconfirmed \ m3
    BY <1>2, <1>3
  <2>2. QED
    BY <2>1, <1>17, <1>18
<1>20. \A i \in lost \ (m1 \cup m2 \cup m3) : ts[i].state = "Lost" \/ ts[i].state = "Removed"
  BY <1>1, <1>4, <1>10, <1>11, <1>14
<1>21. \A i \in spawned : ts[i].state = "Tracked" /\ ts[i].frame = frame /\ ts[i].start = frame
  BY <1>6, <1>15
<1>22. QED
  BY <1>13, <1>16, <1>17, <1>19, <1>20, <1>21 DEF Settled, ts

\* What the lists come to: the matched and the spawned are tracked, and what is
\* left of the others is lost, as their states say.
LEMMA MergedLists ==
  ASSUME TrackInv,
         NEW m1, NEW m2, NEW m3, NEW spawned, NEW frame,
         Matching(m1, m2, m3, spawned, frame)
  PROVE  LET ts   == Associated(m1, m2, m3, spawned, frame)
             both == Merged(ts, m1, m2, m3, spawned)
         IN  /\ both.tracked \subseteq m1 \cup m2 \cup m3 \cup spawned
             /\ both.tracked \subseteq Kept \cup spawned
             /\ both.lost \subseteq Kept
             /\ both.tracked \cap both.lost = {}
             /\ \A i \in both.lost : ts[i].state = "Lost"
<1> DEFINE ts   == Associated(m1, m2, m3, spawned, frame)
           both == Merged(ts, m1, m2, m3, spawned)
           lost_now == r_tracked(m1) \ m2
<1> HIDE DEF ts
<1>0. Settled(ts, m1, m2, m3, spawned, frame)
  BY AssociatedStates DEF ts
<1>1. /\ \A i \in m1 \cup m2 \cup m3 : i \in Kept /\ ts[i].state = "Tracked"
      /\ \A i \in tracked \ (m1 \cup m2 \cup m3) : ts[i].state # "Tracked"
      /\ \A i \in lost_now : i \in confirmed /\ i \notin m3 /\ ts[i].state = "Lost"
      /\ \A i \in lost \ (m1 \cup m2 \cup m3) : ts[i].state = "Lost" \/ ts[i].state = "Removed"
  BY <1>0 DEF Settled
<1>2. Kept \cap spawned = {} /\ Kept = tracked \cup lost
  BY DEF TrackInv, ListsAgree, Matching, Kept
<1>3. \A i \in m1 : stracks[i].state = "Tracked" \/ stracks[i].state = "Lost"
  BY DEF TrackInv, ListsAgree, Matching, strack_pool, jointStracks, confirmed
<1>4. both.tracked = m1 \cup m2 \cup m3 \cup spawned
  BY <1>1, <1>3 DEF Merged, jointStracks
<1>5. lost_now \subseteq Kept /\ lost_now \cap both.tracked = {}
  <2>1. lost_now \subseteq tracked
    BY <1>1 DEF confirmed
  <2>2. lost_now \cap (m1 \cup m2 \cup m3) = {}
    BY <1>1 DEF r_tracked
  <2>3. QED
    BY <2>1, <2>2, <1>2, <1>4
<1>6. both.lost = ((lost \ both.tracked) \cup lost_now)
                     \ {i \in unconfirmed \cup lost : ts[i].state = "Removed"}
  BY DEF Merged, subStracks
<1>7. both.lost \subseteq Kept /\ both.tracked \cap both.lost = {}
  BY <1>2, <1>5, <1>6
<1>8. \A i \in both.lost : ts[i].state = "Lost"
  <2> SUFFICES ASSUME NEW i \in both.lost
               PROVE  ts[i].state = "Lost"
    OBVIOUS
  <2>1. CASE i \in lost_now
    BY <2>1, <1>1
  <2>2. CASE i \notin lost_now
    BY <2>2, <1>1, <1>4, <1>6
  <2>3. QED
    BY <2>1, <2>2
<1>9. both.tracked \subseteq Kept \cup spawned
  BY <1>1, <1>4
<1>10. QED
  BY <1>4, <1>7, <1>8, <1>9 DEF ts

\* update(), when it returns.
LEMMA UpdateKeeps ==
  ASSUME TrackInv, UpdateReturns
  PROVE  TrackInv'
<1>1. PICK m1 \in SUBSET strack_pool, m3 \in SUBSET unconfirmed :
        \E m2 \in SUBSET r_tracked(m1), started \in 0..MaxStrong : Associate(m1, m2, m3, started)
  BY DEF UpdateReturns
<1>2. PICK m2 \in SUBSET r_tracked(m1), started \in 0..MaxStrong : Associate(m1, m2, m3, started)
  BY <1>1
<1> DEFINE spawned == id_count + 1 .. id_count + started
           frame == frame_id'
           ts   == Associated(m1, m2, m3, spawned, frame)
           both == Merged(ts, m1, m2, m3, spawned)
<1>3. /\ id_count' = id_count + started
      /\ tracked' \subseteq both.tracked /\ lost' \subseteq both.lost
      /\ stracks' = [i \in tracked' \cup lost' |-> ts[i]]
  BY <1>2 DEF Associate
<1>4. id_count \in Nat /\ started \in Nat /\ frame = frame_id + 1 /\ frame \in Nat
  BY DEF TrackInv, TrackTypes, UpdateReturns
<1>5. spawned \cap (1..id_count) = {} /\ spawned \subseteq 1..id_count'
      /\ 1..id_count \subseteq 1..id_count'
  BY <1>3, <1>4
<1>6. Matching(m1, m2, m3, spawned, frame)
  BY <1>4, <1>5 DEF Matching
<1> HIDE DEF spawned, frame, ts, both
<1>7a. Settled(ts, m1, m2, m3, spawned, frame)
  BY <1>6, AssociatedStates DEF ts
<1>7. /\ ts \in [Kept \cup spawned -> STrack]
      /\ \A i \in spawned : /\ ts[i].state = "Tracked" /\ ts[i].frame = frame
                            /\ ts[i].start = frame
      /\ \A i \in m1 \cup m2 \cup m3 :
           ts[i].state = "Tracked" /\ ts[i].frame = frame /\ ts[i].activated
  BY <1>7a DEF Settled
<1>8. /\ both.tracked \subseteq m1 \cup m2 \cup m3 \cup spawned
      /\ both.tracked \subseteq Kept \cup spawned
      /\ both.lost \subseteq Kept
      /\ both.tracked \cap both.lost = {}
      /\ \A i \in both.lost : ts[i].state = "Lost"
  BY <1>6, MergedLists DEF ts, both
<1>9. /\ tracked' \cup lost' \subseteq Kept \cup spawned
      /\ tracked' \cap lost' = {}
      /\ DOMAIN stracks' = tracked' \cup lost'
      /\ \A i \in tracked' \cup lost' : stracks'[i] = ts[i]
  BY <1>3, <1>8
<1>10. Kept' = tracked' \cup lost'
  BY DEF Kept
<1>11. TrackTypes'
  <2>1. stracks' \in [tracked' \cup lost' -> STrack]
    BY <1>3, <1>7, <1>9
  <2>2. QED
    BY <2>1, <1>3, <1>4, <1>10 DEF TrackTypes, frame
<1>12. ListsAgree'
  <2>1. Kept' \subseteq 1..id_count'
    BY <1>5, <1>9, <1>10 DEF TrackInv, ListsAgree
  <2>2. \A i \in tracked' : stracks'[i].state = "Tracked"
    BY <1>3, <1>7, <1>8, <1>9
  <2>3. \A i \in lost' : stracks'[i].state = "Lost"
    BY <1>3, <1>8, <1>9
  <2>4. QED
    BY <2>1, <2>2, <2>3, <1>9, <1>10 DEF ListsAgree
<1>13. OutputIsFresh'
  <2>1. returned' = frame /\ emitted' = {i \in tracked' : stracks'[i].activated}
    BY DEF UpdateReturns, frame
  <2>2. \A i \in tracked' : stracks'[i].frame = returned'
    BY <2>1, <1>3, <1>7, <1>8, <1>9
  <2>3. \A i \in tracked' : ~stracks'[i].activated => stracks'[i].start = returned'
    BY <2>1, <1>3, <1>7, <1>8, <1>9
  <2>4. QED
    BY <2>1, <2>2, <2>3 DEF OutputIsFresh, activated, confirmed
<1>14. QED
  BY <1>11, <1>12, <1>13 DEF TrackInv

\* update(), when it throws, and reset().
LEMMA ThrowAndResetKeep ==
  ASSUME TrackInv, UpdateThrows \/ reset \/ UNCHANGED trackerVars
  PROVE  TrackInv'
<1>1. CASE UpdateThrows
  BY <1>1 DEF UpdateThrows, TrackInv, TrackTypes, ListsAgree, OutputIsFresh, Kept, activated,
              confirmed
<1>2. CASE reset
  BY <1>2 DEF reset, TrackInv, TrackTypes, ListsAgree, OutputIsFresh, Kept, activated, confirmed
<1>3. CASE UNCHANGED trackerVars
  BY <1>3 DEF trackerVars, TrackInv, TrackTypes, ListsAgree, OutputIsFresh, Kept, activated,
              confirmed
<1>4. QED
  BY <1>1, <1>2, <1>3

\* The tracker's inductive invariant: whatever the associations match, start
\* and drop in update(), whenever it throws and whenever it is reset.
THEOREM TrackerInvariant == TrackerSpec => []TrackInv
<1>1. TrackerInit => TrackInv
  BY DEF TrackerInit, TrackInv, TrackTypes, ListsAgree, OutputIsFresh, Kept, activated, confirmed
<1>2. TrackInv /\ [TrackerNext]_trackerVars => TrackInv'
  <2> SUFFICES ASSUME TrackInv, [TrackerNext]_trackerVars
               PROVE  TrackInv'
    OBVIOUS
  <2>1. CASE UpdateReturns
    BY <2>1, UpdateKeeps
  <2>2. CASE UpdateThrows \/ reset \/ UNCHANGED trackerVars
    BY <2>2, ThrowAndResetKeep
  <2>3. QED
    BY <2>1, <2>2 DEF TrackerNext
<1>3. QED
  BY <1>1, <1>2, PTL DEF TrackerSpec

\* tracked_stracks_ and lost_stracks_ stay disjoint and agree with the tracks'
\* own states, although joint/subStracks(), the state filter and the removal
\* of duplicates each decide on their own.
THEOREM TrackListsAgree == TrackerSpec => []ListsAgree
<1>1. TrackInv => ListsAgree
  BY DEF TrackInv
<1>2. QED
  BY <1>1, TrackerInvariant, PTL

\* update() returns no stale box: what it emits was matched in, or started by,
\* the very call that returned it, for every number of tracks.
THEOREM TrackOutputIsFresh == TrackerSpec => []OutputIsFresh
<1>1. TrackInv => OutputIsFresh
  BY DEF TrackInv
<1>2. QED
  BY <1>1, TrackerInvariant, PTL

-----------------------------------------------------------------------------
(* The buffer of the lost.  A track is lost at the age of the calls that    *)
(* threw since the last one that returned, and kept until it expires.       *)

LostAges ==
  /\ returned \in Nat /\ thrown \in Nat
  /\ returned <= frame_id /\ frame_id <= returned + thrown
  /\ \A i \in lost :
       /\ 1 <= returned - stracks[i].frame
       /\ \/ returned - stracks[i].frame <= max_time_lost
          \/ returned - stracks[i].frame <= 1 + thrown

\* A track that is lost after the associations was tracked or, if it was lost
\* before, has not expired; its last match is what it was.
LEMMA LostStay ==
  ASSUME TrackInv,
         NEW m1, NEW m2, NEW m3, NEW spawned, NEW frame,
         Matching(m1, m2, m3, spawned, frame)
  PROVE  LET ts   == Associated(m1, m2, m3, spawned, frame)
             both == Merged(ts, m1, m2, m3, spawned)
         IN  \A i \in both.lost :
               /\ i \in Kept /\ ts[i].frame = stracks[i].frame
               /\ i \in tracked \/ (i \in lost /\ ~Expired(i, stracks, frame))
<1> DEFINE ts   == Associated(m1, m2, m3, spawned, frame)
           both == Merged(ts, m1, m2, m3, spawned)
           put(t, s) == [t EXCEPT !.state = s]
<1> SUFFICES ASSUME NEW i \in both.lost
             PROVE  /\ i \in Kept /\ ts[i].frame = stracks[i].frame
                    /\ i \in tracked \/ (i \in lost /\ ~Expired(i, stracks, frame))
  OBVIOUS
<1>1. /\ i \in Kept /\ ts[i].state = "Lost" /\ i \notin both.tracked
  BY MergedLists
<1>2. Settled(ts, m1, m2, m3, spawned, frame)
  BY AssociatedStates
<1>3. i \notin spawned /\ stracks[i] \in STrack
  BY <1>1 DEF Matching, TrackInv, ListsAgree, TrackTypes
<1>4. both.tracked = {j \in tracked : ts[j].state = "Tracked"} \cup m1 \cup m2 \cup m3 \cup spawned
  <2>1. \A j \in m1 : stracks[j].state = "Tracked" \/ stracks[j].state = "Lost"
    BY DEF TrackInv, ListsAgree, Matching, strack_pool, jointStracks, confirmed
  <2>. HIDE DEF ts
  <2>. QED
    BY <2>1 DEF Merged, jointStracks
<1>5. i \notin m1 \cup m2 \cup m3
  BY <1>1, <1>4
<1>6. ts[i] = IF i \in r_tracked(m1) \ m2 THEN put(stracks[i], "Lost")
              ELSE IF i \in unconfirmed \/ (i \in lost /\ Expired(i, stracks, frame))
              THEN put(stracks[i], "Removed") ELSE stracks[i]
  <2>. HIDE DEF put
  <2>. QED
    BY <1>1, <1>3, <1>5 DEF Associated, put
<1>. HIDE DEF ts, both
<1>7. \A t \in STrack : /\ put(t, "Lost").frame = t.frame
                        /\ put(t, "Removed").state = "Removed"
                        /\ put(t, "Removed").frame = t.frame
  BY DEF STrack
<1>. HIDE DEF put
<1>8. ts[i].frame = stracks[i].frame
  BY <1>3, <1>6, <1>7
<1>9. i \in tracked \/ i \in lost
  BY <1>1 DEF Kept
<1>10. ASSUME i \notin tracked PROVE ~Expired(i, stracks, frame)
  <2>1. i \notin r_tracked(m1)
    BY <1>10, <1>9 DEF r_tracked, strack_pool, jointStracks, confirmed, TrackInv, ListsAgree
  <2>. QED
    BY <1>1, <1>3, <1>6, <1>7, <1>9, <1>10, <2>1
<1>. QED
  BY <1>1, <1>8, <1>9, <1>10

LEMMA UpdateKeepsAges ==
  ASSUME TrackInv, LostAges, UpdateReturns
  PROVE  LostAges'
<1>1. PICK m1 \in SUBSET strack_pool, m3 \in SUBSET unconfirmed :
        \E m2 \in SUBSET r_tracked(m1), started \in 0..MaxStrong : Associate(m1, m2, m3, started)
  BY DEF UpdateReturns
<1>2. PICK m2 \in SUBSET r_tracked(m1), started \in 0..MaxStrong : Associate(m1, m2, m3, started)
  BY <1>1
<1>3. /\ frame_id \in Nat /\ id_count \in Nat /\ started \in Nat
      /\ frame_id' = frame_id + 1 /\ returned' = frame_id' /\ thrown' = thrown
  BY DEF TrackInv, TrackTypes, UpdateReturns
<1>4. PICK frame \in Nat : frame = frame_id + 1
  BY <1>3
<1> DEFINE spawned == id_count + 1 .. id_count + started
           ts   == Associated(m1, m2, m3, spawned, frame)
           both == Merged(ts, m1, m2, m3, spawned)
<1>5. /\ tracked' \subseteq both.tracked /\ lost' \subseteq both.lost
      /\ stracks' = [i \in tracked' \cup lost' |-> ts[i]]
  BY <1>2, <1>3, <1>4 DEF Associate
<1>6. Matching(m1, m2, m3, spawned, frame)
  BY <1>3 DEF Matching
<1> HIDE DEF spawned, ts, both
<1>7. \A i \in both.lost :
        /\ i \in Kept /\ ts[i].frame = stracks[i].frame
        /\ i \in tracked \/ (i \in lost /\ ~Expired(i, stracks, frame))
  BY <1>6, LostStay DEF ts, both
<1>8. /\ returned \in Nat /\ thrown \in Nat /\ max_time_lost \in Nat
      /\ returned <= frame_id /\ frame_id <= returned + thrown
  BY BufferAssumption DEF LostAges
<1>9. ASSUME NEW i \in lost'
      PROVE  /\ 1 <= frame - stracks'[i].frame
             /\ \/ frame - stracks'[i].frame <= max_time_lost
                \/ frame - stracks'[i].frame <= 1 + thrown
  <2>1. /\ stracks'[i].frame = stracks[i].frame /\ stracks[i].frame \in Nat
        /\ i \in tracked \/ (i \in lost /\ ~Expired(i, stracks, frame))
    <3>1. stracks'[i] = ts[i] /\ i \in both.lost
      BY <1>5
    <3>2. i \in Kept => stracks[i].frame \in Nat
      BY DEF TrackInv, TrackTypes, STrack
    <3>. QED
      BY <1>7, <3>1, <3>2
  <2>2. CASE i \in tracked
    <3>1. stracks[i].frame = returned
      BY <2>2 DEF TrackInv, OutputIsFresh
    <3>. QED
      BY <1>3, <1>4, <1>8, <2>1, <3>1
  <2>3. CASE i \in lost /\ ~Expired(i, stracks, frame)
    <3>1. frame - stracks[i].frame <= max_time_lost
      BY <1>8, <2>1, <2>3 DEF Expired
    <3>2. 1 <= returned - stracks[i].frame
      BY <2>3 DEF LostAges
    <3>. QED
      BY <1>3, <1>4, <1>8, <2>1, <3>1, <3>2
  <2>. QED
    BY <2>1, <2>2, <2>3
<1>10. returned' = frame
  BY <1>3, <1>4
<1>11. /\ returned' \in Nat /\ thrown' \in Nat
       /\ returned' <= frame_id' /\ frame_id' <= returned' + thrown'
  BY <1>3, <1>8
<1>. QED
  BY <1>3, <1>9, <1>10, <1>11 DEF LostAges

LEMMA LostAgesStep == TrackInv /\ LostAges /\ [TrackerNext]_trackerVars => LostAges'
<1> SUFFICES ASSUME TrackInv, LostAges, [TrackerNext]_trackerVars PROVE LostAges'
  OBVIOUS
<1>1. CASE UpdateReturns
  BY <1>1, UpdateKeepsAges
<1>2. CASE UpdateThrows
  <2>1. /\ frame_id' = frame_id + 1 /\ thrown' = thrown + 1 /\ returned' = returned
        /\ lost' = lost /\ stracks' = stracks /\ frame_id \in Nat
    BY <1>2 DEF UpdateThrows, TrackInv, TrackTypes
  <2>2. \A i \in lost : stracks[i].frame \in Nat
    BY DEF TrackInv, TrackTypes, STrack, Kept
  <2>. QED
    BY <2>1, <2>2 DEF LostAges
<1>3. CASE reset
  BY <1>3 DEF reset, LostAges
<1>4. CASE UNCHANGED trackerVars
  BY <1>4 DEF trackerVars, LostAges
<1>. QED
  BY <1>1, <1>2, <1>3, <1>4 DEF TrackerNext

\* What LostAges says is the bound the buffer promises.
LEMMA AgesAreBounded == TrackInv /\ LostAges => LostWithinBuffer
<1> SUFFICES ASSUME TrackInv, LostAges, NEW i \in lost
             PROVE  returned - stracks[i].frame \in 1..Max({max_time_lost, 1 + thrown})
  BY DEF LostWithinBuffer
<1>1. /\ stracks[i].frame \in Nat /\ returned \in Nat /\ thrown \in Nat
      /\ max_time_lost \in Nat
  BY BufferAssumption DEF TrackInv, TrackTypes, STrack, Kept, LostAges
<1>2. ASSUME NEW a \in Nat, NEW b \in Nat
      PROVE  Max({a, b}) \in Nat /\ Max({a, b}) >= a /\ Max({a, b}) >= b
  <2>1. \E x \in {a, b} : \A y \in {a, b} : x >= y
    OBVIOUS
  <2>. QED
    BY <2>1 DEF Max
<1>3. PICK limit \in Nat : /\ limit = Max({max_time_lost, 1 + thrown})
                           /\ limit >= max_time_lost /\ limit >= 1 + thrown
  BY <1>1, <1>2
<1>. QED
  BY <1>1, <1>3 DEF LostAges

\* A lost track waits no longer than the buffer, or the calls that threw and
\* could match nothing, allow, whatever the order of updates and exceptions.
THEOREM LostTracksExpire == TrackerSpec => []LostWithinBuffer
<1>1. TrackerInit => LostAges
  BY DEF TrackerInit, LostAges
<1>2. TrackInv /\ TrackInv' /\ LostAges /\ [TrackerNext]_trackerVars => LostAges'
  BY LostAgesStep
<1>3. TrackInv /\ LostAges => LostWithinBuffer
  BY AgesAreBounded
<1>. QED
  BY <1>1, <1>2, <1>3, TrackerInvariant, PTL DEF TrackerSpec

-----------------------------------------------------------------------------
(* The other side of the buffer.  A track that goes as a duplicate goes for  *)
(* one that lives on: the overlaps may form chains, but lives are bounded by *)
(* the frames counted, so the longest of a chain is not a duplicate of any.  *)

LEMMA LeastNatural ==
  ASSUME NEW T \in SUBSET Nat, T # {}
  PROVE  \E m \in T : \A n \in T : m <= n
<1> DEFINE R == {ss \in Nat \X Nat : ss[1] < ss[2]}
<1>1. IsWellFoundedOn(R, Nat)
  BY NatLessThanWellFounded DEF OpToRel
<1> HIDE DEF R
<1>2. PICK m \in T : \A n \in T : <<n, m>> \notin R
  BY <1>1, WFMin
<1>3. \A n \in T : ~(n < m)
  BY <1>2 DEF R
<1>. QED
  BY <1>3

LEMMA LongestLived ==
  ASSUME NEW S, S # {}, NEW f \in Nat, NEW life, \A j \in S : life[j] \in Int /\ life[j] <= f
  PROVE  \E m \in S : \A j \in S : life[j] <= life[m]
<1> DEFINE T == {f - life[j] : j \in S}
<1>1. T \in SUBSET Nat /\ T # {}
  OBVIOUS
<1> HIDE DEF T
<1>2. PICK least \in T : \A n \in T : least <= n
  BY <1>1, LeastNatural
<1>3. PICK m \in S : least = f - life[m]
  BY DEF T
<1>4. \A j \in S : f - life[j] \in T
  BY DEF T
<1>. QED
  BY <1>2, <1>3, <1>4

\* Of two lists whose duplicates have gone, for every track that went one is
\* left that has lived as long, and longer if it went from the second.
Survivors(A, B, ts, overlap) ==
  (A \ duplicates(ts, overlap).dupa) \cup (B \ duplicates(ts, overlap).dupb)

Outlived(A, B, ts, overlap, i) ==
  \E j \in Survivors(A, B, ts, overlap) :
    /\ Lifetime(ts[j]) >= Lifetime(ts[i])
    /\ i \in B => Lifetime(ts[j]) > Lifetime(ts[i])

LEMMA SurvivorOutlives ==
  ASSUME NEW A, NEW B, NEW ts, NEW overlap \in SUBSET (A \X B), NEW f \in Nat, NEW i \in A \cup B,
         \A j \in A \cup B : Lifetime(ts[j]) \in Int /\ Lifetime(ts[j]) <= f,
         i \notin Survivors(A, B, ts, overlap)
  PROVE  Outlived(A, B, ts, overlap, i)
<1> DEFINE life == [j \in A \cup B |-> Lifetime(ts[j])]
           dupa == duplicates(ts, overlap).dupa
           dupb == duplicates(ts, overlap).dupb
<1>1. /\ \A a \in dupa : \E b \in B : life[a] <= life[b]
      /\ \A b \in dupb : \E a \in A : life[a] > life[b]
  BY DEF duplicates
<1>2. \A j \in A \cup B : life[j] = Lifetime(ts[j]) /\ life[j] \in Int /\ life[j] <= f
  OBVIOUS
<1> HIDE DEF life, dupa, dupb
<1>3. PICK m \in A \cup B : \A j \in A \cup B : life[j] <= life[m]
  BY <1>2, LongestLived
<1>4. m \notin dupb
  BY <1>1, <1>2, <1>3
<1>5. \E j \in (A \ dupa) \cup (B \ dupb) : life[j] = life[m]
  <2>1. CASE m \in dupa
    <3>1. PICK b \in B : life[m] <= life[b]
      BY <1>1, <2>1
    <3>2. life[b] = life[m]
      BY <1>2, <1>3, <3>1
    <3>3. b \notin dupb
      BY <1>1, <1>2, <1>3, <3>2
    <3>. QED
      BY <3>2, <3>3
  <2>2. CASE m \notin dupa
    BY <1>4, <2>2
  <2>. QED
    BY <2>1, <2>2
<1>6. PICK j \in (A \ dupa) \cup (B \ dupb) : life[j] = life[m]
  BY <1>5
<1>7. life[j] >= life[i]
  BY <1>2, <1>3, <1>6
<1>8. ASSUME i \in B PROVE life[j] > life[i]
  <2>1. i \in dupb
    BY <1>8 DEF dupb, Survivors
  <2>2. PICK a \in A : life[a] > life[i]
    BY <1>1, <2>1
  <2>. QED
    BY <1>2, <1>3, <1>6, <2>2
<1>. QED
  BY <1>2, <1>6, <1>7, <1>8 DEF dupa, dupb, Survivors, Outlived

\* A track keeps the frame it started in, the frame of its last match if it is
\* not matched, and if it was lost its place until it has expired.
LEMMA LivesGoOn ==
  ASSUME TrackInv,
         NEW m1, NEW m2, NEW m3, NEW spawned, NEW frame,
         Matching(m1, m2, m3, spawned, frame), NEW i \in Kept
  PROVE  LET ts == Associated(m1, m2, m3, spawned, frame)
         IN  /\ ts[i].start = stracks[i].start
             /\ i \notin m1 \cup m2 \cup m3 => ts[i].frame = stracks[i].frame
             /\ i \in lost /\ i \notin m1 /\ ts[i].state = "Removed" => Expired(i, stracks, frame)
<1> DEFINE ts == Associated(m1, m2, m3, spawned, frame)
           put(t, s) == [t EXCEPT !.state = s]
<1>1. i \notin spawned /\ stracks[i] \in STrack
  BY DEF Matching, TrackInv, ListsAgree, TrackTypes
<1>2. ts[i] = IF i \in m1 \cup m2 \cup m3 THEN matched(stracks[i], frame)
              ELSE IF i \in r_tracked(m1) \ m2 THEN put(stracks[i], "Lost")
              ELSE IF i \in unconfirmed \/ (i \in lost /\ Expired(i, stracks, frame))
              THEN put(stracks[i], "Removed") ELSE stracks[i]
  <2>. HIDE DEF put
  <2>. QED
    BY <1>1 DEF Associated, put
<1>. HIDE DEF ts
<1>3. \A t \in STrack : /\ put(t, "Lost").frame = t.frame /\ put(t, "Lost").start = t.start
                        /\ put(t, "Lost").state = "Lost"
                        /\ put(t, "Removed").frame = t.frame /\ put(t, "Removed").start = t.start
                        /\ matched(t, frame).start = t.start
  BY DEF STrack, matched
<1>. HIDE DEF put
<1>4. ts[i].start = stracks[i].start
  BY <1>1, <1>2, <1>3
<1>5. i \notin m1 \cup m2 \cup m3 => ts[i].frame = stracks[i].frame
  BY <1>1, <1>2, <1>3
<1>6. ASSUME i \in lost, i \notin m1, ts[i].state = "Removed"
      PROVE  Expired(i, stracks, frame)
  <2>1. i \notin tracked /\ stracks[i].state = "Lost"
    BY <1>6 DEF TrackInv, ListsAgree
  <2>2. i \notin r_tracked(m1)
    BY <2>1 DEF r_tracked
  <2>3. i \notin unconfirmed /\ i \notin m2 /\ i \notin m3
    BY <2>1, <2>2 DEF unconfirmed, Matching
  <2>. QED
    BY <1>2, <1>6, <2>1, <2>2, <2>3
<1>. QED
  BY <1>4, <1>5, <1>6 DEF ts

\* What one call may do to the lost tracks.
LostWait ==
  \A i \in lost \ Kept' :
    \/ frame_id' = 0
    \/ frame_id' - stracks[i].frame > max_time_lost
    \/ \E j \in Kept' : Lifetime(stracks'[j]) > Lifetime(stracks[i])

LEMMA UpdateLetsThemWait ==
  ASSUME TrackInv, LostAges, UpdateReturns
  PROVE  LostWait
<1>1. PICK m1 \in SUBSET strack_pool, m3 \in SUBSET unconfirmed :
        \E m2 \in SUBSET r_tracked(m1), started \in 0..MaxStrong : Associate(m1, m2, m3, started)
  BY DEF UpdateReturns
<1>2. PICK m2 \in SUBSET r_tracked(m1), started \in 0..MaxStrong : Associate(m1, m2, m3, started)
  BY <1>1
<1>3. frame_id \in Nat /\ id_count \in Nat /\ started \in Nat /\ frame_id' = frame_id + 1
  BY DEF TrackInv, TrackTypes, UpdateReturns
<1>4. PICK frame \in Nat : frame = frame_id + 1
  BY <1>3
<1> DEFINE spawned == id_count + 1 .. id_count + started
           ts   == Associated(m1, m2, m3, spawned, frame)
           both == Merged(ts, m1, m2, m3, spawned)
<1>5. PICK overlap \in SUBSET (both.tracked \X both.lost) :
        /\ tracked' = both.tracked \ duplicates(ts, overlap).dupa
        /\ lost' = both.lost \ duplicates(ts, overlap).dupb
        /\ stracks' = [i \in tracked' \cup lost' |-> ts[i]]
  BY <1>2, <1>3, <1>4 DEF Associate
<1>6. Matching(m1, m2, m3, spawned, frame) /\ spawned \subseteq Nat
  BY <1>3 DEF Matching
<1> HIDE DEF spawned
<1>7. /\ both.tracked \subseteq m1 \cup m2 \cup m3 \cup spawned
      /\ both.tracked \subseteq Kept \cup spawned
      /\ both.lost \subseteq Kept
  BY <1>6, MergedLists
<1>8. Settled(ts, m1, m2, m3, spawned, frame)
  BY <1>6, AssociatedStates
<1>9. \A i \in Kept :
        /\ ts[i].start = stracks[i].start
        /\ i \notin m1 \cup m2 \cup m3 => ts[i].frame = stracks[i].frame
        /\ i \in lost /\ i \notin m1 /\ ts[i].state = "Removed" => Expired(i, stracks, frame)
  BY <1>6, LivesGoOn
<1>10. \A i \in lost : i \notin m1 => i \in both.lost \/ ts[i].state = "Removed"
  <2> SUFFICES ASSUME NEW i \in lost, i \notin m1, ts[i].state # "Removed"
               PROVE  i \in both.lost
    OBVIOUS
  <2>1. i \notin tracked /\ i \in Kept /\ stracks[i].state = "Lost"
    BY DEF TrackInv, ListsAgree, Kept
  <2>2. i \notin m2 /\ i \notin m3 /\ i \notin spawned
    BY <1>6, <2>1 DEF Matching, r_tracked, unconfirmed, TrackInv, ListsAgree
  <2>3. i \notin both.tracked
    BY <1>7, <2>2
  <2>. HIDE DEF ts
  <2>. QED
    BY <2>3 DEF Merged, jointStracks, subStracks
<1>11. \A i \in lost : i \in m1 => i \in both.tracked
  <2>1. \A j \in m1 : stracks[j].state = "Tracked" \/ stracks[j].state = "Lost"
    BY <1>6 DEF TrackInv, ListsAgree, Matching, strack_pool, jointStracks, confirmed
  <2>. HIDE DEF ts
  <2>. QED
    BY <2>1 DEF Merged, jointStracks
<1> HIDE DEF ts, both
<1>12. \A i \in Kept : /\ stracks[i].frame \in Nat /\ stracks[i].start \in Nat
                       /\ stracks[i].frame <= frame_id
  <2>1. \A i \in Kept : stracks[i].frame \in Nat /\ stracks[i].start \in Nat
    BY DEF TrackInv, TrackTypes, STrack
  <2>2. \A i \in tracked : stracks[i].frame = returned
    BY DEF TrackInv, OutputIsFresh
  <2>3. \A i \in lost : 1 <= returned - stracks[i].frame
    BY DEF LostAges
  <2>4. returned \in Nat /\ returned <= frame_id
    BY DEF LostAges
  <2>. QED
    BY <1>3, <2>1, <2>2, <2>3, <2>4 DEF Kept
<1>13. \A i \in both.tracked \cup both.lost :
         /\ ts[i].frame \in Nat /\ ts[i].start \in Nat /\ ts[i].frame <= frame
  <2> SUFFICES ASSUME NEW i \in both.tracked \cup both.lost
               PROVE  ts[i].frame \in Nat /\ ts[i].start \in Nat /\ ts[i].frame <= frame
    OBVIOUS
  <2>1. ts[i] \in STrack
    BY <1>7, <1>8 DEF Settled
  <2>2. ts[i].frame = frame \/ (i \in Kept /\ ts[i].frame = stracks[i].frame)
    BY <1>7, <1>8, <1>9 DEF Settled
  <2>3. ts[i].frame <= frame
    BY <1>3, <1>4, <1>12, <2>2
  <2>. QED
    BY <2>1, <2>3 DEF STrack
<1>14. \A i \in both.tracked \cup both.lost :
         Lifetime(ts[i]) \in Int /\ Lifetime(ts[i]) <= frame
  BY <1>13 DEF Lifetime
<1>15. Kept' = tracked' \cup lost' /\ \A j \in Kept' : stracks'[j] = ts[j]
  BY <1>5 DEF Kept
<1>16. ASSUME NEW i \in lost, i \notin Kept'
       PROVE  \/ frame_id' - stracks[i].frame > max_time_lost
              \/ \E j \in Kept' : Lifetime(stracks'[j]) > Lifetime(stracks[i])
  <2>0. i \in Kept
    BY DEF Kept
  <2>1. CASE i \notin m1 /\ ts[i].state = "Removed"
    <3>1. Expired(i, stracks, frame)
      BY <1>9, <2>0, <2>1
    <3>. QED
      BY <1>3, <1>4, <3>1 DEF Expired
  <2>2. CASE i \in both.tracked \cup both.lost
    <3>1. PICK j \in Kept' : /\ Lifetime(ts[j]) >= Lifetime(ts[i])
                             /\ i \in both.lost => Lifetime(ts[j]) > Lifetime(ts[i])
      <4>1. Kept' = Survivors(both.tracked, both.lost, ts, overlap)
        BY <1>5, <1>15 DEF Survivors
      <4>2. overlap \in SUBSET (both.tracked \X both.lost)
        BY <1>5
      <4>3. Outlived(both.tracked, both.lost, ts, overlap, i)
        BY <1>14, <1>16, <2>2, <4>1, <4>2, SurvivorOutlives
      <4>. QED
        BY <4>1, <4>3 DEF Outlived
    <3>2. Lifetime(ts[j]) \in Int /\ Lifetime(ts[i]) \in Int /\ Lifetime(stracks[i]) \in Int
      <4>1. j \in both.tracked \cup both.lost
        BY <1>5, <1>15
      <4>. QED
        BY <1>12, <1>14, <2>0, <2>2, <4>1 DEF Lifetime
    <3>3. i \in m1 \cup m2 \cup m3 => Lifetime(ts[i]) > Lifetime(stracks[i])
      <4> SUFFICES ASSUME i \in m1 \cup m2 \cup m3
                   PROVE  Lifetime(ts[i]) > Lifetime(stracks[i])
        OBVIOUS
      <4>1. ts[i].frame = frame /\ ts[i].start = stracks[i].start
        BY <1>8, <1>9, <2>0 DEF Settled
      <4>. QED
        BY <1>3, <1>4, <1>12, <2>0, <4>1 DEF Lifetime
    <3>4. i \notin m1 \cup m2 \cup m3 => /\ i \in both.lost
                                         /\ Lifetime(ts[i]) = Lifetime(stracks[i])
      <4> SUFFICES ASSUME i \notin m1 \cup m2 \cup m3
                   PROVE  i \in both.lost /\ Lifetime(ts[i]) = Lifetime(stracks[i])
        OBVIOUS
      <4>1. i \notin spawned
        BY <1>6, <2>0 DEF Matching, TrackInv, ListsAgree
      <4>2. i \in both.lost
        BY <1>7, <2>2, <4>1
      <4>3. ts[i].frame = stracks[i].frame /\ ts[i].start = stracks[i].start
        BY <1>9, <2>0
      <4>. QED
        BY <4>2, <4>3 DEF Lifetime
    <3>5. Lifetime(ts[j]) > Lifetime(stracks[i])
      BY <3>1, <3>2, <3>3, <3>4
    <3>. QED
      BY <1>15, <3>5
  <2>. QED
    BY <1>10, <1>11, <2>1, <2>2
<1>. QED
  BY <1>16 DEF LostWait

LEMMA LostWaitStep == TrackInv /\ LostAges /\ [TrackerNext]_trackerVars => [LostWait]_trackerVars
<1> SUFFICES ASSUME TrackInv, LostAges, TrackerNext PROVE LostWait
  OBVIOUS
<1>1. CASE UpdateReturns
  BY <1>1, UpdateLetsThemWait
<1>2. CASE UpdateThrows
  BY <1>2 DEF UpdateThrows, LostWait, Kept
<1>3. CASE reset
  BY <1>3 DEF reset, LostWait
<1>. QED
  BY <1>1, <1>2, <1>3 DEF TrackerNext

\* No lost track is given up early: it stays until its buffer is over, unless
\* it is found again, reset, or outlived by a duplicate that stays, for every
\* number of tracks and every pattern of overlaps.
THEOREM LostTracksWait == TrackerSpec => LostUntilExpiry
<1>1. TrackerInit => LostAges
  BY DEF TrackerInit, LostAges
<1>2. TrackInv /\ LostAges /\ [TrackerNext]_trackerVars => LostAges'
  BY LostAgesStep
<1>3. TrackInv /\ LostAges /\ [TrackerNext]_trackerVars => [LostWait]_trackerVars
  BY LostWaitStep
<1>. QED
  BY <1>1, <1>2, <1>3, TrackerInvariant, PTL DEF TrackerSpec, LostUntilExpiry, LostWait

\* "Lost tracklets are kept for frame_rate/30 * track_buffer frames before
\* being permanently removed" (byte_tracker.h): both sides.
THEOREM LostTracksAreKept == TrackerSpec => LostForItsBuffer
BY LostTracksExpire, LostTracksWait DEF LostForItsBuffer

-----------------------------------------------------------------------------
(* The pipeline.                                                           *)

Full == {i \in DOMAIN embeddings_ : embeddings_[i] # 0}

PipelineTypes ==
  /\ last_dets_ \in Seq({"embed", "skip"}) /\ embeddings_ \in Seq(Nat)
  /\ last_embed_count_ \in Nat /\ call \in Nat /\ crop \in Nat \ {0}
  /\ stage \notin {"idle", "alone"} => call > 0

\* While the crops are gone through, the entries behind `crop` are settled and
\* those from it on are still empty.
CropsInv ==
  stage = "crops" \/ (stage = "update" /\ reid_) =>
    /\ Len(embeddings_) = Len(last_dets_)
    /\ \A i \in Full : embeddings_[i] = call /\ last_dets_[i] = "embed"
    /\ IsFiniteSet(Full) /\ last_embed_count_ = Cardinality(Full)
    /\ max_crops > 0 => last_embed_count_ <= max_crops
    /\ stage = "crops" => \A i \in Full : i < crop

PipelineInv == PipelineTypes /\ CropsInv

LEMMA DetectedSeq ==
  ASSUME NEW strong \in Nat, NEW weak \in Nat
  PROVE  [i \in 1..strong + weak |-> IF i <= strong THEN "embed" ELSE "skip"]
           \in Seq({"embed", "skip"})
OBVIOUS

LEMMA EmbeddingStarts == PipelineInv /\ StartEmbedding => PipelineInv'
<1> SUFFICES ASSUME PipelineInv, StartEmbedding PROVE PipelineInv'
  OBVIOUS
<1>1. /\ Len(last_dets_) \in Nat /\ last_dets_' = last_dets_ /\ call' = call
      /\ embeddings_' = [i \in 1..Len(last_dets_) |-> 0]
      /\ last_embed_count_' = 0 /\ crop' = 1 /\ stage = "embed"
      /\ stage' \in {"crops", "idle"}
  BY LenProperties DEF StartEmbedding, PipelineInv, PipelineTypes, Leave
<1>2. embeddings_' \in Seq(Nat) /\ Len(embeddings_') = Len(last_dets_)
  BY <1>1
<1>3. Full' = {}
  BY <1>1 DEF Full
<1>4. IsFiniteSet(Full') /\ Cardinality(Full') = 0
  BY <1>3, FS_EmptySet
<1>5. PipelineTypes'
  BY <1>1, <1>2 DEF PipelineInv, PipelineTypes
<1>6. max_crops > 0 => 0 <= max_crops
  BY CropsAssumption
<1>7. CropsInv'
  BY <1>1, <1>2, <1>3, <1>4, <1>6 DEF CropsInv
<1>. QED
  BY <1>5, <1>7 DEF PipelineInv

LEMMA CropKeeps == PipelineInv /\ EmbedCrop => PipelineInv'
<1> SUFFICES ASSUME PipelineInv, EmbedCrop PROVE PipelineInv'
  OBVIOUS
<1>1. /\ stage = "crops" /\ stage' = stage /\ crop' = crop + 1 /\ call' = call
      /\ last_dets_' = last_dets_ /\ crop \in Nat \ {0} /\ call \in Nat /\ call > 0
      /\ last_embed_count_ \in Nat /\ embeddings_ \in Seq(Nat)
      /\ last_dets_ \in Seq({"embed", "skip"})
  BY DEF EmbedCrop, PipelineInv, PipelineTypes
<1>2. /\ Len(embeddings_) = Len(last_dets_)
      /\ \A i \in Full : embeddings_[i] = call /\ last_dets_[i] = "embed"
      /\ IsFiniteSet(Full) /\ last_embed_count_ = Cardinality(Full)
      /\ max_crops > 0 => last_embed_count_ <= max_crops
      /\ \A i \in Full : i < crop
  BY <1>1 DEF PipelineInv, CropsInv
<1>3. /\ Len(last_dets_) \in Nat /\ crop \in 1..Len(embeddings_)
      /\ max_crops > 0 => last_embed_count_ < max_crops
  BY <1>1, <1>2, LenProperties, CropsAssumption DEF EmbedCrop, CropsDone
<1>4. /\ DOMAIN embeddings_ = 1..Len(embeddings_)
      /\ \A i \in 1..Len(embeddings_) : embeddings_[i] \in Nat
  BY <1>1, LenProperties, ElementOfSeq
<1>5. crop \notin Full
  BY <1>1, <1>2
<1>6. ASSUME NEW v \in Nat, embeddings_' = [embeddings_ EXCEPT ![crop] = v]
      PROVE  /\ embeddings_' \in Seq(Nat) /\ Len(embeddings_') = Len(embeddings_)
             /\ Full' = IF v = 0 THEN Full ELSE Full \cup {crop}
             /\ embeddings_'[crop] = v
             /\ \A i \in Full : embeddings_'[i] = embeddings_[i]
  <2>1. embeddings_' \in Seq(Nat) /\ Len(embeddings_') = Len(embeddings_)
    BY <1>1, <1>3, <1>6, ExceptSeq
  <2>2. /\ DOMAIN embeddings_' = DOMAIN embeddings_ /\ crop \in DOMAIN embeddings_
        /\ \A i \in DOMAIN embeddings_ :
             embeddings_'[i] = IF i = crop THEN v ELSE embeddings_[i]
    BY <1>3, <1>4, <1>6
  <2>. QED
    BY <1>5, <2>1, <2>2 DEF Full
<1>7. CASE /\ last_dets_[crop] = "embed"
           /\ embeddings_' = [embeddings_ EXCEPT ![crop] = call]
           /\ last_embed_count_' = last_embed_count_ + 1
  <2>1. /\ embeddings_' \in Seq(Nat) /\ Len(embeddings_') = Len(embeddings_)
        /\ Full' = Full \cup {crop} /\ embeddings_'[crop] = call
        /\ \A i \in Full : embeddings_'[i] = embeddings_[i]
    <3>1. PICK v \in Nat : v = call
      BY <1>1
    <3>2. v # 0 /\ embeddings_' = [embeddings_ EXCEPT ![crop] = v]
      BY <1>1, <1>7, <3>1
    <3>3. /\ embeddings_' \in Seq(Nat) /\ Len(embeddings_') = Len(embeddings_)
          /\ Full' = IF v = 0 THEN Full ELSE Full \cup {crop}
          /\ embeddings_'[crop] = v
          /\ \A i \in Full : embeddings_'[i] = embeddings_[i]
      BY <1>6, <3>2
    <3>. QED
      BY <3>1, <3>2, <3>3
  <2>2. IsFiniteSet(Full') /\ Cardinality(Full') = Cardinality(Full) + 1
    BY <1>2, <1>5, <2>1, FS_AddElement
  <2>3. PipelineTypes'
    BY <1>1, <1>7, <2>1 DEF PipelineTypes
  <2>4. \A i \in Full' : embeddings_'[i] = call /\ last_dets_[i] = "embed" /\ i < crop + 1
    BY <1>1, <1>2, <1>4, <1>7, <2>1 DEF Full
  <2>5. max_crops > 0 => last_embed_count_ + 1 <= max_crops
    BY <1>1, <1>3, CropsAssumption
  <2>6. CropsInv'
    BY <1>1, <1>2, <1>7, <2>1, <2>2, <2>4, <2>5 DEF CropsInv
  <2>. QED
    BY <2>3, <2>6 DEF PipelineInv
<1>8. CASE /\ embeddings_' = [embeddings_ EXCEPT ![crop] = 0]
           /\ last_embed_count_' = last_embed_count_
  <2>1. /\ embeddings_' \in Seq(Nat) /\ Len(embeddings_') = Len(embeddings_)
        /\ Full' = Full /\ \A i \in Full : embeddings_'[i] = embeddings_[i]
    BY <1>6, <1>8
  <2>2. PipelineTypes'
    BY <1>1, <1>8, <2>1 DEF PipelineTypes
  <2>3. \A i \in Full : i < crop + 1
    BY <1>1, <1>2, <1>4 DEF Full
  <2>4. CropsInv'
    BY <1>1, <1>2, <1>8, <2>1, <2>3 DEF CropsInv
  <2>. QED
    BY <2>2, <2>4 DEF PipelineInv
<1>. QED
  BY <1>7, <1>8 DEF EmbedCrop

LEMMA PipelineInvStep ==
  PipelineInv /\ [TrackingNext]_<<trackerVars, pipelineVars>> => PipelineInv'
<1> SUFFICES ASSUME PipelineInv, [TrackingNext]_<<trackerVars, pipelineVars>>
             PROVE  PipelineInv'
  OBVIOUS
<1> USE DEF PipelineInv, PipelineTypes, CropsInv, Full
<1>1. CASE UNCHANGED pipelineVars
  <2>1. /\ reid_' = reid_ /\ last_dets_' = last_dets_ /\ embeddings_' = embeddings_
        /\ last_embed_count_' = last_embed_count_ /\ call' = call /\ stage' = stage
        /\ crop' = crop
    BY <1>1 DEF pipelineVars
  <2>. QED
    BY <2>1
<1>2. CASE Process
  <2>1. /\ reid_' = reid_ /\ last_dets_' = last_dets_ /\ embeddings_' = embeddings_
        /\ last_embed_count_' = last_embed_count_ /\ call' = call + 1
        /\ stage = "idle" /\ stage' \in {"detect", "idle"} /\ crop' = crop
    BY <1>2 DEF Process
  <2>. QED
    BY <2>1
<1>3. CASE Detect
  <2>1. CASE Leave /\ UNCHANGED <<last_dets_, last_embed_count_>>
    BY <1>3, <2>1 DEF Detect, Leave
  <2>2. CASE /\ \E strong, weak \in 0..MaxDets :
                  /\ strong + weak <= MaxDets
                  /\ last_dets_' = [i \in 1..strong + weak |->
                                      IF i <= strong THEN "embed" ELSE "skip"]
             /\ stage' = IF reid_ THEN "embed" ELSE "update"
             /\ last_embed_count_' = IF reid_ THEN last_embed_count_ ELSE 0
    <3>1. last_dets_' \in Seq({"embed", "skip"})
      BY <2>2, DetectedSeq
    <3>. QED
      BY <1>3, <2>2, <3>1 DEF Detect
  <2>. QED
    BY <1>3, <2>1, <2>2 DEF Detect
<1>. USE DEF PipelineInv, PipelineTypes
<1>4. CASE StartEmbedding
  BY <1>4, EmbeddingStarts
<1>5. CASE EmbedCrop
  BY <1>5, CropKeeps
<1>6. CASE EmbeddingDone
  BY <1>6 DEF EmbeddingDone
<1>7. CASE Track
  BY <1>7 DEF Track, Leave
<1>. QED
  BY <1>1, <1>2, <1>3, <1>4, <1>5, <1>6, <1>7 DEF TrackingNext, PipelineNext

\* What update() is given is of the frame in hand, whatever the detector, the
\* embedder and the tracker threw on the frames before: the embeddings run
\* parallel to the detections, and there are as many as embedCount() says.
THEOREM EmbeddingsBelongToFrame == TrackingSpec => []EmbeddingsOfThisFrame
<1>1. PipelineInit => PipelineInv
  BY EmptySeq DEF PipelineInit, PipelineInv, PipelineTypes, CropsInv
<1>2. PipelineInv /\ [TrackingNext]_<<trackerVars, pipelineVars>> => PipelineInv'
  BY PipelineInvStep
<1>3. PipelineInv => EmbeddingsOfThisFrame
  BY DEF PipelineInv, CropsInv, Full, EmbeddingsOfThisFrame
<1>. QED
  BY <1>1, <1>2, <1>3, PTL DEF TrackingSpec

\* The tracker keeps its lists in the pipeline as it does on its own.
THEOREM TrackerInvariantInPipeline ==
  TrackingSpec => [](ListsAgree /\ OutputIsFresh /\ LostWithinBuffer) /\ LostUntilExpiry
<1>1. PipelineInit => TrackInv /\ LostAges
  BY DEF PipelineInit, TrackerInit, TrackInv, TrackTypes, ListsAgree, OutputIsFresh, Kept,
         activated, confirmed, LostAges
<1>2. TrackInv /\ LostAges /\ [TrackingNext]_<<trackerVars, pipelineVars>>
        => (TrackInv /\ LostAges)' /\ [LostWait]_trackerVars
  <2> SUFFICES ASSUME TrackInv, LostAges, [TrackingNext]_<<trackerVars, pipelineVars>>
               PROVE  (TrackInv /\ LostAges)' /\ [LostWait]_trackerVars
    OBVIOUS
  <2>1. [TrackerNext]_trackerVars
    BY DEF TrackingNext, TrackerNext, PipelineNext, Process, Detect, StartEmbedding,
           EmbedCrop, EmbeddingDone, Track
  <2>2. TrackInv'
    BY <2>1, UpdateKeeps, ThrowAndResetKeep DEF TrackerNext
  <2>. QED
    BY <2>1, <2>2, LostAgesStep, LostWaitStep
<1>3. TrackInv /\ LostAges => ListsAgree /\ OutputIsFresh /\ LostWithinBuffer
  BY AgesAreBounded DEF TrackInv
<1>. QED
  BY <1>1, <1>2, <1>3, PTL DEF TrackingSpec, LostUntilExpiry, LostWait
=============================================================================

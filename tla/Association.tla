---------------------------- MODULE Association ----------------------------
(***************************************************************************)
(* The arithmetic of src/src/tracks/byte_tracker.cc: boxes, the Kalman     *)
(* filter, the similarity terms and the assignment solver.  ByteTracker    *)
(* models the list keeping and leaves the outcome of an association open;  *)
(* this module says which outcomes there are.                              *)
(*                                                                         *)
(* Scores, costs and similarities are in units of 1/Unit.  Coordinates are *)
(* in units of kMinBoxSide.  std::exp stands for any positive decreasing   *)
(* function, Decay below.                                                  *)
(***************************************************************************)
EXTENDS Integers, SequencesExt

Unit == 1000
Least(a, b) == IF a <= b THEN a ELSE b
Most(a, b)  == IF a >= b THEN a ELSE b
Clamp(x, lo, hi) == Most(lo, Least(x, hi))
Gap(a, b) == IF a >= b THEN a - b ELSE b - a

Decay(x) == (Unit * Unit) \div (Unit + x)
Sqrt(n) == CHOOSE r \in 0..Unit : r * r <= n /\ n < (r + 1) * (r + 1)

(***************************************************************************)
(* Boxes [x1, y1, x2, y2].                                                 *)
(***************************************************************************)
kMinBoxSide == 1
clampBoxSide(v) == Most(v, kMinBoxSide)

\* The STrack constructor, tlwh() and tlbr() of a detection not yet activated.
Candidate(b) == [x1 |-> b.x1, y1 |-> b.y1,
                 x2 |-> b.x1 + clampBoxSide(b.x2 - b.x1),
                 y2 |-> b.y1 + clampBoxSide(b.y2 - b.y1)]

Area(b) == (b.x2 - b.x1) * (b.y2 - b.y1)

Overlap(a, b) ==
  Most(0, Least(a.x2, b.x2) - Most(a.x1, b.x1)) * Most(0, Least(a.y2, b.y2) - Most(a.y1, b.y1))

\* Nothing in common, or no area at all: 0.
IoU(a, b) ==
  LET union == Area(a) + Area(b) - Overlap(a, b)
  IN  IF union > 0 THEN (Unit * Overlap(a, b)) \div union ELSE 0

iouDistance(tracks, dets) ==
  [i \in DOMAIN tracks |-> [j \in DOMAIN dets |-> Unit - IoU(tracks[i].box, dets[j].box)]]

fuseScore(cost, dets) ==
  [i \in DOMAIN cost |-> [j \in DOMAIN dets |->
     Unit - ((Unit - cost[i][j]) * dets[j].score) \div Unit]]

\* fuseAppearance(): feat is a unit vector on a coarse circle, <<>> if absent.
Dot(f, g) == (f[1] * g[1] + f[2] * g[2]) \div Unit

EmbDist(f, g) == (Unit - Dot(f, g)) \div 2

MayUseAppearance(t, d, raw, cfg) ==
  /\ t.feat # <<>> /\ Len(d.feat) = Len(t.feat)
  /\ t.class = d.class
  /\ raw <= cfg.proximity_thresh
  /\ EmbDist(t.feat, d.feat) <= cfg.appearance_thresh

fuseAppearance(cost, raw_iou, tracks, dets, cfg) ==
  [i \in DOMAIN cost |-> [j \in DOMAIN dets |->
     IF MayUseAppearance(tracks[i], dets[j], raw_iou[i][j], cfg)
     THEN Least(cost[i][j], EmbDist(tracks[i].feat, dets[j].feat))
     ELSE cost[i][j]]]

(***************************************************************************)
(* The Kalman filter.  The motion matrix couples each of cx, cy, a, h only *)
(* with its own velocity, and every covariance it starts from or adds is   *)
(* diagonal, so the 8x8 filter is four filters of [x, v] with covariance   *)
(* [a, b; b, c]; the Cholesky solve of their innovation is a division.     *)
(* Variances of cx, cy and h scale with the square of the height, which is *)
(* taken out: they are in units of (h/160)^2, times Unit.                  *)
(***************************************************************************)
StdPos2 == 64 * Unit   \* (h/20)^2
StdVel2 == Unit        \* (h/160)^2

initiate(x) == [x |-> x, v |-> 0, a |-> 4 * StdPos2, b |-> 0, c |-> 100 * StdVel2]

predict(s) ==
  [x |-> s.x + s.v, v |-> s.v, a |-> s.a + 2 * s.b + s.c + StdPos2, b |-> s.b + s.c,
   c |-> s.c + StdVel2]

\* A track that is not Tracked stops growing: its height velocity is cleared.
predictHeight(s, state) == predict(IF state = "Tracked" THEN s ELSE [s EXCEPT !.v = 0])

\* The innovation's variance and the gain times `k`, rounded down.
project(s) == s.a + StdPos2
Gain(s, cross, k) == (((cross * 100) \div (project(s) \div 100)) * k) \div 10000

correct(s, meas) ==
  LET innovation == meas - s.x
      shrink(p, q) == ((p \div Unit) * q) \div (project(s) \div Unit)
  IN  [x |-> s.x + Gain(s, s.a, innovation), v |-> s.v + Gain(s, s.b, innovation),
       a |-> s.a - shrink(s.a, s.a), b |-> s.b - shrink(s.a, s.b), c |-> s.c - shrink(s.b, s.b)]

(***************************************************************************)
(* The BoostTrack terms.                                                   *)
(***************************************************************************)
kYoung == 7
PowerOf9[k \in 0..64] == IF k = 0 THEN Unit ELSE (PowerOf9[k - 1] * 9) \div 10

sinceUpdate(t, frame_id) == Most(1, frame_id - t.frame_id)

confidence(t, frame_id) ==
  LET age == frame_id - t.start_frame
  IN  IF age < kYoung THEN PowerOf9[kYoung - age] ELSE PowerOf9[sinceUpdate(t, frame_id) - 1]

kMahalanobisLimit == 13277

\* Squared distance of a measurement over the diagonal of the covariance; a
\* variance that vanished makes it infinite.
Infinite == 1000000
mahalanobisSq(t, meas) ==
  IF \E k \in DOMAIN t.var : t.var[k] <= 0 THEN Infinite
  ELSE FoldSet(LAMBDA k, s : s + (Unit * (meas[k] - t.mean[k]) * (meas[k] - t.mean[k])) \div t.var[k],
               0, DOMAIN t.var)

\* Down each track's column: what is within the limit competes for it.
mahalanobisSimilarity(dist) ==
  [i \in DOMAIN dist |-> [j \in DOMAIN dist[i] |->
     LET within == {k \in DOMAIN dist : dist[k][j] <= kMahalanobisLimit}
         sum    == FoldSet(LAMBDA k, s : s + Decay(dist[k][j]), 0, within)
     IN  IF i \in within THEN (Unit * Decay(dist[i][j])) \div sum ELSE 0]]

\* A box grown on every side by slack/Unit * num/4 of its extent, in units four
\* thousand times finer.
Grown(b, slack, num) ==
  LET dx == (b.x2 - b.x1) * slack * num
      dy == (b.y2 - b.y1) * slack * num
      fine(x) == x * 4 * Unit
      coarse(x) == x \div 100
  IN  [x1 |-> coarse(fine(b.x1) - dx), y1 |-> coarse(fine(b.y1) - dy),
       x2 |-> coarse(fine(b.x2) + dx), y2 |-> coarse(fine(b.y2) + dy)]

softBIoU(det, trk, track_conf) ==
  LET slack == Unit - track_conf IN IoU(Grown(det, slack, 1), Grown(trk, slack, 2))

shapeSimilarity(det, trk) ==
  LET dw == det.x2 - det.x1
      dh == det.y2 - det.y1
      tw == trk.x2 - trk.x1
      th == trk.y2 - trk.y1
  IN  IF Most(dw, tw) <= 0 \/ Most(dh, th) <= 0 THEN 0
      ELSE Decay((Unit * Gap(dw, tw)) \div Most(dw, tw) + (Unit * Gap(dh, th)) \div Most(dh, th))

\* combinedSimilarity() of every detection (row) with every pooled track.
combinedSimilarity(dets, pool, frame_id) ==
  LET mh == mahalanobisSimilarity([i \in DOMAIN dets |-> [j \in DOMAIN pool |->
                                     mahalanobisSq(pool[j], dets[i].meas)]])
  IN  [i \in DOMAIN dets |-> [j \in DOMAIN pool |->
         (mh[i][j] + shapeSimilarity(dets[i].box, pool[j].box)
          + softBIoU(dets[i].box, pool[j].box, confidence(pool[j], frame_id))) \div 3]]

emaAlpha(score, cfg) ==
  LET span  == Unit - cfg.track_thresh
      trust == IF span > 0 THEN Clamp((Unit * (score - cfg.track_thresh)) \div span, 0, Unit)
               ELSE Unit
  IN  cfg.ema_alpha + ((Unit - cfg.ema_alpha) * (Unit - trust)) \div Unit

\* boostDetections(): the two amounts by which a promoted score passes
\* high_thresh (1e-5 and 1e-4).
VouchMargin == 1
DuoMargin == 2

VaryingThreshold(t, frame_id, cfg) ==
  Most(cfg.vt_start - (sinceUpdate(t, frame_id) - 1)
                      * ((cfg.vt_start - cfg.vt_end) \div Most(1, cfg.vt_steps)),
       cfg.vt_end)

softBoosted(dets, pool, frame_id, cfg) ==
  LET S == combinedSimilarity(dets, pool, frame_id)
      best(i) == FoldSet(LAMBDA j, m : Most(m, S[i][j]), 0, DOMAIN pool)
      vouched(i) == \E j \in DOMAIN pool : S[i][j] > VaryingThreshold(pool[j], frame_id, cfg)
      soft(i) == (cfg.dlo_alpha * dets[i].score
                  + (Unit - cfg.dlo_alpha) * ((best(i) * Sqrt(best(i) * Unit)) \div Unit)) \div Unit
      raised(i) == Most(dets[i].score, soft(i))
  IN  [i \in DOMAIN dets |->
         IF vouched(i) THEN Most(raised(i), cfg.high_thresh + VouchMargin) ELSE raised(i)]

\* The detections no track can explain, in order; each promotion is seen by
\* those after it.
Unexplained(dets, pool, scores, cfg) ==
  SelectSeq([i \in DOMAIN dets |-> i],
            LAMBDA i : /\ scores[i] < cfg.high_thresh
                       /\ \A j \in DOMAIN pool : mahalanobisSq(pool[j], dets[i].meas) > kMahalanobisLimit)

BestOfCluster(a, candidates, dets, scores, cfg) ==
  ~\E c \in candidates \ {a} :
     /\ IoU(dets[a].box, dets[c].box) > cfg.duo_iou
     /\ scores[c] > scores[a] \/ (scores[c] = scores[a] /\ c < a)

promoteUnexplained(dets, pool, scores, cfg) ==
  LET candidates == Unexplained(dets, pool, scores, cfg)
  IN  FoldLeft(LAMBDA s, a : IF BestOfCluster(a, ToSet(candidates), dets, s, cfg)
                             THEN [s EXCEPT ![a] = Most(@, cfg.high_thresh + DuoMargin)] ELSE s,
               scores, candidates)

boostDetections(dets, pool, frame_id, cfg) ==
  IF dets = <<>> \/ pool = <<>> THEN [i \in DOMAIN dets |-> dets[i].score]
  ELSE LET soft == softBoosted(dets, pool, frame_id, cfg)
       IN  IF cfg.duo THEN promoteUnexplained(dets, pool, soft, cfg) ELSE soft

addBoostBonuses(cost, raw_iou, tracks, dets, frame_id, cfg) ==
  LET mh == mahalanobisSimilarity([j \in DOMAIN dets |-> [i \in DOMAIN tracks |->
                                     mahalanobisSq(tracks[i], dets[j].meas)]])
      bonus(i, j) ==
        LET iou  == Unit - raw_iou[i][j]
            conf == IF iou < cfg.min_iou THEN 0
                    ELSE (confidence(tracks[i], frame_id) * dets[j].score) \div Unit
        IN  (cfg.lambda_mhd * mh[j][i] + cfg.lambda_iou * ((conf * iou) \div Unit)
             + cfg.lambda_shape * ((conf * shapeSimilarity(dets[j].box, tracks[i].box)) \div Unit))
            \div Unit
  IN  [i \in DOMAIN tracks |-> [j \in DOMAIN dets |-> cost[i][j] - bonus(i, j)]]

\* cameraUpdate(): both corners through the affine m; a box that would turn
\* inside out stays where it was.
cameraUpdate(b, m) ==
  LET at(x, y, k) == m[k] * x + m[k + 1] * y + m[k + 2]
      w == [x1 |-> at(b.x1, b.y1, 1), y1 |-> at(b.x1, b.y1, 4),
            x2 |-> at(b.x2, b.y2, 1), y2 |-> at(b.x2, b.y2, 4)]
  IN  IF w.x2 <= w.x1 \/ w.y2 <= w.y1 THEN b ELSE w

(***************************************************************************)
(* linearAssignment(): the Hungarian method on the matrix padded to a      *)
(* square, columns 0..n with 0 the virtual one the search starts from.     *)
(* Every comparison with a NaN is false; an untouched minv absorbs what is *)
(* subtracted from it.                                                     *)
(***************************************************************************)
NaN == -1000000000
INF == 1000000000
BIG == 100000

LessThan(x, y) == x # NaN /\ y # NaN /\ x < y
Minus(x, y) == IF NaN \in {x, y} THEN NaN ELSE IF x = INF THEN INF ELSE x - y

\* The inner loop: minv and way of every unused column, and the column the next
\* step goes to with its delta.
Relax(st, n, a) ==
  LET i0 == st.p[st.j0]
      free == {j \in 1..n : ~st.used[j]}
      cur(j) == Minus(Minus(a[i0][j], st.u[i0]), st.v[j])
      minv == [j \in 0..n |-> IF j \in free /\ LessThan(cur(j), st.minv[j]) THEN cur(j)
                              ELSE st.minv[j]]
      way  == [j \in 0..n |-> IF j \in free /\ LessThan(cur(j), st.minv[j]) THEN st.j0
                              ELSE st.way[j]]
      below == {j \in free : minv[j] < INF}
      first(js) == CHOOSE j \in js : \A k \in js : minv[j] < minv[k] \/ (minv[j] = minv[k] /\ j <= k)
      j1   == IF below # {} THEN first(below) ELSE CHOOSE j \in free : \A k \in free : j <= k
  IN  [st EXCEPT !.minv = minv, !.way = way, !.j1 = j1,
                 !.delta = IF below # {} THEN minv[j1] ELSE 0]

\* A mutant: the slack of the unused columns is not lowered.
ShiftPlain(st, n) ==
  LET usedRows == {st.p[j] : j \in {k \in 0..n : st.used[k]}}
  IN  [st EXCEPT !.u = [i \in 0..n |-> IF i \in usedRows THEN st.u[i] + st.delta ELSE st.u[i]],
                 !.v = [j \in 0..n |-> IF st.used[j] THEN st.v[j] - st.delta ELSE st.v[j]],
                 !.j0 = st.j1]

\* The dual variables after a step.
Shift(st, n) ==
  LET usedRows == {st.p[j] : j \in {k \in 0..n : st.used[k]}}
  IN  [st EXCEPT !.u = [i \in 0..n |-> IF i \in usedRows THEN st.u[i] + st.delta ELSE st.u[i]],
                 !.v = [j \in 0..n |-> IF st.used[j] THEN st.v[j] - st.delta ELSE st.v[j]],
                 !.minv = [j \in 0..n |-> IF st.used[j] THEN st.minv[j]
                                          ELSE Minus(st.minv[j], st.delta)],
                 !.j0 = st.j1]

RECURSIVE Search(_, _, _)
Search(st, n, a) ==
  LET next == Shift(Relax([st EXCEPT !.used[st.j0] = TRUE], n, a), n)
  IN  IF next.p[next.j0] = 0 THEN next ELSE Search(next, n, a)

\* Back along way[] to the virtual column; `fuel` is more steps than there are
\* columns, so running out of it is a loop that never ends.
RECURSIVE Augment(_, _)
Augment(st, fuel) ==
  IF fuel = 0 THEN [st EXCEPT !.hangs = TRUE]
  ELSE LET j1   == st.way[st.j0]
           next == [st EXCEPT !.p[st.j0] = st.p[j1], !.j0 = j1]
       IN  IF j1 = 0 THEN next ELSE Augment(next, fuel - 1)

RECURSIVE Rows(_, _, _, _)
Rows(i, st, n, a) ==
  IF i > n \/ st.hangs THEN st
  ELSE Rows(i + 1,
            Augment(Search([st EXCEPT !.p[0] = i, !.j0 = 0, !.minv = [j \in 0..n |-> INF],
                                      !.used = [j \in 0..n |-> FALSE]], n, a), n + 1), n, a)

Hungarian(n, a) ==
  Rows(1, [u |-> [i \in 0..n |-> 0], v |-> [j \in 0..n |-> 0], p |-> [j \in 0..n |-> 0],
           way |-> [j \in 0..n |-> 0], minv |-> [j \in 0..n |-> INF],
           used |-> [j \in 0..n |-> FALSE], j0 |-> 0, j1 |-> 0, delta |-> 0,
           hangs |-> FALSE], n, a)

Padded(cost, R, C) ==
  [i \in 1..Most(R, C) |-> [j \in 1..Most(R, C) |->
     IF i <= R /\ j <= C THEN cost[i][j] ELSE BIG]]

\* The matches that pass the gate, and what is left of each side.
linearAssignment(cost, R, C, thresh) ==
  LET n == Most(R, C)
      solved == Hungarian(n, Padded(cost, R, C))
      matches == IF R = 0 \/ C = 0 THEN {}
                 ELSE {<<solved.p[j], j>> : j \in {k \in 1..C :
                         /\ solved.p[k] \in 1..R
                         /\ cost[solved.p[k]][k] # NaN /\ cost[solved.p[k]][k] <= thresh}}
  IN  [matches |-> matches,
       u_rows |-> {i \in 1..R : ~\E m \in matches : m[1] = i},
       u_cols |-> {j \in 1..C : ~\E m \in matches : m[2] = j},
       hangs |-> R > 0 /\ C > 0 /\ solved.hangs]

(***************************************************************************)
(* Reference definitions and properties.                                   *)
(***************************************************************************)
Bijections(n) == {f \in [1..n -> 1..n] : \A i, j \in 1..n : f[i] = f[j] => i = j}
TotalCost(f, a, n) == FoldSet(LAMBDA i, s : s + a[i][f[i]], 0, 1..n)

\* The solver's answer is what the gate leaves of an assignment no other
\* undercuts, found by trying them all on the padded square; and the search
\* for it ends.  The code reaches it row by row over dual variables, and pads
\* with a cost the real ones must stay clear of.
AssignmentIsOptimal(cost, R, C, thresh) ==
  LET n == Most(R, C)
      a == Padded(cost, R, C)
      answer == linearAssignment(cost, R, C, thresh)
  IN  /\ ~answer.hangs
      /\ \E f \in Bijections(n) :
           /\ \A g \in Bijections(n) : TotalCost(f, a, n) <= TotalCost(g, a, n)
           /\ answer.matches = {<<i, f[i]>> : i \in {k \in 1..R : /\ f[k] \in 1..C
                                                               /\ cost[k][f[k]] <= thresh}}

\* boostDetections() only raises, by a vouching track beyond high_thresh; of
\* several unexplained detections of one object it promotes one: no two that
\* the last stage lifted over high_thresh overlap by more than duo_iou, in
\* whatever order their promotions saw each other.
BoostsDoNotCollide(dets, pool, frame_id, cfg) ==
  LET soft == softBoosted(dets, pool, frame_id, cfg)
      out  == boostDetections(dets, pool, frame_id, cfg)
      lifted == {i \in DOMAIN dets : /\ pool # <<>> /\ out[i] > cfg.high_thresh
                                     /\ soft[i] <= cfg.high_thresh}
  IN  /\ \A i \in DOMAIN dets : out[i] >= dets[i].score
      /\ \A i, j \in lifted : i # j => IoU(dets[i].box, dets[j].box) <= cfg.duo_iou
      /\ \A i \in DOMAIN dets :   \* none left behind without a reason
           i \in ToSet(Unexplained(dets, pool, soft, cfg)) /\ cfg.duo /\ pool # <<>> =>
             \/ i \in lifted
             \/ \E j \in DOMAIN dets : j # i /\ IoU(dets[i].box, dets[j].box) > cfg.duo_iou

\* One coordinate over frames that each miss (predict only) or measure: the
\* state's spread stays positive and grows without measurements, a measurement
\* shrinks it, and the corrected position lies between prediction and
\* measurement.
FilterStaysSane(x0, steps) ==
  LET Miss == -1
      Step(run, meas) ==
        LET s == run.s
            p == predict(s)
            q == IF meas = Miss THEN p ELSE correct(p, meas)
        IN  [s  |-> q,
             ok |-> /\ run.ok /\ p.a > s.a /\ q.a > 0 /\ q.c > 0
                    /\ meas # Miss => /\ q.a < p.a
                                      /\ q.x \in Least(p.x, meas) .. Most(p.x, meas)]
  IN  FoldLeft(Step, [s |-> initiate(x0), ok |-> TRUE], steps).ok
=============================================================================

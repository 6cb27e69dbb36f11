------------------------------ MODULE Features ------------------------------
(***************************************************************************)
(* Local features: src/src/tasks/features.cc.  XFeat's three maps become   *)
(* keypoints and descriptors, and two feature sets are matched by a loop   *)
(* that OpenMP shares out among threads.                                   *)
(*                                                                         *)
(* A plane is [w, h, at], at a function on <<x, y>>; what lies outside is  *)
(* zero.  `cell` is the side of a heat map block (8 in the code), unit the *)
(* denominator of a position between two samples.                          *)
(***************************************************************************)
EXTENDS YoloHeads

Lattice(w, h) == (0..w - 1) \X (0..h - 1)
Zeroed(plane, x, y) == IF <<x, y>> \in DOMAIN plane.at THEN plane.at[<<x, y>>] ELSE 0

(***************************************************************************)
(* Sampling.                                                               *)
(***************************************************************************)
\* A full-resolution pixel on a grid of src samples, in units of
\* 1/(2 * (full - 1)): normalised by full - 1, un-normalised by src.
toGrid(p, src, full) == 2 * p * src - (full - 1)

\* num/unit on each axis; the result in units of 1/(ux * uy).
sampleBilinear(plane, gx, ux, gy, uy) ==
  LET x0 == gx \div ux
      y0 == gy \div uy
      fx == gx % ux
      fy == gy % uy
  IN  (ux - fx) * (uy - fy) * Zeroed(plane, x0, y0) + fx * (uy - fy) * Zeroed(plane, x0 + 1, y0)
      + (ux - fx) * fy * Zeroed(plane, x0, y0 + 1) + fx * fy * Zeroed(plane, x0 + 1, y0 + 1)

\* The cubic kernel with A = -3/4 at n/d, in units of 1/(4 * d^3): cubic1 up to
\* distance 1, cubic2 up to 2.
cubic1(n, d) == (5 * n - 9 * d) * n * n + 4 * d^3
cubic2(n, d) == ((15 * d - 3 * n) * n - 24 * d * d) * n + 12 * d^3
cubicWeights(n, d) == <<cubic2(n + d, d), cubic1(n, d), cubic1(d - n, d), cubic2(2 * d - n, d)>>

sampleBicubic(plane, gx, ux, gy, uy) ==
  LET wx == cubicWeights(gx % ux, ux)
      wy == cubicWeights(gy % uy, uy)
  IN  Total((1..4) \X (1..4), LAMBDA k :
        wy[k[2]] * wx[k[1]] * Zeroed(plane, gx \div ux - 2 + k[1], gy \div uy - 2 + k[2]))

\* xfeatPreprocess(): the channel mean, resized; the standardisation of the
\* result moves no pixel and is left out.
xfeatPreprocess(bgr, w, h, in_w, in_h) ==
  LET pos(i, s, out) == Most(0, Least((2 * i + 1) * s - out, 2 * out * (s - 1)))
      grey == [w |-> w, h |-> h, at |-> [p \in Lattice(w, h) |-> bgr[p][1] + bgr[p][2] + bgr[p][3]]]
  IN  [p \in Lattice(in_w, in_h) |->
         sampleBilinear(grey, pos(p[1], w, in_w), 2 * in_w, pos(p[2], h, in_h), 2 * in_h)]

(***************************************************************************)
(* decodeXfeat().                                                          *)
(***************************************************************************)
\* The logits of one grid cell, the last of them the reject bin, as shares.
Shares(logits) ==
  LET n == Len(logits)
      top == logits[CHOOSE i \in 1..n : \A j \in 1..n : logits[j] <= logits[i]]
      e == [i \in 1..n |-> Unit \div (1 + top - logits[i])]
  IN  [i \in 1..n |-> (Unit * e[i]) \div FoldSeq(LAMBDA a, b : a + b, 0, e)]

\* Channel c of a cell is the pixel c \div cell down and c % cell across its
\* block; maps.kpts[g] is the logits at grid position g.
heatMap(maps, cell) ==
  LET shares == [g \in Lattice(maps.w, maps.h) |-> Shares(maps.kpts[g])]
  IN  [p \in Lattice(maps.w * cell, maps.h * cell) |->
         shares[<<p[1] \div cell, p[2] \div cell>>][(p[2] % cell) * cell + (p[1] % cell) + 1]]

Greatest(S, V(_)) == V(CHOOSE i \in S : \A j \in S : V(j) <= V(i))

\* A row pass and a column pass, each over its part of the window.
maxFilter(src, w, h, k) ==
  LET r == k \div 2
      span(i, n) == Most(0, i - r)..Least(n - 1, i + r)
      rows == [p \in Lattice(w, h) |-> Greatest(span(p[1], w), LAMBDA x : src[<<x, p[2]>>])]
  IN  [p \in Lattice(w, h) |-> Greatest(span(p[2], h), LAMBDA y : rows[<<p[1], y>>])]

\* Candidates in scan order: above the threshold, the largest of their window,
\* and on something the model calls reliable.
candidates(maps, cell, cfg) ==
  LET w == maps.w * cell
      h == maps.h * cell
      heat == heatMap(maps, cell)
      local == maxFilter(heat, w, h, cfg.nms_kernel)
      rel(p) == sampleBilinear([w |-> maps.w, h |-> maps.h, at |-> maps.reliability],
                               toGrid(p[1], maps.w, w), 2 * (w - 1), toGrid(p[2], maps.h, h), 2 * (h - 1))
      scan == [i \in 1..w * h |-> <<(i - 1) % w, (i - 1) \div w>>]
      kept == SelectSeq(scan, LAMBDA p : /\ heat[p] > cfg.detection_thresh
                                         /\ heat[p] = local[p] /\ heat[p] * rel(p) > 0)
  IN  [i \in DOMAIN kept |-> [at |-> kept[i], score |-> heat[kept[i]] * rel(kept[i])]]

\* std::partial_sort() leaves equal scores in any order: the sets it may keep.
topSets(cands, top_k) ==
  LET n == IF top_k > 0 THEN Least(top_k, Len(cands)) ELSE Len(cands)
  IN  {S \in kSubset(n, DOMAIN cands) :
         \A i \in S, j \in (DOMAIN cands) \ S : cands[i].score >= cands[j].score}

decodeRefuses(maps, in_w, in_h, cell, cfg) ==
  \/ maps.w <= 0 \/ maps.h <= 0 \/ in_w # maps.w * cell \/ in_h # maps.h * cell
  \/ cfg.nms_kernel < 1 \/ cfg.nms_kernel % 2 = 0

\* FeatureExtractor(): an input that is one float channel, and three outputs.
extractorRefuses(model, output_base) ==
  \/ output_base < 0 \/ output_base + 3 > Len(model.outs)
  \/ Len(model.input.dims) # 4 \/ model.input.type # "FLOAT32"
  \/ (IF model.input.nhwc THEN model.input.dims[4] ELSE model.input.dims[2]) # 1
  \/ \E k \in 1..3 : LET d == model.outs[output_base + k].dims
                     IN  Len(d) # 4 \/ d[2] # <<64, 65, 1>>[k]

(***************************************************************************)
(* matchFeatures().  A feature set is a sequence of descriptors.           *)
(***************************************************************************)
Similarity(a, b) == FoldSeq(LAMBDA p, s : p + s, 0, [i \in DOMAIN a |-> a[i] * b[i]])
Lowest == -1000000

\* The first of the largest V over 1..n, 0 when none beats Lowest.
FirstBest(n, V(_)) ==
  FoldLeft(LAMBDA best, i : IF V(i) > best.val THEN [at |-> i, val |-> V(i)] ELSE best,
           [at |-> 0, val |-> Lowest], [i \in 1..n |-> i])

\* A mutant: the rows that do not divide evenly go to nobody.
chunkEven(t, threads, na) ==
  LET size == na \div threads IN (t - 1) * size + 1..t * size

\* The rows schedule(static) gives thread t of `threads`.
chunk(t, threads, na) ==
  LET size == na \div threads
      extra == na % threads
      first == (t - 1) * size + Least(t - 1, extra) + 1
  IN  first..first + size - 1 + (IF t <= extra THEN 1 ELSE 0)

\* What a thread knows of each column from its own rows.
columnBest(a, b, rows) ==
  [j \in DOMAIN b |->
     LET at(i) == IF i \in rows THEN Similarity(a[i], b[j]) ELSE Lowest
     IN  FirstBest(Len(a), at)]

\* The critical section, in the order the threads reach it.
merged(a, b, threads, order) ==
  FoldLeft(LAMBDA best, t :
             LET own == columnBest(a, b, chunk(t, threads, Len(a)))
             IN  [j \in DOMAIN b |-> IF own[j].val > best[j].val THEN own[j] ELSE best[j]],
           [j \in DOMAIN b |-> [at |-> 0, val |-> Lowest]], order)

matchFeatures(a, b, min_cossim, threads, order) ==
  LET best_b == [i \in DOMAIN a |-> FirstBest(Len(b), LAMBDA j : Similarity(a[i], b[j]))]
      best_a == merged(a, b, threads, order)
  IN  {<<i, best_b[i].at>> : i \in
         {i \in DOMAIN a : /\ best_b[i].at > 0 /\ best_a[best_b[i].at].at = i
                           /\ min_cossim > 0 => best_b[i].val > min_cossim}}

(***************************************************************************)
(* Reference definitions.                                                  *)
(***************************************************************************)
\* However the rows are shared out and in whatever order the threads merge, the
\* matches are mutual best pairs, no feature is in two of them, and where no two
\* features are equally similar to a third, they are always the same pairs, all
\* of them, and the ones the sets give the other way round.
MatchesAreMutual(a, b, threads, min_cossim) ==
  LET s(i, j) == Similarity(a[i], b[j])
      distinct == /\ \A i \in DOMAIN a : \A j, k \in DOMAIN b : s(i, j) = s(i, k) => j = k
                  /\ \A j \in DOMAIN b : \A i, k \in DOMAIN a : s(i, j) = s(k, j) => i = k
      mutual == {p \in (DOMAIN a) \X (DOMAIN b) :
                   /\ \A j \in DOMAIN b : s(p[1], j) <= s(p[1], p[2])
                   /\ \A i \in DOMAIN a : s(i, p[2]) <= s(p[1], p[2])
                   /\ min_cossim > 0 => s(p[1], p[2]) > min_cossim}
  IN  \A order \in SetToSeqs(1..threads) :
        LET m == matchFeatures(a, b, min_cossim, threads, order)
        IN  /\ m \subseteq mutual
            /\ \A p, q \in m : p # q => p[1] # q[1] /\ p[2] # q[2]
            /\ distinct => /\ m = mutual
                           /\ m = {<<p[2], p[1]>> : p \in matchFeatures(b, a, min_cossim, threads, order)}

\* Every keypoint is the largest of its window, two in one window only ever tie,
\* the two passes of the filter are the square maximum, a larger top_k never
\* drops a keypoint that scored above all it adds, and a cell whose reject bin
\* takes everything has none.
KeypointsStandOut(maps, cell, cfg) ==
  LET w == maps.w * cell
      h == maps.h * cell
      r == cfg.nms_kernel \div 2
      heat == heatMap(maps, cell)
      local == maxFilter(heat, w, h, cfg.nms_kernel)
      near(p) == {q \in Lattice(w, h) : Abs(p[1] - q[1]) <= r /\ Abs(p[2] - q[2]) <= r}
      c == candidates(maps, cell, cfg)
  IN  ~decodeRefuses(maps, w, h, cell, cfg) =>
        /\ \A p \in Lattice(w, h) : local[p] = Greatest(near(p), LAMBDA q : heat[q])
        /\ \A i \in DOMAIN c : \A q \in near(c[i].at) : heat[q] <= heat[c[i].at]
        /\ \A S \in topSets(c, cfg.top_k) :
             \A L \in topSets(c, cfg.top_k + 1) :
               cfg.top_k > 0 => \A i \in S : (\A j \in L \ S : c[i].score > c[j].score) => i \in L
        /\ \A g \in Lattice(maps.w, maps.h) :
             Cardinality({p \in Lattice(w, h) : p[1] \div cell = g[1] /\ p[2] \div cell = g[2]
                                             /\ heat[p] > Unit \div 2}) <= 1

\* The kernel's weights sum to one, are one sample's alone on the sample, and
\* mirror; so a descriptor sampled where all sixteen cells agree is theirs.
KernelIsPartitionOfUnity(n, d) ==
  LET w == cubicWeights(n, d)
  IN  /\ w[1] + w[2] + w[3] + w[4] = 4 * d^3
      /\ cubicWeights(0, d) = <<0, 4 * d^3, 0, 0>>
      /\ cubicWeights(d - n, d) = Reverse(w)
      /\ LET flat == [w |-> 5, h |-> 5, at |-> [p \in Lattice(5, 5) |-> 3]]
         IN  sampleBicubic(flat, 2 * d + n, d, 2 * d - n, d) = 3 * (4 * d^3) * (4 * d^3)
=============================================================================

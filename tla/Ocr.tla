-------------------------------- MODULE Ocr --------------------------------
(***************************************************************************)
(* The text models of src/src/tasks/ocr.cc: regions of a probability map   *)
(* become quadrilaterals, quadrilaterals a reading order, and a line's     *)
(* class scores a string.                                                  *)
(*                                                                         *)
(* A map is a function on 0..H*W-1, a point <<x, y>> in units of 1/Fine.   *)
(* A fitted rectangle is [d, u, v]: its direction d and its extents along  *)
(* d and across it, all in units of |d|^2, so nothing is rounded before a  *)
(* corner is asked for.                                                    *)
(***************************************************************************)
EXTENDS YoloHeads

turn(o, a, b) == (a[1] - o[1]) * (b[2] - o[2]) - (a[2] - o[2]) * (b[1] - o[1])
DotP(p, d) == p[1] * d[1] + p[2] * d[2]
Across(d) == <<-d[2], d[1]>>
Square(d) == DotP(d, d)

(***************************************************************************)
(* convexHull(), by the monotone chain.                                    *)
(***************************************************************************)
\* Pops what p would turn the wrong way, then pushes it; the first `base` stay.
Chained(h, p, base) ==
  LET stays(k) == k <= base \/ turn(h[k - 1], h[k], p) > 0
      k == CHOOSE k \in base..Len(h) : stays(k) /\ \A j \in k + 1..Len(h) : ~stays(j)
  IN  Append(SubSeq(h, 1, k), p)

convexHull(points) ==
  LET p == SortSeq(points, LAMBDA a, b : a[1] < b[1] \/ (a[1] = b[1] /\ a[2] < b[2]))
      lower == FoldLeft(LAMBDA h, a : Chained(h, a, Least(Len(h), 1)), <<>>, p)
      back == Reverse(SubSeq(p, 1, Len(p) - 1))
      both == FoldLeft(LAMBDA h, a : Chained(h, a, Len(lower)), lower, back)
  IN  IF Len(p) < 3 THEN points ELSE SubSeq(both, 1, Len(both) - 1)

(***************************************************************************)
(* minAreaQuad() and unclipQuad().                                         *)
(***************************************************************************)
Extent(points, d) == LET at == {DotP(points[i], d) : i \in DOMAIN points}
                     IN  [lo |-> Min(at), hi |-> Max(at)]
Flush(points, d) == [d |-> d, u |-> Extent(points, d), v |-> Extent(points, Across(d))]
Breadth(e) == e.hi - e.lo

\* Rotating calipers: the first hull edge whose rectangle is the smallest; its
\* direction is in whole pixels, as the points are.
Smaller(r, s) == Breadth(r.u) * Breadth(r.v) * Square(s.d) < Breadth(s.u) * Breadth(s.v) * Square(r.d)
fitted(points) ==
  LET hull == convexHull(points)
      edge(i) == LET a == hull[i]
                     b == hull[(i % Len(hull)) + 1]
                 IN  <<(b[1] - a[1]) \div Fine, (b[2] - a[2]) \div Fine>>
      real == SelectSeq([i \in DOMAIN hull |-> i], LAMBDA i : edge(i) # <<0, 0>>)
  IN  IF real = <<>> THEN Flush(hull, <<1, 0>>)
      ELSE FoldLeft(LAMBDA best, i : LET r == Flush(hull, edge(i)) IN IF Smaller(r, best) THEN r ELSE best,
                    Flush(hull, edge(real[1])), Tail(real))

\* A corner, to the nearest 1/Fine below.
Corner(r, pu, pv) ==
  <<(pu * r.d[1] - pv * r.d[2]) \div Square(r.d), (pu * r.d[2] + pv * r.d[1]) \div Square(r.d)>>
Corners(r) == <<Corner(r, r.u.lo, r.v.lo), Corner(r, r.u.hi, r.v.lo),
                Corner(r, r.u.hi, r.v.hi), Corner(r, r.u.lo, r.v.hi)>>

\* TL, TR, BR, BL: a stable sort by x, then the upper of each pair.
orderQuad(in) ==
  LET s == SortSeq([i \in 1..4 |-> i],
                   LAMBDA i, j : in[i][1] < in[j][1] \/ (in[i][1] = in[j][1] /\ i < j))
      y(k) == in[s[k]][2]
      left  == IF y(2) > y(1) THEN <<1, 2>> ELSE <<2, 1>>
      right == IF y(4) > y(3) THEN <<3, 4>> ELSE <<4, 3>>
  IN  [k \in 1..4 |-> in[s[<<left[1], right[1], right[2], left[2]>>[k]]]]

minAreaQuad(points) == orderQuad(Corners(fitted(points)))

\* short_side < side, in pixels.
Thinner(r, side) ==
  LET b == Least(Breadth(r.u), Breadth(r.v)) IN b * b < side * side * Fine * Fine * Square(r.d)

\* Every edge moves out by area * ratio / perimeter; ratio is in tenths.  Fitting
\* the grown rectangle again gives the same rectangle.
unclipQuad(r, ratio) ==
  LET w == Breadth(r.u)
      h == Breadth(r.v)
      e == IF w + h = 0 THEN 0 ELSE (w * h * ratio) \div (20 * (w + h))
  IN  [r EXCEPT !.u = [lo |-> @.lo - e, hi |-> @.hi + e], !.v = [lo |-> @.lo - e, hi |-> @.hi + e]]

(***************************************************************************)
(* decodeTextBoxes().                                                      *)
(***************************************************************************)
\* The pixels whose centres the scanlines cross inside the quad: its last row
\* falls to the half-open edge test.
Inside(r, p) ==
  LET at == <<Fine * p[1], Fine * p[2]>>
  IN  /\ DotP(at, r.d) \in r.u.lo..r.u.hi /\ DotP(at, Across(r.d)) \in r.v.lo..r.v.hi
      /\ p[2] * Fine < Max({Corners(r)[k][2] : k \in 1..4})

Pixels(H, W) == (0..W - 1) \X (0..H - 1)

boxScoreFast(prob, H, W, r) ==
  LET in == {p \in Pixels(H, W) : Inside(r, p)}
      c == Corners(r)
      mid(k, n) == Most(0, Least(n - 1, (Min({c[i][k] : i \in 1..4}) + Max({c[i][k] : i \in 1..4}))
                                          \div (2 * Fine)))
  IN  IF in # {} THEN Total(in, LAMBDA p : prob[p[2] * W + p[1]]) \div Cardinality(in)
      ELSE prob[mid(2, H) * W + mid(1, W)]

\* Map pixel to canvas to image; the identity without a letterbox.
ProbToImage(p, H, W, lb) ==
  IF lb.dstW <= 0 \/ lb.dstH <= 0 THEN p
  ELSE <<clampX(invX((p[1] * lb.dstW) \div W, lb), lb), clampY(invY((p[2] * lb.dstH) \div H, lb), lb)>>

makeBox(pts, score) ==
  [pts |-> pts, score |-> score,
   x1 |-> Min({pts[k][1] : k \in 1..4}), x2 |-> Max({pts[k][1] : k \in 1..4}),
   y1 |-> Min({pts[k][2] : k \in 1..4}), y2 |-> Max({pts[k][2] : k \in 1..4})]

Neighbours4(p) == {<<p[1] + 1, p[2]>>, <<p[1] - 1, p[2]>>, <<p[1], p[2] + 1>>, <<p[1], p[2] - 1>>}
Neighbours8(p) == {<<p[1] + a, p[2] + b>> : a \in -1..1, b \in -1..1} \ {p}

\* Everything a flood from the seed visits.
Region(fg, seed, connectivity) ==
  LET near(p) == IF connectivity = 4 THEN Neighbours4(p) ELSE Neighbours8(p)
  IN  FoldSet(LAMBDA k, R : R \cup (fg \cap UNION {near(p) : p \in R}), {seed}, 1..Cardinality(fg))

Border(fg, region) == {p \in region : ~(Neighbours4(p) \subseteq fg)}
Foreground(prob, H, W, cfg) == {p \in Pixels(H, W) : prob[p[2] * W + p[1]] > cfg.bin_thresh}

\* The regions in the order the scan meets them, no more than the cap.
Regions(fg, H, W, cfg) ==
  LET at(i) == <<i % W, i \div W>>
      found == FoldLeft(LAMBDA s, i :
                          IF at(i) \notin fg \/ at(i) \in s.visited \/ Len(s.regions) >= cfg.max_candidates
                          THEN s
                          ELSE LET R == Region(fg, at(i), cfg.connectivity)
                               IN  [visited |-> s.visited \cup R, regions |-> Append(s.regions, R)],
                        [visited |-> {}, regions |-> <<>>], [i \in 1..H * W |-> i - 1])
  IN  found.regions

\* What the hull is fitted to: the border, in units of 1/Fine.
Listed(pixels) == FoldSet(LAMBDA p, s : Append(s, <<Fine * p[1], Fine * p[2]>>), <<>>, pixels)
Outline(fg, region) == Listed(Border(fg, region))

\* int(norm(a - b)) <= side.
NoLonger(a, b, side) ==
  (a[1] - b[1]) * (a[1] - b[1]) + (a[2] - b[2]) * (a[2] - b[2]) < (side + 1) * (side + 1) * Fine * Fine

textBox(prob, fg, region, H, W, cfg, lb) ==
  LET r == fitted(Outline(fg, region))
      grown == unclipQuad(r, cfg.unclip_ratio)
      quad == orderQuad(Corners(grown))
      mapped == [k \in 1..4 |-> ProbToImage(quad[k], H, W, lb)]
      score == boxScoreFast(prob, H, W, r)
  IN  IF \/ Thinner(r, cfg.min_size) \/ score < cfg.box_thresh \/ Thinner(grown, cfg.min_size + 2)
         \/ NoLonger(mapped[1], mapped[2], cfg.min_box_side)
         \/ NoLonger(mapped[1], mapped[4], cfg.min_box_side)
      THEN <<>> ELSE <<makeBox(mapped, score)>>

decodeTextBoxes(raw, H, W, cfg, lb) ==
  LET prob == [i \in DOMAIN raw |-> Activated(raw[i], cfg)]
      fg == Foreground(prob, H, W, cfg)
      regions == Regions(fg, H, W, cfg)
  IN  FlattenSeq([k \in DOMAIN regions |-> textBox(prob, fg, regions[k], H, W, cfg, lb)])

(***************************************************************************)
(* sortTextBoxes(): by (y, x), then an insertion pass within a row.        *)
(***************************************************************************)
Sunk(boxes, i, row_tol) ==
  LET box == boxes[i]
      passes(j) == /\ Abs(box.pts[1][2] - boxes[j].pts[1][2]) < row_tol
                   /\ box.pts[1][1] < boxes[j].pts[1][1]
      k == CHOOSE k \in 1..i : (k = 1 \/ ~passes(k - 1)) /\ \A j \in k..i - 1 : passes(j)
  IN  InsertAt(RemoveAt(boxes, i), k, box)

sortTextBoxes(boxes, row_tol) ==
  LET y(b) == b.pts[1][2]
      x(b) == b.pts[1][1]
      at == SortSeq([i \in DOMAIN boxes |-> i],
              LAMBDA i, j : \/ y(boxes[i]) < y(boxes[j])
                            \/ y(boxes[i]) = y(boxes[j])
                                 /\ (x(boxes[i]) < x(boxes[j]) \/ (x(boxes[i]) = x(boxes[j]) /\ i < j)))
  IN  FoldLeft(LAMBDA s, i : Sunk(s, i, row_tol), [i \in DOMAIN boxes |-> boxes[at[i]]],
               [i \in 1..Len(boxes) - 1 |-> i + 1])

(***************************************************************************)
(* Recognition: the axes of the output, then the best path's collapse.     *)
(***************************************************************************)
\* dims has at least two entries; a dictionary settles the axes when it can.
resolveAxes(dims, dict_n, time_major) ==
  LET d0 == dims[Len(dims) - 1]
      d1 == dims[Len(dims)]
      tm == CASE dict_n > 0 /\ d1 = dict_n /\ d0 # dict_n -> TRUE
              [] dict_n > 0 /\ d0 = dict_n /\ d1 # dict_n -> FALSE
              [] OTHER -> time_major
  IN  [ok |-> d0 > 0 /\ d1 > 0, time_major |-> tm,
       num_steps |-> IF tm THEN d0 ELSE d1, num_classes |-> IF tm THEN d1 ELSE d0]

\* Softmax with 2^x for std::exp, in units of 1/Unit.
Softmaxed(n, V(_), best) ==
  Unit \div Total(0..n - 1, LAMBDA c : 2 ^ (V(best) - V(c)))

ctcGreedyDecode(at(_, _), num_steps, num_classes, dict, cfg) ==
  LET best(t) == ArgMax(num_classes, LAMBDA c : at(t, c))
      conf(t) == IF cfg.apply_softmax THEN Softmaxed(num_classes, LAMBDA c : at(t, c), best(t))
                 ELSE at(t, best(t))
      emits(t) == /\ best(t) # cfg.blank_index /\ best(t) < Len(dict)
                  /\ t = 0 \/ best(t) # best(t - 1)
      steps == SelectSeq([t \in 1..num_steps |-> t - 1], emits)
  IN  [text |-> [i \in DOMAIN steps |-> dict[best(steps[i]) + 1]],
       score |-> IF steps = <<>> THEN 0
                 ELSE Total(DOMAIN steps, LAMBDA i : conf(steps[i])) \div Len(steps)]

TextRecognizer(dims, data, dict, cfg) ==
  LET ax == resolveAxes(dims, Len(dict), cfg.time_major)
      at(t, c) == data[IF ax.time_major THEN t * ax.num_classes + c ELSE c * ax.num_steps + t]
  IN  IF ~ax.ok \/ Cardinality(DOMAIN data) < ax.num_steps * ax.num_classes THEN Refused
      ELSE [ok |-> TRUE, line |-> ctcGreedyDecode(at, ax.num_steps, ax.num_classes, dict, cfg)]

\* How wide a line crop becomes at the model's height.
ocrLineFitWidth(src_w, src_h, dst_w, dst_h) ==
  IF src_w <= 0 \/ src_h <= 0 \/ dst_w <= 0 \/ dst_h <= 0 THEN Most(dst_w, 1)
  ELSE Least(dst_w, Most(1, -((-(dst_h * src_w)) \div src_h)))

decodeTextOrientation(scores, n, thresh) ==
  LET best == ArgMax(n, LAMBDA i : scores[i])
  IN  [label |-> best, score |-> scores[best], flip180 |-> best = 1 /\ scores[best] > thresh]

(***************************************************************************)
(* Reference definitions.                                                  *)
(***************************************************************************)
\* The border's rectangle is the smallest one flush with any line through two
\* of the region's pixels, interior ones included; it holds every one of them,
\* as does the rectangle it grows to; and its corners go once around.
QuadHoldsRegion(fg, region, ratio) ==
  LET all == Listed(region)
      r == fitted(Outline(fg, region))
      grown == unclipQuad(r, ratio)
      quad == minAreaQuad(Outline(fg, region))
      holds(s, p, slack) == /\ DotP(p, s.d) \in s.u.lo - slack..s.u.hi + slack
                            /\ DotP(p, Across(s.d)) \in s.v.lo - slack..s.v.hi + slack
  IN  /\ \A i \in DOMAIN all : holds(r, all[i], 0)
      /\ \A i \in DOMAIN all : holds(grown, all[i], 0)
      /\ \A i, j \in DOMAIN all : i < j =>
           ~Smaller(Flush(all, <<(all[j][1] - all[i][1]) \div Fine, (all[j][2] - all[i][2]) \div Fine>>), r)
      /\ \A k \in 1..4 : ~Thinner(r, 1) => turn(quad[k], quad[(k % 4) + 1], quad[((k + 1) % 4) + 1]) > 0

\* No pixel belongs to two regions, none is left out under the cap, each has its
\* quadrilateral, and a reported box spans a whole region.
RegionsPartition(raw, H, W, cfg) ==
  LET fg == Foreground(raw, H, W, cfg)
      regions == Regions(fg, H, W, cfg)
      boxes == decodeTextBoxes(raw, H, W, cfg, [dstW |-> 0, dstH |-> 0])
  IN  /\ \A i, j \in DOMAIN regions : i # j => regions[i] \cap regions[j] = {}
      /\ Len(regions) < cfg.max_candidates => UNION {regions[i] : i \in DOMAIN regions} = fg
      /\ \A i \in DOMAIN regions : QuadHoldsRegion(fg, regions[i], cfg.unclip_ratio)
      /\ \A i \in DOMAIN boxes : \E R \in ToSet(regions) : \A p \in R :
           /\ Fine * p[1] \in boxes[i].x1..boxes[i].x2 + 1
           /\ Fine * p[2] \in boxes[i].y1..boxes[i].y2 + 1

\* Boxes whose top edges fall in rows - closer than row_tol within one, no
\* closer between two - come out row by row, each from left to right.
ReadingOrder(boxes, row_tol) ==
  LET y(b) == b.pts[1][2]
      row(b) == {c \in DOMAIN boxes : Abs(y(boxes[c]) - y(b)) < row_tol}
      rows == \A i, j \in DOMAIN boxes : j \in row(boxes[i]) => row(boxes[i]) = row(boxes[j])
      out == sortTextBoxes(boxes, row_tol)
  IN  /\ \A b \in ToSet(boxes) : Cardinality({i \in DOMAIN boxes : boxes[i] = b})
                                   = Cardinality({i \in DOMAIN out : out[i] = b})
      /\ rows => \A i, j \in DOMAIN out : i < j =>
           IF row(out[i]) = row(out[j]) THEN out[i].pts[1][1] <= out[j].pts[1][1]
           ELSE y(out[i]) < y(out[j])

\* The text is the best path with its runs collapsed, then its blanks dropped:
\* a doubled character needs a blank between, whichever axis is time.
CtcCollapses(path, dict, cfg, dims_time_major) ==
  LET C == Len(dict)
      T == Len(path)
      score(t, c) == IF c = path[t + 1] THEN 3 ELSE c % 2
      data == [i \in 0..T * C - 1 |-> IF dims_time_major THEN score(i \div C, i % C)
                                      ELSE score(i % T, i \div T)]
      ran == TextRecognizer(IF dims_time_major THEN <<1, T, C>> ELSE <<1, C, T>>, data, dict, cfg)
      runs == SelectSeq([t \in 1..T |-> t], LAMBDA t : t = 1 \/ path[t] # path[t - 1])
      kept == SelectSeq(runs, LAMBDA t : path[t] # cfg.blank_index)
  IN  (T # C \/ dims_time_major = cfg.time_major) =>
        /\ ran.ok
        /\ ran.line.text = [i \in DOMAIN kept |-> dict[path[kept[i]] + 1]]

\* A line is fitted to the model's height with its sides in proportion, to the
\* pixel above, and never wider than the input; and it is turned only when the
\* turned class beats every other one and the threshold.
LineIsPrepared(src_w, src_h, dst_w, dst_h, scores, thresh) ==
  LET w == ocrLineFitWidth(src_w, src_h, dst_w, dst_h)
      verdict == decodeTextOrientation(scores, Cardinality(DOMAIN scores), thresh)
  IN  /\ w \in 1..dst_w
      /\ w < dst_w => w * src_h >= dst_h * src_w
      /\ w > 1 => (w - 1) * src_h < dst_h * src_w
      /\ verdict.flip180 <=> /\ scores[1] > thresh /\ scores[1] > scores[0]
                             /\ \A i \in DOMAIN scores : scores[1] >= scores[i]
=============================================================================

----------------------------- MODULE YoloHeads -----------------------------
(***************************************************************************)
(* The anchor-free heads of src/src/tasks: detection.cc, pose.cc, obb.cc   *)
(* and the box half of instance_seg.cc.  A head is resolved once, from the *)
(* shapes of the model's outputs, into which tensor is which; every frame  *)
(* is then decoded through windows into those tensors.                     *)
(*                                                                         *)
(* A model is [input, outs], attrs [dims, nhwc] with the batch first.  A   *)
(* tensor's data is a function on 0..n-1.  Scores are in units of 1/Unit,  *)
(* pixel positions of 1/Fine.  A letterbox lb is [num, den, padX, padY,    *)
(* srcW, srcH, dstW, dstH] with scale num/den.                             *)
(***************************************************************************)
EXTENDS Integers, SequencesExt

Unit == 1000
Fine == 8
Least(a, b) == IF a <= b THEN a ELSE b
Most(a, b)  == IF a >= b THEN a ELSE b
Abs(a) == IF a >= 0 THEN a ELSE -a
Total(S, F(_)) == FoldSet(LAMBDA k, s : s + F(k), 0, S)
Refused == [ok |-> FALSE]

\* Any increasing map into (0, Unit).
sigmoid(x) == Unit \div 2 + (Unit * x) \div (2 * (1 + Abs(x)))

invX(x, lb) == ((x - lb.padX) * lb.den) \div lb.num
invY(y, lb) == ((y - lb.padY) * lb.den) \div lb.num
clampX(x, lb) == Most(0, Least(x, Fine * lb.srcW))
clampY(y, lb) == Most(0, Least(y, Fine * lb.srcH))

Unlettered(b, lb) ==
  [x1 |-> clampX(invX(b.x1, lb), lb), y1 |-> clampY(invY(b.y1, lb), lb),
   x2 |-> clampX(invX(b.x2, lb), lb), y2 |-> clampY(invY(b.y2, lb), lb)]

(***************************************************************************)
(* Suppression.                                                            *)
(***************************************************************************)
Area(b) == Most(0, b.x2 - b.x1) * Most(0, b.y2 - b.y1)
Overlap(a, b) ==
  Most(0, Least(a.x2, b.x2) - Most(a.x1, b.x1)) * Most(0, Least(a.y2, b.y2) - Most(a.y1, b.y1))

iou(a, b) ==
  LET union == Area(a) + Area(b) - Overlap(a, b)
  IN  IF union > 0 THEN (Unit * Overlap(a, b)) \div union ELSE 0

\* std::sort leaves equal scores in any order.
Orders(dets) == {o \in SetToSeqs(DOMAIN dets) :
                   \A i, j \in DOMAIN o : i < j => dets[o[i]].score >= dets[o[j]].score}
StableOrder(dets) ==
  SortSeq([i \in DOMAIN dets |-> i], LAMBDA i, j : \/ dets[i].score > dets[j].score
                                                   \/ dets[i].score = dets[j].score /\ i < j)

\* The greedy pass shared by nms() and rotatedNms(): a candidate goes when one
\* kept before it has its class and overlaps it, or when enough are kept.
greedy(dets, order, iou_thresh, max_dets, Iou(_, _)) ==
  FoldLeft(LAMBDA keep, i :
             IF \/ max_dets > 0 /\ Len(keep) >= max_dets
                \/ \E k \in DOMAIN keep : /\ dets[keep[k]].class = dets[i].class
                                          /\ Iou(dets[keep[k]].box, dets[i].box) > iou_thresh
             THEN keep ELSE Append(keep, i),
           <<>>, order)

nms(dets, order, iou_thresh, max_dets) == greedy(dets, order, iou_thresh, max_dets, iou)

Kept(dets, order, cfg, Iou(_, _)) ==
  LET keep == greedy(dets, order, cfg.iou_thresh, cfg.max_dets, Iou)
  IN  [k \in DOMAIN keep |-> dets[keep[k]]]

(***************************************************************************)
(* decode(): the fused single-tensor head, with boxes by their centre.     *)
(***************************************************************************)
\* The first of the largest values.
ArgMax(n, V(_)) == CHOOSE k \in 0..n - 1 : \A j \in 0..n - 1 : V(j) < V(k) \/ (V(j) = V(k) /\ k <= j)
Activated(raw, cfg) == IF cfg.apply_sigmoid THEN sigmoid(raw) ELSE raw

decode(data, total, cfg, lb) ==
  LET cls_start == IF cfg.has_obj THEN 5 ELSE 4
      attrs == cls_start + cfg.num_classes
      N == total \div attrs
      at(a, j) == data[IF cfg.channels_first THEN a * N + j ELSE j * attrs + a]
      class(j) == ArgMax(cfg.num_classes, LAMBDA k : at(cls_start + k, j))
      cls_score(j) == Activated(at(cls_start + class(j), j), cfg)
      score(j) == IF cfg.has_obj THEN (Activated(at(4, j), cfg) * cls_score(j)) \div Unit
                  ELSE cls_score(j)
      half(a, j) == (Fine * at(a, j)) \div 2
      box(j) == [x1 |-> Fine * at(0, j) - half(2, j), y1 |-> Fine * at(1, j) - half(3, j),
                 x2 |-> Fine * at(0, j) + half(2, j), y2 |-> Fine * at(1, j) + half(3, j)]
      cells == SelectSeq([j \in 1..N |-> j - 1], LAMBDA j : score(j) >= cfg.conf_thresh)
      dets == [i \in DOMAIN cells |-> [box |-> Unlettered(box(cells[i]), lb),
                                       score |-> score(cells[i]), class |-> class(cells[i])]]
  IN  IF cfg.num_classes <= 0 \/ total < attrs THEN <<>>
      ELSE Kept(dets, StableOrder(dets), cfg, iou)

(***************************************************************************)
(* Reading the outputs.                                                    *)
(***************************************************************************)
elems(dims) == FoldSeq(LAMBDA d, p : d * p, 1, dims)

\* One output reduced to its channels, its cells and its grid, if it has one.
BranchInfo(outs, i) ==
  LET d  == outs[i].dims
      cf == ~outs[i].nhwc
      n  == Len(d)
      hw == IF n = 4 THEN IF cf THEN <<d[3], d[4]>> ELSE <<d[2], d[3]>> ELSE <<0, 0>>
      c  == CASE n = 4 -> IF cf THEN d[2] ELSE d[4]
              [] n = 3 -> IF cf THEN d[2] ELSE d[3]
              [] OTHER -> 1
  IN  [index |-> i, c |-> c, h |-> hw[1], w |-> hw[2], elems |-> elems(d),
       cells |-> elems(d) \div c, channels_first |-> cf]

Branches(model) == [i \in DOMAIN model.outs |-> BranchInfo(model.outs, i)]

Malformed(attr, ranks) ==
  Len(attr.dims) \notin ranks \/ attr.dims[1] # 1 \/ \E k \in DOMAIN attr.dims : attr.dims[k] <= 0

inputHw(model) ==
  LET d == model.input.dims
  IN  IF Len(d) # 4 THEN <<0, 0>>
      ELSE IF model.input.nhwc THEN <<d[2], d[3]>> ELSE <<d[3], d[4]>>

Grid(o) == <<o.h, o.w>>

\* The branches by grid, the finest first.
groupByGrid(outs) ==
  LET grids == SetToSortSeq({Grid(outs[i]) : i \in DOMAIN outs},
                 LAMBDA x, y : \/ x[1] * x[2] > y[1] * y[2]
                               \/ x[1] * x[2] = y[1] * y[2] /\ x[1] > y[1])
  IN  [g \in DOMAIN grids |-> SelectSeq(outs, LAMBDA o : Grid(o) = grids[g])]

(***************************************************************************)
(* resolveYoloHead().                                                      *)
(***************************************************************************)
IsBoxWidth(c) == c >= 4 /\ c % 4 = 0

boxRank(c) == CASE c = 4 -> 0
                [] c = 64 -> 1
                [] c \in 5..128 \ {64} /\ c % 4 = 0 -> 2
                [] OTHER -> 3

\* Which of two branches is the class branch: the one with the requested width,
\* or the one less plausible as a box; <<>> when nothing tells.
ClsAndBox(a, b, num_classes) ==
  IF num_classes > 0
  THEN IF (a.c = num_classes) = (b.c = num_classes) THEN <<>>
       ELSE IF a.c = num_classes THEN <<a, b>> ELSE <<b, a>>
  ELSE IF a.c = b.c \/ (boxRank(a.c) = 3 /\ boxRank(b.c) = 3) THEN <<>>
       ELSE IF \/ boxRank(a.c) < boxRank(b.c)
               \/ boxRank(a.c) = boxRank(b.c) /\ a.c < b.c
            THEN <<b, a>> ELSE <<a, b>>

\* The first 1-channel branch of a group that has one more than it needs.
SumAt(g, full) ==
  IF Len(g) # full \/ ~\E i \in DOMAIN g : g[i].c = 1 THEN 0
  ELSE CHOOSE i \in DOMAIN g : g[i].c = 1 /\ \A j \in 1..i - 1 : g[j].c # 1

scaleOf(g, num_classes) ==
  LET sum  == SumAt(g, 3)
      rest == IF sum > 0 THEN RemoveAt(g, sum) ELSE g
      pair == ClsAndBox(rest[1], rest[2], num_classes)
  IN  IF Len(rest) # 2 \/ pair = <<>> THEN Refused
      ELSE IF ~IsBoxWidth(pair[2].c) \/ pair[1].channels_first # pair[2].channels_first
      THEN Refused
      ELSE [ok |-> TRUE, cls |-> pair[1].index, box |-> pair[2].index,
            sum |-> IF sum > 0 THEN g[sum].index ELSE 0, h |-> g[1].h, w |-> g[1].w,
            num_classes |-> pair[1].c, box_channels |-> pair[2].c]

\* What every resolver demands across the scales, and what it derives.
RegMax(box_channels) == IF box_channels # 4 THEN box_channels \div 4 ELSE 0
Consistent(scales) ==
  \A s \in DOMAIN scales : /\ scales[s].ok
                           /\ scales[s].num_classes = scales[1].num_classes
                           /\ scales[s].box_channels = scales[1].box_channels

StridesDivide(scales, input_h) == \A s \in DOMAIN scales : input_h % scales[s].h = 0

resolveYoloHead(model, num_classes) ==
  LET outs == Branches(model)
      groups == groupByGrid(outs)
      scales == [g \in DOMAIN groups |->
                   IF Len(groups[g]) \in 2..3 THEN scaleOf(groups[g], num_classes) ELSE Refused]
      input_h == inputHw(model)[1]
  IN  IF Len(model.outs) < 2 \/ \E i \in DOMAIN model.outs : Malformed(model.outs[i], {4})
      THEN Refused
      ELSE IF \/ ~Consistent(scales)
              \/ \E i \in DOMAIN outs : outs[i].channels_first # outs[1].channels_first
              \/ input_h <= 0 \/ ~StridesDivide(scales, input_h)
      THEN Refused
      ELSE [ok |-> TRUE, scales |-> scales, channels_first |-> outs[1].channels_first,
            num_classes |-> scales[1].num_classes, reg_max |-> RegMax(scales[1].box_channels),
            strides |-> [s \in DOMAIN scales |-> input_h \div scales[s].h]]

(***************************************************************************)
(* resolvePoseHead() and resolveObbHead(): each scale is a pair or one     *)
(* fused tensor; the extra branch is one per scale, or shared and then the *)
(* only one off the feature scales.                                        *)
(***************************************************************************)
OnScale(o, hw) ==
  /\ o.h > 0 /\ o.w > 0
  /\ hw[1] % o.h = 0 /\ hw[2] % o.w = 0 /\ hw[1] \div o.h = hw[2] \div o.w

\* The pair without a rank: the exact width first, then what can be a box.
ClsByWidth(a, b, num_classes) ==
  IF (a.c = num_classes) # (b.c = num_classes)
  THEN IF a.c = num_classes THEN <<a, b>> ELSE <<b, a>>
  ELSE IF IsBoxWidth(a.c) # IsBoxWidth(b.c) THEN IF IsBoxWidth(b.c) THEN <<a, b>> ELSE <<b, a>>
  ELSE <<>>

splitScale(g, num_classes, shared, IsExtra(_)) ==
  LET extras == {i \in DOMAIN g : IsExtra(g[i].c)}
      e    == IF shared > 0 THEN 0 ELSE CHOOSE i \in extras : TRUE
      rest == IF e > 0 THEN RemoveAt(g, e) ELSE g
      pair == ClsByWidth(rest[1], rest[2], num_classes)
      made(cls, box, nc, box_ch) ==
        [ok |-> TRUE, cls |-> cls, box |-> box, num_classes |-> nc, box_channels |-> box_ch,
         extra |-> IF e > 0 THEN g[e].index ELSE 0, extra_channels |-> IF e > 0 THEN g[e].c ELSE 0,
         h |-> g[1].h, w |-> g[1].w]
  IN  IF shared = 0 /\ Cardinality(extras) # 1 THEN Refused
      ELSE IF Len(rest) = 1
      THEN IF IsBoxWidth(rest[1].c - num_classes)
           THEN made(rest[1].index, rest[1].index, num_classes, rest[1].c - num_classes)
           ELSE Refused
      ELSE IF Len(rest) # 2 THEN Refused
      ELSE IF pair = <<>> THEN Refused
      ELSE IF IsBoxWidth(pair[2].c) THEN made(pair[1].index, pair[2].index, pair[1].c, pair[2].c)
      ELSE Refused

\* Fits(elems, anchors): a shared tensor can be the extra branch.
resolveSplitHead(model, num_classes, IsExtra(_), Fits(_, _)) ==
  LET hw == inputHw(model)
      outs == Branches(model)
      groups == groupByGrid(SelectSeq(outs, LAMBDA o : OnScale(o, hw)))
      loose == SelectSeq(outs, LAMBDA o : ~OnScale(o, hw))
      anchors == Total(DOMAIN groups, LAMBDA g : groups[g][1].cells)
      shared == IF Len(loose) = 1 THEN loose[1].index ELSE 0
      scales == [g \in DOMAIN groups |-> splitScale(groups[g], num_classes, shared, IsExtra)]
  IN  IF \/ hw[1] <= 0 \/ hw[2] <= 0
         \/ \E i \in DOMAIN model.outs : Malformed(model.outs[i], 2..4)
         \/ groups = <<>> \/ Len(loose) > 1
      THEN Refused
      ELSE IF \/ Len(loose) = 1 /\ ~Fits(loose[1].elems, anchors)
              \/ ~Consistent(scales)
              \/ \E i \in DOMAIN outs : outs[i].channels_first # outs[1].channels_first
              \/ \E s \in DOMAIN scales : scales[s].extra_channels # scales[1].extra_channels
      THEN Refused
      ELSE [ok |-> TRUE, scales |-> scales, channels_first |-> outs[1].channels_first,
            num_classes |-> scales[1].num_classes, reg_max |-> RegMax(scales[1].box_channels),
            shared |-> shared, anchors |-> anchors,
            extra |-> IF shared > 0 THEN loose[1].elems \div anchors ELSE scales[1].extra_channels,
            fused |-> \E s \in DOMAIN scales : scales[s].cls = scales[s].box,
            offset |-> [s \in DOMAIN scales |-> Total(1..s - 1, LAMBDA k : groups[k][1].cells)],
            strides |-> [s \in DOMAIN scales |-> hw[1] \div scales[s].h]]

resolvePoseHead(model, num_classes, num_keypoints) ==
  LET nc == IF num_classes <= 0 THEN 1 ELSE num_classes
  IN  resolveSplitHead(model, nc,
        LAMBDA c : IF num_keypoints > 0 THEN c = 3 * num_keypoints
                   ELSE c >= 9 /\ c % 3 = 0 /\ c # nc,
        LAMBDA n, anchors : /\ n % anchors = 0 /\ (n \div anchors) % 3 = 0
                            /\ n \div anchors \in 3..4096)

resolveObbHead(model, num_classes) ==
  resolveSplitHead(model, IF num_classes <= 0 THEN 15 ELSE num_classes,
                   LAMBDA c : c = 1, LAMBDA n, anchors : n = anchors)

=============================================================================

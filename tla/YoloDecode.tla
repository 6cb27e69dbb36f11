----------------------------- MODULE YoloDecode -----------------------------
(***************************************************************************)
(* Decoding a frame through a resolved head: the postprocess() of the      *)
(* detector, the pose estimator and the oriented-box detector, with the    *)
(* windows they open into the output tensors and the cell decoders behind  *)
(* them (detection.cc, pose.cc, obb.cc, and decodeInstanceSeg's boxes).    *)
(*                                                                         *)
(* A window is [buf, base, cell_step, chan_step]; the tensors are a        *)
(* sequence of functions.                                                  *)
(***************************************************************************)
EXTENDS YoloHeads

Read(w, cell, c) == w.buf[w.base + cell * w.cell_step + c * w.chan_step]

\* A grid branch of C channels.
Window(buf, channels_first, cells, C) ==
  [buf |-> buf, base |-> 0, cell_step |-> IF channels_first THEN 1 ELSE C,
   chan_step |-> IF channels_first THEN cells ELSE 1]

\* The box and class windows of a fused tensor: planes after each other, or
\* copied apart cell by cell.
FusedWindow(buf, channels_first, cells, total_ch, from, width) ==
  IF channels_first
  THEN [buf |-> buf, base |-> from * cells, cell_step |-> 1, chan_step |-> cells]
  ELSE Window([i \in 0..cells * width - 1 |-> buf[(i \div width) * total_ch + from + (i % width)]],
              FALSE, cells, width)

\* A mutant: every scale reads the anchors of the first.
SharedWindowFromStart(buf, offset, anchors) ==
  [buf |-> buf, base |-> 0, cell_step |-> 1, chan_step |-> anchors]

\* A shared extra tensor: the anchors of all scales next to each other.
SharedWindow(buf, offset, anchors) ==
  [buf |-> buf, base |-> offset, cell_step |-> 1, chan_step |-> anchors]

(***************************************************************************)
(* One cell.                                                               *)
(***************************************************************************)
\* The expectation of the bins under their softmax; 2^x for std::exp.
dflReduce(reg, Bin(_)) ==
  LET weight(b) == 2 ^ Bin(b)
  IN  (Fine * Total(0..reg - 1, LAMBDA b : b * weight(b))) \div Total(0..reg - 1, weight)

Distance(w, cell, side, reg) ==
  IF reg > 0 THEN dflReduce(reg, LAMBDA b : Read(w, cell, side * reg + b))
  ELSE Fine * Read(w, cell, side)

Centre(g) == Fine * g + Fine \div 2

LtrbBox(w, cell, W, reg, stride) ==
  LET cx == Centre(cell % W)
      cy == Centre(cell \div W)
      d(side) == Distance(w, cell, side, reg)
  IN  [x1 |-> (cx - d(0)) * stride, y1 |-> (cy - d(1)) * stride,
       x2 |-> (cx + d(2)) * stride, y2 |-> (cy + d(3)) * stride]

ClassOf(w, cell, nc) == ArgMax(nc, LAMBDA k : Read(w, cell, k))
ScoreOf(w, cell, nc, cfg) == Activated(Read(w, cell, ClassOf(w, cell, nc)), cfg)

\* Rules a cell out on one read; a head without the branch has no window.
RuledOut(sum, cell, cfg) == sum # <<>> /\ Read(sum, cell, 0) < cfg.conf_thresh

\* What the scales' cells give, in order: those that score, each made by Make.
Candidates(layout, wins, cfg, Make(_, _)) ==
  FlattenSeq([s \in DOMAIN layout.scales |->
    LET sc == layout.scales[s]
        passing == SelectSeq([i \in 1..sc.h * sc.w |-> i - 1],
                     LAMBDA cell : /\ ~RuledOut(wins[s].sum, cell, cfg)
                                   /\ ScoreOf(wins[s].cls, cell, layout.num_classes, cfg)
                                        >= cfg.conf_thresh)
    IN  [i \in DOMAIN passing |->
           [score |-> ScoreOf(wins[s].cls, passing[i], layout.num_classes, cfg),
            class |-> ClassOf(wins[s].cls, passing[i], layout.num_classes)] @@
           Make(s, passing[i])]])

ModelBox(layout, wins, s, cell) ==
  LtrbBox(wins[s].box, cell, layout.scales[s].w, layout.reg_max, layout.strides[s])

\* decodeYoloLtrb().
decodeYoloLtrb(layout, wins, cfg, lb) ==
  Candidates(layout, wins, cfg,
             LAMBDA s, cell : [box |-> Unlettered(ModelBox(layout, wins, s, cell), lb)])

\* decodePose(): three channels a joint, positions by one of three rules.
Joint(w, cell, k, W, stride, cfg, lb) ==
  LET raw(c) == Read(w, cell, 3 * k + c)
      place(v, g) == CASE cfg.kpt_decode = "Absolute"          -> Fine * v
                       [] cfg.kpt_decode = "CellRelative"      -> Fine * (2 * v + g) * stride
                       [] cfg.kpt_decode = "CellRelativeWhole" -> (Fine * v + Centre(g)) * stride
  IN  [x |-> clampX(invX(place(raw(0), cell % W), lb), lb),
       y |-> clampY(invY(place(raw(1), cell \div W), lb), lb),
       score |-> IF cfg.kpt_apply_sigmoid THEN sigmoid(raw(2)) ELSE raw(2)]

decodePose(layout, wins, cfg, lb) ==
  Candidates(layout, wins, cfg,
    LAMBDA s, cell :
      [box |-> Unlettered(ModelBox(layout, wins, s, cell), lb),
       keypoints |-> [k \in 1..layout.extra \div 3 |->
                        Joint(wins[s].extra, cell, k - 1, layout.scales[s].w,
                              layout.strides[s], cfg, lb)]])

(***************************************************************************)
(* Oriented boxes [cx, cy, w, h, angle]: an angle is one of eight turns    *)
(* whose cosine and sine are multiples of 1/5.                             *)
(***************************************************************************)
Turn == [a \in 0..7 |-> CASE a = 0 -> <<5, 0>>  [] a = 1 -> <<4, 3>>   [] a = 2 -> <<0, 5>>
                          [] a = 3 -> <<-3, 4>> [] a = 4 -> <<-5, 0>>  [] a = 5 -> <<-4, -3>>
                          [] a = 6 -> <<0, -5>> [] a = 7 -> <<3, -4>>]
QuarterTurn == 2

\* (activated - angle_bias) * angle_scale; halving stands for the activation.
angleOf(raw, cfg) ==
  (((IF cfg.apply_angle_sigmoid THEN raw \div 2 ELSE raw) - cfg.angle_bias) * cfg.angle_scale) % 8

\* The box with its width the longer side.
regularized(r) == IF r.w < r.h THEN [r EXCEPT !.w = r.h, !.h = r.w, !.angle = (@ + QuarterTurn) % 8]
                  ELSE r

RotatedBox(box, ang, cell, W, layout, s, cfg) ==
  LET d(side) == Abs(Distance(box, cell, side, layout.reg_max))
      a  == angleOf(Read(ang, cell, 0), cfg)
      xf == d(2) - d(0)
      yf == d(3) - d(1)
      turned(p, q) == (xf * p + yf * q) \div 10
      stride == layout.strides[s]
      r == [cx |-> (Centre(cell % W) + turned(Turn[a][1], -Turn[a][2])) * stride,
            cy |-> (Centre(cell \div W) + turned(Turn[a][2], Turn[a][1])) * stride,
            w |-> (d(0) + d(2)) * stride, h |-> (d(1) + d(3)) * stride, angle |-> a]
  IN  IF cfg.regularize THEN regularized(r) ELSE r

decodeObb(layout, wins, cfg) ==
  Candidates(layout, wins, cfg,
    LAMBDA s, cell : [box |-> RotatedBox(wins[s].box, wins[s].extra, cell, layout.scales[s].w,
                                         layout, s, cfg)])

\* After the suppression: centre and sides through the inverse map, unclamped.
UnletteredObb(r, lb) ==
  [r EXCEPT !.cx = invX(@, lb), !.cy = invY(@, lb),
            !.w = (@ * lb.den) \div lb.num, !.h = (@ * lb.den) \div lb.num]

\* Corners in tenths.
rotatedBoxCorners(r) ==
  LET corner(lx, ly) == [x |-> 10 * r.cx + lx * Turn[r.angle][1] - ly * Turn[r.angle][2],
                         y |-> 10 * r.cy + lx * Turn[r.angle][2] + ly * Turn[r.angle][1]]
  IN  <<corner(-r.w, -r.h), corner(r.w, -r.h), corner(r.w, r.h), corner(-r.w, r.h)>>

cross(a, b, p) == (b.x - a.x) * (p.y - a.y) - (b.y - a.y) * (p.x - a.x)

\* Twice the shoelace area.
polygonArea(p) ==
  IF Len(p) < 3 THEN 0
  ELSE Abs(Total(DOMAIN p, LAMBDA i : LET q == p[(i % Len(p)) + 1] IN p[i].x * q.y - q.x * p[i].y))

\* Where the edge prv-cur meets the line a-b, to the nearest tenth below: the
\* end on the line when the two are parallel.
lineIntersect(prv, cur, a, b) ==
  LET p == cross(a, b, prv)
      c == cross(a, b, cur)
      at(u, v) == u + ((v - u) * (p \div 10)) \div ((p - c) \div 10)
  IN  IF (p - c) \div 10 = 0 THEN IF Abs(p) <= Abs(c) THEN prv ELSE cur
      ELSE [x |-> at(prv.x, cur.x), y |-> at(prv.y, cur.y)]

\* Sutherland-Hodgman against the four edges of `clip`; a vertex on an edge
\* counts as inside it.
ClipEdge(input, a, b, inside_sign) ==
  LET In(p) == cross(a, b, p) * inside_sign >= 0
      step(i) ==
        LET cur == input[i]
            prv == input[IF i = 1 THEN Len(input) ELSE i - 1]
            hit == lineIntersect(prv, cur, a, b)
        IN  CASE In(cur) /\ In(prv)   -> <<cur>>
              [] In(cur) /\ ~In(prv)  -> <<hit, cur>>
              [] ~In(cur) /\ In(prv)  -> <<hit>>
              [] ~In(cur) /\ ~In(prv) -> <<>>
  IN  FlattenSeq([i \in DOMAIN input |-> step(i)])

clipPolygon(subject, clip) ==
  LET sign == IF cross(clip[1], clip[2], clip[3]) >= 0 THEN 1 ELSE -1
  IN  FoldLeft(LAMBDA poly, e : ClipEdge(poly, clip[e], clip[(e % 4) + 1], sign),
               subject, <<1, 2, 3, 4>>)

rotatedIoU(a, b) ==
  LET inter == polygonArea(clipPolygon(rotatedBoxCorners(a), rotatedBoxCorners(b)))
      union == 200 * (a.w * a.h + b.w * b.h) - inter
  IN  IF a.w * a.h <= 0 \/ b.w * b.h <= 0 \/ inter <= 0 \/ union <= 0 THEN 0
      ELSE inter \div Most(1, union \div Unit)

rotatedNms(dets, order, iou_thresh, max_dets) ==
  greedy(dets, order, iou_thresh, max_dets, rotatedIoU)

(***************************************************************************)
(* postprocess().                                                          *)
(***************************************************************************)
Size(tensors, i) == Cardinality(DOMAIN tensors[i])
Cells(sc) == sc.h * sc.w

detectorWindows(layout, tensors) ==
  [s \in DOMAIN layout.scales |->
     LET sc == layout.scales[s]
         win(i, C) == Window(tensors[i], layout.channels_first, Cells(sc), C)
     IN  [cls |-> win(sc.cls, layout.num_classes), box |-> win(sc.box, sc.box_channels),
          sum |-> IF sc.sum > 0 /\ Size(tensors, sc.sum) >= Cells(sc) THEN win(sc.sum, 1)
                  ELSE <<>>]]

splitWindows(layout, tensors) ==
  [s \in DOMAIN layout.scales |->
     LET sc == layout.scales[s]
         nc == layout.num_classes
         win(i, C) == Window(tensors[i], layout.channels_first, Cells(sc), C)
         part(from, width) == FusedWindow(tensors[sc.cls], layout.channels_first, Cells(sc),
                                          sc.box_channels + nc, from, width)
     IN  [cls |-> IF layout.fused THEN part(sc.box_channels, nc) ELSE win(sc.cls, nc),
          box |-> IF layout.fused THEN part(0, sc.box_channels) ELSE win(sc.box, sc.box_channels),
          extra |-> IF layout.shared > 0
                    THEN SharedWindow(tensors[layout.shared], layout.offset[s], layout.anchors)
                    ELSE win(sc.extra, layout.extra),
          sum |-> <<>>]]

\* "Belt and braces": every tensor holds what the layout promises of it.
TensorsHold(layout, tensors) ==
  \A s \in DOMAIN layout.scales :
    LET sc == layout.scales[s]
    IN  IF "fused" \in DOMAIN layout /\ layout.fused
        THEN Size(tensors, sc.cls) >= Cells(sc) * (sc.box_channels + layout.num_classes)
        ELSE /\ Size(tensors, sc.cls) >= Cells(sc) * layout.num_classes
             /\ Size(tensors, sc.box) >= Cells(sc) * sc.box_channels

ExtraHolds(layout, tensors) ==
  IF layout.shared > 0 THEN Size(tensors, layout.shared) >= layout.anchors * layout.extra
  ELSE \A s \in DOMAIN layout.scales :
         Size(tensors, layout.scales[s].extra) >= Cells(layout.scales[s]) * layout.extra

Survivors(dets, cfg, Iou(_, _)) == Kept(dets, StableOrder(dets), cfg, Iou)

YoloLtrbDetector(model, tensors, cfg, lb) ==
  LET layout == resolveYoloHead(model, cfg.num_classes)
  IN  IF ~layout.ok THEN Refused
      ELSE IF ~TensorsHold(layout, tensors) THEN Refused
      ELSE [ok |-> TRUE, dets |-> Survivors(decodeYoloLtrb(layout, detectorWindows(layout, tensors),
                                                           cfg, lb), cfg, iou)]

PoseEstimator(model, tensors, cfg, lb) ==
  LET layout == resolvePoseHead(model, cfg.num_classes, 0)
  IN  IF ~layout.ok THEN Refused
      ELSE IF ~TensorsHold(layout, tensors) \/ ~ExtraHolds(layout, tensors) THEN Refused
      ELSE [ok |-> TRUE, dets |-> Survivors(decodePose(layout, splitWindows(layout, tensors),
                                                       cfg, lb), cfg, iou)]

ObbDetector(model, tensors, cfg, lb) ==
  LET layout == resolveObbHead(model, cfg.num_classes)
      kept == Survivors(decodeObb(layout, splitWindows(layout, tensors), cfg), cfg, rotatedIoU)
  IN  IF ~layout.ok THEN Refused
      ELSE IF ~TensorsHold(layout, tensors) \/ ~ExtraHolds(layout, tensors) THEN Refused
      ELSE [ok |-> TRUE, dets |-> [k \in DOMAIN kept |-> [kept[k] EXCEPT !.box = UnletteredObb(@, lb)]]]

(***************************************************************************)
(* Reference definitions.  A head is [kind, grids, input, nc, reg, extra]  *)
(* with made-up values for every scale, cell and channel; an encoding is   *)
(* [nhwc, fused, shared, sum, spelling] and an order of the outputs.       *)
(***************************************************************************)
ClsValue(s, cell, k) == ((37 * s + 11 * cell + 7 * k) % 10) * 100
BoxValue(s, cell, c) == (s + 3 * cell + 2 * c) % 3
ExtraValue(s, cell, c) == (5 * s + cell + 2 * c) % 7

BoxChannels(head) == IF head.reg > 0 THEN 4 * head.reg ELSE 4
GridCells(head, s) == head.grids[s][1] * head.grids[s][2]
AnchorsBefore(head, s) == Total(1..s - 1, LAMBDA k : GridCells(head, k))

GridTensor(head, s, C, nhwc, V(_, _)) ==
  LET n == GridCells(head, s)
  IN  [attr |-> [nhwc |-> nhwc, dims |-> IF nhwc THEN <<1, head.grids[s][1], head.grids[s][2], C>>
                                         ELSE <<1, C, head.grids[s][1], head.grids[s][2]>>],
       data |-> [i \in 0..C * n - 1 |-> IF nhwc THEN V(i \div C, i % C) ELSE V(i % n, i \div n)]]

ScaleTensors(head, enc, s) ==
  LET bc == BoxChannels(head)
      cls(cell, c) == ClsValue(s, cell, c)
      box(cell, c) == BoxValue(s, cell, c)
      all(cell, c) == IF c < bc THEN box(cell, c) ELSE cls(cell, c - bc)
      sum(cell, c) == Total(0..head.nc - 1, LAMBDA k : ClsValue(s, cell, k))
      extra(cell, c) == ExtraValue(s, cell, c)
      tensor(C, V(_, _)) == <<GridTensor(head, s, C, enc.nhwc, V)>>
  IN  (IF enc.fused THEN tensor(bc + head.nc, all) ELSE tensor(head.nc, cls) \o tensor(bc, box))
      \o (IF enc.sum THEN tensor(1, sum) ELSE <<>>)
      \o (IF head.extra > 0 /\ ~enc.shared THEN tensor(head.extra, extra) ELSE <<>>)

SharedTensor(head, enc) ==
  LET A == AnchorsBefore(head, Len(head.grids) + 1)
      C == head.extra
      scale(a) == CHOOSE s \in DOMAIN head.grids :
                    a \in AnchorsBefore(head, s)..AnchorsBefore(head, s + 1) - 1
      V(a, c) == ExtraValue(scale(a), a - AnchorsBefore(head, scale(a)), c)
  IN  [attr |-> [nhwc |-> FALSE,
                 dims |-> CASE enc.spelling = "planes" -> <<1, C, A>>
                            [] enc.spelling = "split"  -> <<1, C \div 3, 3, A>>
                            [] enc.spelling = "flat"   -> <<1, C * A>>
                            [] enc.spelling = "column" -> <<1, C, A, 1>>],
       data |-> [i \in 0..C * A - 1 |-> V(i % A, i \div A)]]

Outputs(head, enc) ==
  FlattenSeq([s \in DOMAIN head.grids |-> ScaleTensors(head, enc, s)])
  \o (IF enc.shared THEN <<SharedTensor(head, enc)>> ELSE <<>>)

Ran(head, enc, rotation, cfg, lb) ==
  LET outs == Outputs(head, enc)
      at(i) == outs[((i - 1 + rotation) % Len(outs)) + 1]
      model == [input |-> head.input, outs |-> [i \in DOMAIN outs |-> at(i).attr]]
      data == [i \in DOMAIN outs |-> at(i).data]
  IN  CASE head.kind = "detect" -> YoloLtrbDetector(model, data, cfg, lb)
        [] head.kind = "pose"   -> PoseEstimator(model, data, cfg, lb)
        [] head.kind = "obb"    -> ObbDetector(model, data, cfg, lb)

Plain == [nhwc |-> FALSE, fused |-> FALSE, shared |-> FALSE, sum |-> FALSE, spelling |-> "planes"]

\* What the values say there is to find, before any suppression.
Expected(head, cfg) ==
  {[s |-> s, score |-> Max({ClsValue(s, cell, k) : k \in 0..head.nc - 1}), cell |-> cell] :
     s \in DOMAIN head.grids, cell \in 0..Max({GridCells(head, t) : t \in DOMAIN head.grids}) - 1}
Found(head, cfg) == {e \in Expected(head, cfg) : e.cell < GridCells(head, e.s)
                                                 /\ e.score >= cfg.conf_thresh}

\* Which tensor is which cannot be read off the shapes.
Ambiguous(head, enc, cfg) ==
  \/ head.kind = "detect" /\ cfg.num_classes = 0
       /\ boxRank(head.nc) <= boxRank(BoxChannels(head))
  \/ head.nc = BoxChannels(head) /\ ~enc.fused
  \/ head.kind = "pose" /\ ~enc.shared
       /\ LET w == IF enc.fused THEN BoxChannels(head) + head.nc ELSE BoxChannels(head)
          IN  w >= 9 /\ w % 3 = 0

\* However an export lays a head out - channels first or last, box and classes
\* fused or apart, the extra branch shared or per scale and however its axes are
\* split, with or without the score-sum pre-filter, its outputs in whatever
\* order - the frame decodes to the same detections, or the head is refused
\* because its shapes are ambiguous; and no cell is lost or invented.
LayoutDoesNotMatter(head, enc, rotation, cfg, lb) ==
  LET ran == Ran(head, enc, rotation, cfg, lb)
      ref == Ran(head, Plain, 0, cfg, lb)
  IN  /\ ran.ok \/ Ambiguous(head, enc, cfg)
      /\ (ran.ok /\ ref.ok) => ran.dets = ref.dets
      /\ (ran.ok /\ ~Ambiguous(head, enc, cfg) /\ cfg.iou_thresh >= Unit /\ cfg.max_dets = 0) =>
           Len(ran.dets) = Cardinality(Found(head, cfg))

\* Whatever order equal scores were sorted into: no two detections of a class
\* overlap beyond the threshold, and every one dropped has a better one to
\* blame that was kept, or as many as were asked for score no less.
SuppressionIsSound(dets, iou_thresh, max_dets) ==
  \A order \in Orders(dets) :
    LET keep == nms(dets, order, iou_thresh, max_dets)
        clash(i, j) == dets[i].class = dets[j].class /\ iou(dets[i].box, dets[j].box) > iou_thresh
    IN  /\ \A i, j \in DOMAIN keep : i < j => dets[keep[i]].score >= dets[keep[j]].score
        /\ \A i, j \in ToSet(keep) : i # j => ~clash(i, j)
        /\ \A d \in DOMAIN dets \ ToSet(keep) :
             \/ \E k \in ToSet(keep) : clash(k, d) /\ dets[k].score >= dets[d].score
             \/ /\ max_dets > 0 /\ Len(keep) = max_dets
                /\ \A k \in ToSet(keep) : dets[k].score >= dets[d].score

\* The overlap of two oriented boxes is that of the upright ones when both are
\* turned alike, whichever is clipped against which and whichever side is
\* called the width, to within the rounding of a clipped corner.
TurningKeepsOverlap(a, b, turn, tolerance) ==
  LET upright(r) == [x1 |-> 2 * r.cx - r.w, y1 |-> 2 * r.cy - r.h,
                     x2 |-> 2 * r.cx + r.w, y2 |-> 2 * r.cy + r.h]
      about(p, q) == Turn[turn][1] * p - Turn[turn][2] * q
      \* a centre turned with the frame, five times as far out
      turned(r) == [cx |-> Turn[turn][1] * r.cx - Turn[turn][2] * r.cy,
                    cy |-> Turn[turn][2] * r.cx + Turn[turn][1] * r.cy,
                    w |-> 5 * r.w, h |-> 5 * r.h, angle |-> turn]
      ref == iou(upright(a), upright(b))
  IN  /\ Abs(rotatedIoU(turned(a), turned(b)) - ref) <= tolerance
      /\ Abs(rotatedIoU(turned(b), regularized(turned(a))) - ref) <= tolerance
=============================================================================

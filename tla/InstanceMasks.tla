--------------------------- MODULE InstanceMasks ---------------------------
(***************************************************************************)
(* Instance segmentation (src/src/tasks/instance_seg.cc): the head with a  *)
(* prototype tensor, and the assembly of each instance's mask on one       *)
(* canvas that all the instances of a frame share.                         *)
(*                                                                         *)
(* Mask values are exact: an axis that resizes src_n to dst_n has weights  *)
(* in units of 1/(2 * dst_n), and every plane carries the product of the   *)
(* units of the resizes it went through.                                   *)
(***************************************************************************)
EXTENDS YoloDecode

(***************************************************************************)
(* resolveInstanceSegHead().                                               *)
(***************************************************************************)
\* The branch with the prototype's width; of two, the later output.
CoefAt(g, num_coef) ==
  LET at == {i \in DOMAIN g : g[i].c = num_coef}
  IN  IF at = {} THEN 0 ELSE CHOOSE i \in at : \A j \in at : g[j].index <= g[i].index

segScale(g, num_coef, num_classes) ==
  LET sum  == SumAt(g, 4)
      rest == IF sum > 0 THEN RemoveAt(g, sum) ELSE g
      mc   == CoefAt(rest, num_coef)
      two  == RemoveAt(rest, mc)
      pair == ClsAndBox(two[1], two[2], num_classes)
  IN  IF Len(rest) # 3 \/ mc = 0 THEN Refused
      ELSE IF pair = <<>> THEN Refused
      ELSE IF \/ ~IsBoxWidth(pair[2].c)
              \/ \E o \in {pair[2], rest[mc]} : o.channels_first # pair[1].channels_first
      THEN Refused
      ELSE [ok |-> TRUE, cls |-> pair[1].index, box |-> pair[2].index, extra |-> rest[mc].index,
            sum |-> IF sum > 0 THEN g[sum].index ELSE 0, h |-> g[1].h, w |-> g[1].w,
            channels_first |-> pair[1].channels_first,
            num_classes |-> pair[1].c, box_channels |-> pair[2].c]

resolveInstanceSegHead(model, num_classes) ==
  LET groups == groupByGrid(Branches(model))
      alone  == {g \in DOMAIN groups : Len(groups[g]) = 1}
      proto  == groups[CHOOSE g \in alone : TRUE][1]
      branches == SelectSeq(groups, LAMBDA g : Len(g) > 1)
      scales == [g \in DOMAIN branches |->
                   IF Len(branches[g]) \in 3..4
                   THEN segScale(branches[g], proto.c, num_classes) ELSE Refused]
      input_h == inputHw(model)[1]
  IN  IF \/ Len(model.outs) < 4
         \/ \E i \in DOMAIN model.outs : Malformed(model.outs[i], {4})
         \/ Cardinality(alone) # 1 \/ branches = <<>>
      THEN Refused
      ELSE IF \/ ~Consistent(scales)
              \/ \E s \in DOMAIN scales : scales[s].channels_first # scales[1].channels_first
              \/ input_h <= 0 \/ ~StridesDivide(scales, input_h)
      THEN Refused
      ELSE [ok |-> TRUE, scales |-> scales, channels_first |-> scales[1].channels_first,
            num_classes |-> scales[1].num_classes, reg_max |-> RegMax(scales[1].box_channels),
            extra |-> proto.c, proto |-> proto,
            strides |-> [s \in DOMAIN scales |-> input_h \div scales[s].h]]

(***************************************************************************)
(* MaskAssembler.                                                          *)
(***************************************************************************)
clampi(v, lo, hi) == IF v < lo THEN lo ELSE IF v > hi THEN hi ELSE v
Ceil(v) == -((-v) \div Fine)
ceilClamped(v, lo, hi) == clampi(Ceil(v), lo, hi)
\* std::lround of n / d, d > 0 and n >= 0.
lround(n, d) == (2 * n + d) \div (2 * d)

\* Pixel centres: where d falls between src pixels i0 and i1, and how far.
axisLerp(dst_n, src_n) ==
  [d \in 0..dst_n - 1 |->
     LET f == clampi((2 * d + 1) * src_n - dst_n, 0, 2 * dst_n * (src_n - 1))
         i == f \div (2 * dst_n)
     IN  [i0 |-> i, i1 |-> Least(i + 1, src_n - 1), w |-> f % (2 * dst_n), unit |-> 2 * dst_n]]

Blend(l, a, b) == a * (l.unit - l.w) + b * l.w
Bilinear(lx, ly, V(_, _)) ==
  Blend(ly, Blend(lx, V(ly.i0, lx.i0), V(ly.i0, lx.i1)),
            Blend(lx, V(ly.i1, lx.i0), V(ly.i1, lx.i1)))

\* The part of the canvas the scaled source occupies.
windowOf(lb) ==
  LET nw == clampi(lround(lb.srcW * lb.num, lb.den), 1, lb.dstW)
      nh == clampi(lround(lb.srcH * lb.num, lb.den), 1, lb.dstH)
  IN  [nw |-> nw, nh |-> nh,
       px |-> clampi(lround(lb.padX, Fine), 0, lb.dstW - nw),
       py |-> clampi(lround(lb.padY, Fine), 0, lb.dstH - nh)]

\* sigmoid(coef . proto) at the prototype's grid; proto is [h, w, c, at(y, x, c)]
\* read in either channel order.
protoAt(proto, y, x, c) ==
  LET p == y * proto.w + x
  IN  proto.data[IF proto.channels_first THEN c * proto.h * proto.w + p ELSE p * proto.c + c]

protoMask(coef, proto) ==
  [p \in (0..proto.h - 1) \X (0..proto.w - 1) |->
     sigmoid(Total(0..proto.c - 1, LAMBDA c : coef[c] * protoAt(proto, p[1], p[2], c)))]

Canvas(lb) == (0..lb.dstH - 1) \X (0..lb.dstW - 1)
Within(p, r) == p[1] >= r.y0 /\ p[1] < r.y1 /\ p[2] >= r.x0 /\ p[2] < r.x1
NoRect == [x0 |-> 0, y0 |-> 0, x1 |-> 0, y1 |-> 0]

\* Pixel k is kept when x1 <= k < x2.
CropRect(box, lb) ==
  [x0 |-> ceilClamped(box.x1, 0, lb.dstW), x1 |-> ceilClamped(box.x2, 0, lb.dstW),
   y0 |-> ceilClamped(box.y1, 0, lb.dstH), y1 |-> ceilClamped(box.y2, 0, lb.dstH)]

\* A mutant: the canvas is kept as the instance before left it.
clearPreviousLeft(a) == a.canvas

clearPrevious(a) == [p \in DOMAIN a.canvas |-> IF Within(p, a.prev) THEN 0 ELSE a.canvas[p]]

\* The upsampled prototype mask, drawn over what is left on the canvas.
draw(canvas, crop, pm, proto, lb) ==
  LET cx == axisLerp(lb.dstW, proto.w)
      cy == axisLerp(lb.dstH, proto.h)
  IN  [p \in DOMAIN canvas |->
         IF Within(p, crop) THEN Bilinear(cx[p[2]], cy[p[1]], LAMBDA y, x : pm[<<y, x>>])
         ELSE canvas[p]]

\* The rectangle of the source a mask covers.
maskRect(box, cfg, lb) ==
  LET x0 == clampi(box.x1 \div Fine, 0, lb.srcW)
      y0 == clampi(box.y1 \div Fine, 0, lb.srcH)
  IN  IF cfg.full_frame_masks THEN [x0 |-> 0, y0 |-> 0, x1 |-> lb.srcW, y1 |-> lb.srcH]
      ELSE [x0 |-> x0, x1 |-> Most(x0, ceilClamped(box.x2, 0, lb.srcW)),
            y0 |-> y0, y1 |-> Most(y0, ceilClamped(box.y2, 0, lb.srcH))]

\* A source pixel is set when the window's canvas, resized to the source,
\* exceeds the threshold there; taps that both miss the crop are skipped.
thresholded(canvas, crop, rect, cfg, lb, unit) ==
  LET w  == windowOf(lb)
      ox == axisLerp(lb.srcW, w.nw)
      oy == axisLerp(lb.srcH, w.nh)
      skipped(l, pad, lo, hi) == pad + l.i1 < lo \/ pad + l.i0 >= hi
  IN  {p \in (rect.y0..rect.y1 - 1) \X (rect.x0..rect.x1 - 1) :
         LET lx == ox[p[2]]
             ly == oy[p[1]]
         IN  /\ ~skipped(ly, w.py, crop.y0, crop.y1)
             /\ ~skipped(lx, w.px, crop.x0, crop.x1)
             /\ Bilinear(lx, ly, LAMBDA y, x : canvas[<<w.py + y, w.px + x>>])
                  > cfg.mask_thresh * unit * lx.unit * ly.unit}

\* One instance on the assembler `a`, [canvas, prev, out].
assemble(a, inst, proto, cfg, lb) ==
  LET crop == CropRect(inst.model_box, lb)
      canvas == draw(clearPrevious(a), crop, protoMask(inst.coef, proto), proto, lb)
      rect == maskRect(inst.box, cfg, lb)
  IN  [canvas |-> canvas, prev |-> crop,
       out |-> Append(a.out, [inst EXCEPT !.rect = rect,
                 !.mask = thresholded(canvas, crop, rect, cfg, lb, 4 * lb.dstW * lb.dstH)])]

(***************************************************************************)
(* decodeInstanceSeg() and InstanceSegmenter::postprocess().               *)
(***************************************************************************)
segCandidates(layout, wins, cfg, lb) ==
  Candidates(layout, wins, cfg,
    LAMBDA s, cell : [box |-> ModelBox(layout, wins, s, cell),
                      coef |-> [c \in 0..layout.extra - 1 |-> Read(wins[s].extra, cell, c)]])

Assembled(kept, proto, cfg, lb) ==
  FoldLeft(LAMBDA a, inst : assemble(a, inst, proto, cfg, lb),
           [canvas |-> [p \in Canvas(lb) |-> 0], prev |-> NoRect, out |-> <<>>], kept).out

\* Boxes leave the model's pixels only after the suppression.
decodeInstanceSeg(layout, wins, proto, cfg, lb) ==
  LET kept == Survivors(segCandidates(layout, wins, cfg, lb), cfg, iou)
      insts == [k \in DOMAIN kept |->
                  [score |-> kept[k].score, class |-> kept[k].class, coef |-> kept[k].coef,
                   model_box |-> kept[k].box, box |-> Unlettered(kept[k].box, lb),
                   rect |-> NoRect, mask |-> {}]]
  IN  IF cfg.compute_masks THEN Assembled(insts, proto, cfg, lb) ELSE insts

segWindows(layout, tensors) ==
  [s \in DOMAIN layout.scales |->
     LET sc == layout.scales[s]
         win(i, C) == Window(tensors[i], layout.channels_first, Cells(sc), C)
     IN  [cls |-> win(sc.cls, layout.num_classes), box |-> win(sc.box, sc.box_channels),
          extra |-> win(sc.extra, layout.extra), sum |-> <<>>]]

InstanceSegmenter(model, tensors, cfg, lb) ==
  LET layout == resolveInstanceSegHead(model, cfg.num_classes)
      p == layout.proto
      proto == [h |-> p.h, w |-> p.w, c |-> p.c, channels_first |-> p.channels_first,
                data |-> tensors[p.index]]
  IN  IF ~layout.ok THEN Refused
      ELSE IF \/ ~TensorsHold(layout, tensors)
              \/ \E s \in DOMAIN layout.scales :
                   Size(tensors, layout.scales[s].extra) < Cells(layout.scales[s]) * layout.extra
              \/ Size(tensors, p.index) < p.h * p.w * p.c
      THEN Refused
      ELSE [ok |-> TRUE,
            insts |-> decodeInstanceSeg(layout, segWindows(layout, tensors), proto, cfg, lb)]

(***************************************************************************)
(* Reference definitions.                                                  *)
(***************************************************************************)
\* One instance alone: upsample the whole canvas, zero what is off the box, cut
\* the padding off, resize to the source, threshold; nothing skipped or shared.
ReferenceMask(inst, proto, cfg, lb) ==
  LET w == windowOf(lb)
      crop == CropRect(inst.model_box, lb)
      pm == protoMask(inst.coef, proto)
      up == [p \in Canvas(lb) |-> Bilinear(axisLerp(lb.dstW, proto.w)[p[2]],
                                           axisLerp(lb.dstH, proto.h)[p[1]],
                                           LAMBDA y, x : pm[<<y, x>>])]
      cropped == [p \in Canvas(lb) |-> IF Within(p, crop) THEN up[p] ELSE 0]
      cut == [p \in (0..w.nh - 1) \X (0..w.nw - 1) |-> cropped[<<p[1] + w.py, p[2] + w.px>>]]
      ox == axisLerp(lb.srcW, w.nw)
      oy == axisLerp(lb.srcH, w.nh)
  IN  {p \in (0..lb.srcH - 1) \X (0..lb.srcW - 1) :
         Bilinear(ox[p[2]], oy[p[1]], LAMBDA y, x : cut[<<y, x>>])
           > cfg.mask_thresh * 4 * lb.dstW * lb.dstH * ox[p[2]].unit * oy[p[1]].unit}

\* Each instance of a frame has the mask it would have had alone: the canvas
\* it was drawn on keeps nothing of the instances before it, and the rows and
\* columns that were skipped had nothing to contribute.
MasksAreIndependent(insts, proto, cfg, lb) ==
  LET out == Assembled(insts, proto, cfg, lb)
  IN  \A k \in DOMAIN insts :
        out[k].mask = {p \in ReferenceMask(insts[k], proto, cfg, lb) : Within(p, out[k].rect)}

\* A whole head, as YoloDecode has it, with a prototype of its own grid and
\* channel order among the outputs.
ProtoHw == 3
ProtoTensor(head, nhwc) ==
  GridTensor([head EXCEPT !.grids = <<<<ProtoHw, ProtoHw>>>>], 1, head.extra, nhwc,
             LAMBDA cell, c : ((cell * 7 + c * 3) % 5) - 2)

RanSegmenter(head, enc, proto_nhwc, rotation, cfg, lb) ==
  LET outs == Outputs(head, enc) \o <<ProtoTensor(head, proto_nhwc)>>
      at(i) == outs[((i - 1 + rotation) % Len(outs)) + 1]
  IN  InstanceSegmenter([input |-> head.input, outs |-> [i \in DOMAIN outs |-> at(i).attr]],
                        [i \in DOMAIN outs |-> at(i).data], cfg, lb)

\* As for the other heads; and the coefficients' branch cannot be told by its
\* width from another as wide, where only the export's order tells.
AmbiguousSegment(head, rotation, cfg) ==
  \/ cfg.num_classes = 0 /\ boxRank(head.nc) <= boxRank(BoxChannels(head))
  \/ head.nc = BoxChannels(head)
  \/ head.extra \in {head.nc, BoxChannels(head)} /\ rotation # 0

\* However a segmentation head and its prototype are laid out and ordered, the
\* frame decodes to the same instances or the head is refused as ambiguous; each
\* carries the coefficients of a cell with its score, and the mask they give it.
SegmentLayoutDoesNotMatter(head, enc, proto_nhwc, rotation, cfg, lb) ==
  LET ran == RanSegmenter(head, enc, proto_nhwc, rotation, cfg, lb)
      ref == RanSegmenter(head, Plain, FALSE, 0, cfg, lb)
      proto == [h |-> ProtoHw, w |-> ProtoHw, c |-> head.extra, channels_first |-> TRUE,
                data |-> ProtoTensor(head, FALSE).data]
      coefs(e) == [c \in 0..head.extra - 1 |-> ExtraValue(e.s, e.cell, c)]
  IN  ~AmbiguousSegment(head, rotation, cfg) =>
        /\ ran.ok
        /\ ran.insts = ref.insts
        /\ cfg.iou_thresh >= Unit => Len(ran.insts) = Cardinality(Found(head, cfg))
        /\ \A k \in DOMAIN ran.insts :
             LET inst == ran.insts[k]
             IN  /\ \E e \in Found(head, cfg) : e.score = inst.score /\ coefs(e) = inst.coef
                 /\ inst.mask = {p \in ReferenceMask(inst, proto, cfg, lb) : Within(p, inst.rect)}

\* instance_seg.cc: "Only the instance's own box can be non-zero, so the caller
\* can ask for just that rectangle. Grow it to whole pixels so nothing is cut
\* off."
NothingIsCutOff(insts, proto, cfg, lb) ==
  LET out == Assembled(insts, proto, cfg, lb)
  IN  \A k \in DOMAIN insts : out[k].mask = ReferenceMask(insts[k], proto, cfg, lb)
=============================================================================

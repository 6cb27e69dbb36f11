------------------------------- MODULE Faces -------------------------------
(***************************************************************************)
(* src/src/tasks/face.cc: the prior-box face detector, and the alignment   *)
(* of a face to the template its identity model was trained on.            *)
(*                                                                         *)
(* Positions are in units of 1/Fine of a model pixel, so a prior is        *)
(* [cx, cy, w, h] already multiplied by the canvas.  The variances are in  *)
(* tenths; 2^x stands for std::exp.                                        *)
(***************************************************************************)
EXTENDS YoloHeads

kLocChannels == 4
kConfChannels == 2
kLandmChannels == 10
kNumLandmarks == kLandmChannels \div 2

(***************************************************************************)
(* The head.                                                               *)
(***************************************************************************)
\* Leading unit axes carry nothing.
Squeezed(shape) ==
  LET k == CHOOSE k \in 0..Len(shape) : /\ \A j \in 1..k : shape[j] = 1
                                        /\ k = Len(shape) \/ shape[k + 1] # 1
  IN  SubSeq(shape, k + 1, Len(shape))

axisOrder(shape, channels) ==
  LET d == Squeezed(shape)
  IN  IF Len(d) # 2 \/ channels \notin ToSet(d) THEN Refused
      ELSE IF d[2] = channels THEN [ok |-> TRUE, n |-> d[1], channels_first |-> FALSE]
      ELSE [ok |-> TRUE, n |-> d[2], channels_first |-> TRUE]

at(data, ax, channels, i, c) == data[IF ax.channels_first THEN c * ax.n + i ELSE i * channels + c]

\* The first branch whose width one of the output's two axes has.
Looks(shape) ==
  LET d == Squeezed(shape)
  IN  IF Len(d) # 2 THEN 0
      ELSE CASE kLocChannels \in ToSet(d)   -> kLocChannels
             [] kConfChannels \in ToSet(d)  -> kConfChannels
             [] kLandmChannels \in ToSet(d) -> kLandmChannels
             [] OTHER -> 0

resolveFaceHead(model) ==
  LET shapes == [i \in DOMAIN model.outs |-> model.outs[i].dims]
      at_(c) == {i \in DOMAIN shapes : Looks(shapes[i]) = c}
      branch(c) == CHOOSE i \in at_(c) : TRUE
      priors(c) == axisOrder(shapes[branch(c)], c).n
      hw == inputHw(model)
      widths == {kLocChannels, kConfChannels, kLandmChannels}
  IN  IF Len(shapes) < 3 \/ \E c \in widths : Cardinality(at_(c)) # 1 THEN Refused
      ELSE IF Cardinality({priors(c) : c \in widths}) # 1 \/ hw[1] <= 0 \/ hw[2] <= 0 THEN Refused
      ELSE [ok |-> TRUE, loc |-> branch(kLocChannels), conf |-> branch(kConfChannels),
            landm |-> branch(kLandmChannels), num_priors |-> priors(kLocChannels),
            input_h |-> hw[1], input_w |-> hw[2]]

(***************************************************************************)
(* generatePriors(): scale by scale, cell by cell, size by size.           *)
(***************************************************************************)
CeilDiv(a, b) == (a + b - 1) \div b

priorBox(i, j, step, min_size, cfg) ==
  LET within(v, hi) == IF cfg.clip THEN Least(v, Fine * hi) ELSE v
  IN  [cx |-> within(Fine * j * step + (Fine * step) \div 2, cfg.input_w),
       cy |-> within(Fine * i * step + (Fine * step) \div 2, cfg.input_h),
       w |-> within(Fine * min_size, cfg.input_w), h |-> within(Fine * min_size, cfg.input_h)]

generatePriors(cfg) ==
  FlattenSeq([k \in DOMAIN cfg.steps |->
    LET step == cfg.steps[k]
        sizes == cfg.min_sizes[k]
        grid_w == CeilDiv(cfg.input_w, step)
        cells == CeilDiv(cfg.input_h, step) * grid_w
    IN  [n \in 1..cells * Len(sizes) |->
           LET cell == (n - 1) \div Len(sizes)
           IN  priorBox(cell \div grid_w, cell % grid_w, step, sizes[((n - 1) % Len(sizes)) + 1], cfg)]])

(***************************************************************************)
(* decodeFaces().                                                          *)
(***************************************************************************)
Grown(w, v, var_size) == IF v * var_size >= 0 THEN w * 2 ^ (v * var_size)
                         ELSE w \div (2 ^ (-(v * var_size)))

decodeFaces(layout, shapes, tensors, priors, cfg, lb) ==
  LET read(i, channels) == LET ax == axisOrder(shapes[i], channels)
                           IN  [ax |-> ax, C |-> channels, data |-> tensors[i]]
      loc == read(layout.loc, kLocChannels)
      conf == read(layout.conf, kConfChannels)
      landm == read(layout.landm, kLandmChannels)
      of(b, i, c) == at(b.data, b.ax, b.C, i, c)
      score(i) == LET s == of(conf, i, cfg.face_class)
                      o == of(conf, i, kConfChannels - 1 - cfg.face_class)
                  IN  IF cfg.apply_softmax THEN sigmoid(s - o) ELSE s
      shifted(c, delta, side) == c + (delta * cfg.var_center * side) \div 10
      box(i) == LET p == priors[i + 1]
                    cx == shifted(p.cx, of(loc, i, 0), p.w)
                    cy == shifted(p.cy, of(loc, i, 1), p.h)
                    w == Grown(p.w, of(loc, i, 2), cfg.var_size)
                    h == Grown(p.h, of(loc, i, 3), cfg.var_size)
                IN  Unlettered([x1 |-> cx - w \div 2, y1 |-> cy - h \div 2,
                                x2 |-> cx + w \div 2, y2 |-> cy + h \div 2], lb)
      mark(i, t) == LET p == priors[i + 1]
                    IN  [x |-> clampX(invX(shifted(p.cx, of(landm, i, 2 * t), p.w), lb), lb),
                         y |-> clampY(invY(shifted(p.cy, of(landm, i, 2 * t + 1), p.h), lb), lb)]
      rows == SelectSeq([i \in DOMAIN priors |-> i - 1], LAMBDA i : score(i) >= cfg.conf_thresh)
      boxes == [k \in DOMAIN rows |-> [box |-> box(rows[k]), score |-> score(rows[k]), class |-> 0]]
      marks == [k \in DOMAIN rows |-> [t \in 1..kNumLandmarks |-> mark(rows[k], t - 1)]]
      keep == nms(boxes, StableOrder(boxes), cfg.iou_thresh, cfg.max_faces)
  IN  IF {loc.ax.n, conf.ax.n, landm.ax.n} # {Len(priors)} THEN Refused
      ELSE [ok |-> TRUE, faces |-> [k \in DOMAIN keep |->
              [box |-> boxes[keep[k]].box, score |-> boxes[keep[k]].score,
               landmarks |-> marks[keep[k]]]]]

\* The canvas comes from the model; the anchor count has to match it.
FaceDetector(model, tensors, cfg, lb) ==
  LET layout == resolveFaceHead(model)
      eff == [cfg EXCEPT !.input_w = layout.input_w, !.input_h = layout.input_h]
      priors == generatePriors(eff)
      shapes == [i \in DOMAIN model.outs |-> model.outs[i].dims]
  IN  IF ~layout.ok THEN Refused
      ELSE IF Len(priors) # layout.num_priors THEN Refused
      ELSE decodeFaces(layout, shapes, tensors, priors, eff, lb)

(***************************************************************************)
(* Alignment.  A similarity is [a, b, tx, ty] over a common denominator    *)
(* den: x' = (a x - b y + tx) / den, y' = (b x + a y + ty) / den.          *)
(***************************************************************************)
Sum5(V(_)) == Total(1..5, V)

similarityTransform(src, dst) ==
  LET sx == Sum5(LAMBDA i : src[i].x)
      sy == Sum5(LAMBDA i : src[i].y)
      dx == Sum5(LAMBDA i : dst[i].x)
      dy == Sum5(LAMBDA i : dst[i].y)
      \* centred, times five
      zx(i) == 5 * src[i].x - sx
      zy(i) == 5 * src[i].y - sy
      wx(i) == 5 * dst[i].x - dx
      wy(i) == 5 * dst[i].y - dy
      num_r == Sum5(LAMBDA i : wx(i) * zx(i) + wy(i) * zy(i))
      num_i == Sum5(LAMBDA i : wy(i) * zx(i) - wx(i) * zy(i))
      den == Sum5(LAMBDA i : zx(i) * zx(i) + zy(i) * zy(i))
      fit(a, b, d) == [a |-> a, b |-> b, den |-> d, tx |-> (dx * d - (a * sx - b * sy)) \div 5,
                       ty |-> (dy * d - (b * sx + a * sy)) \div 5]
  IN  IF den > 0 THEN fit(num_r, num_i, den) ELSE fit(1, 0, 1)

Apply(m, p) == [x |-> (m.a * p.x - m.b * p.y + m.tx) \div m.den,
                y |-> (m.b * p.x + m.a * p.y + m.ty) \div m.den]

\* FALSE when nothing can be inverted; the inverse is over a^2 + b^2.
invertAffine(m) ==
  LET det == m.a * m.a + m.b * m.b
  IN  IF det = 0 THEN Refused
      ELSE [ok |-> TRUE, a |-> m.a * m.den, b |-> -(m.b * m.den), den |-> det,
            tx |-> -(m.a * m.tx + m.b * m.ty), ty |-> m.b * m.tx - m.a * m.ty]

\* Bilinear, with `pad` off the frame; img is [w, h, at(x, y)], x and y in 1/2.
sampleFaceChannel(img, x, y, pad) ==
  LET x0 == x \div 2
      y0 == y \div 2
      wx(i) == IF i = 1 THEN x % 2 ELSE 2 - (x % 2)
      wy(j) == IF j = 1 THEN y % 2 ELSE 2 - (y % 2)
      px(i, j) == IF x0 + i \in 0..img.w - 1 /\ y0 + j \in 0..img.h - 1
                  THEN img.at[<<x0 + i, y0 + j>>] ELSE pad
  IN  Total((0..1) \X (0..1), LAMBDA k : wx(k[1]) * wy(k[2]) * px(k[1], k[2])) \div 4

\* FaceRecognizer::feed(): each pixel centre of the crop through the inverse, in
\* half pixels, back to a pixel index of the source.
feed(img, m, in_w, in_h, pad) ==
  LET inv == invertAffine(m)
      from(x, y) == Apply([inv EXCEPT !.tx = 2 * @, !.ty = 2 * @], [x |-> 2 * x + 1, y |-> 2 * y + 1])
  IN  IF ~inv.ok THEN Refused
      ELSE [ok |-> TRUE, crop |-> [p \in (0..in_w - 1) \X (0..in_h - 1) |->
              LET s == from(p[1], p[2]) IN sampleFaceChannel(img, s.x - 1, s.y - 1, pad)]]

Identity == [a |-> 1, b |-> 0, den |-> 1, tx |-> 0, ty |-> 0]

(***************************************************************************)
(* Reference definitions.                                                  *)
(***************************************************************************)
FaceValue(C, i, c) == CASE C = kLocChannels   -> ((i + c) % 3) - 1
                        [] C = kConfChannels  -> IF c = 1 THEN ((7 * i) % 10) * 100 ELSE 0
                        [] C = kLandmChannels -> ((2 * i + c) % 5) - 2

FaceOutput(C, n, channels_first, ones) ==
  [attr |-> [nhwc |-> FALSE, dims |-> [k \in 1..ones |-> 1]
                                       \o (IF channels_first THEN <<C, n>> ELSE <<n, C>>)],
   data |-> [k \in 0..C * n - 1 |-> IF channels_first THEN FaceValue(C, k % n, k \div n)
                                    ELSE FaceValue(C, k \div C, k % C)]]

\* order is a permutation of the three branches; first their axes.
FaceRan(order, first, ones, n, cfg, lb) ==
  LET widths == <<kLocChannels, kConfChannels, kLandmChannels>>
      outs == [k \in 1..3 |-> FaceOutput(widths[order[k]], n, first[order[k]], ones)]
  IN  FaceDetector([input |-> [dims |-> <<1, 3, cfg.input_h, cfg.input_w>>, nhwc |-> FALSE],
                    outs |-> [k \in 1..3 |-> outs[k].attr]],
                   [k \in 1..3 |-> outs[k].data], cfg, lb)

\* A face model decodes alike in whatever order and orientation its branches
\* are exported, its landmarks stay on the prior their box came from, and a
\* prior layout that is not the model's is refused.
FacesDecodeAlike(order, first, ones, cfg, lb) ==
  LET priors == generatePriors(cfg)
      ran == FaceRan(order, first, ones, Len(priors), cfg, lb)
      ref == FaceRan(<<1, 2, 3>>, [k \in 1..3 |-> FALSE], 0, Len(priors), cfg, lb)
  IN  /\ ran.ok /\ ran = ref
      /\ ~FaceRan(order, first, ones, Len(priors) + 1, cfg, lb).ok
      /\ \A f \in ToSet(ran.faces) : \E i \in DOMAIN priors :
           /\ f.score = FaceValue(kConfChannels, i - 1, 1)
           /\ f.landmarks[1].x = clampX(invX(priors[i].cx
                + (FaceValue(kLandmChannels, i - 1, 0) * cfg.var_center * priors[i].w) \div 10, lb), lb)
           /\ f.landmarks[5].y = clampY(invY(priors[i].cy
                + (FaceValue(kLandmChannels, i - 1, 9) * cfg.var_center * priors[i].h) \div 10, lb), lb)

\* A face that is a turned, scaled and moved copy of the template comes back
\* onto it exactly; the inverse undoes the fit; a mirrored face is never
\* matched by mirroring; five coincident points are only moved.
AlignmentRecovers(tpl, a, b, tx, ty) ==
  LET place(p) == [x |-> a * p.x - b * p.y + tx, y |-> b * p.x + a * p.y + ty]
      m == similarityTransform([i \in 1..5 |-> place(tpl[i])], tpl)
      mirrored == similarityTransform([i \in 1..5 |-> [x |-> -tpl[i].x, y |-> tpl[i].y]], tpl)
  IN  /\ a # 0 \/ b # 0 => \A i \in 1..5 : /\ Apply(m, place(tpl[i])) = tpl[i]
                                           /\ Apply(invertAffine(m), tpl[i]) = place(tpl[i])
      /\ a = 0 /\ b = 0 => m.a = m.den /\ m.b = 0
      /\ \E i \in 1..5 : Apply(mirrored, [x |-> -tpl[i].x, y |-> tpl[i].y]) # tpl[i]

\* An already aligned crop goes through the sampler unchanged, and one moved
\* by whole pixels is moved by them, with the padding where it ran out.
AlignedCropIsUntouched(img, tx, ty, pad) ==
  /\ feed(img, Identity, img.w, img.h, pad).crop = img.at
  /\ feed(img, [Identity EXCEPT !.tx = tx, !.ty = ty], img.w, img.h, pad).crop
       = [p \in DOMAIN img.at |-> IF <<p[1] - tx, p[2] - ty>> \in DOMAIN img.at
                                  THEN img.at[<<p[1] - tx, p[2] - ty>>] ELSE pad]
=============================================================================

----------------------------- MODULE DenseMaps -----------------------------
(***************************************************************************)
(* The heads that answer with a value per pixel:                           *)
(* src/src/tasks/segmentation.cc (class ids) and depth.cc (distances), and *)
(* the way both are resampled and laid back over the source frame.         *)
(*                                                                         *)
(* A tensor is [dims, data], its data a function on 0..n-1; a map is       *)
(* [width, height, ...] with one value per pixel, row by row.  Positions   *)
(* between samples are exact: a Lerp says how many `unit`ths of the way.   *)
(***************************************************************************)
EXTENDS YoloHeads

Elements(dims) == FoldSeq(LAMBDA d, n : n * Most(d, 0), 1, dims)
Pixels(w, h) == 0..Most(0, w * h) - 1
MinOf(S) == CHOOSE v \in S : \A u \in S : v <= u
MaxOf(S) == CHOOSE v \in S : \A u \in S : v >= u

(***************************************************************************)
(* Shapes.                                                                 *)
(***************************************************************************)
\* A logit volume, with or without its batch of one.
resolveCHW(dims, channels_first) ==
  LET n == Len(dims)
      at(k) == dims[n - 3 + k]
  IN  IF n < 3 THEN [C |-> 0, H |-> 0, W |-> 0]
      ELSE IF channels_first THEN [C |-> at(1), H |-> at(2), W |-> at(3)]
      ELSE [C |-> at(3), H |-> at(1), W |-> at(2)]

\* A map of one channel: the two innermost extents that are not 1.
resolveHW(dims) ==
  LET wide == SelectSeq(dims, LAMBDA d : d > 1)
      n == Len(dims)
  IN  IF Len(wide) >= 2 THEN [H |-> wide[Len(wide) - 1], W |-> wide[Len(wide)]]
      ELSE [H |-> IF n >= 2 THEN dims[n - 1] ELSE IF n = 1 THEN dims[1] ELSE 0,
            W |-> IF n >= 1 THEN dims[n] ELSE 0]

(***************************************************************************)
(* Segmentation.  cfg is [num_classes, channels_first, argmaxed, score].   *)
(***************************************************************************)
\* exp(-d) of a logit d below the winner's: 1 at 0 and falling.
Falloff(d) == Unit \div (1 + d)

\* The first channel of the largest value, and how far it stands out.
argmax(C, V(_), score) ==
  LET best == ArgMax(C, V)
  IN  [label |-> best,
       confidence |->
         CASE score = "None" -> 0
           [] score = "Max"  -> V(best)
           [] score = "Softmax" ->
                (Unit * Unit) \div Total(0..C - 1, LAMBDA c : Falloff(V(best) - V(c)))]

\* Where channel c of pixel p is read from, with C the narrowed channel count.
ChannelAt(p, c, C, npix, channels_first) ==
  IF channels_first THEN c * npix + p ELSE p * C + c

\* A non-zero num_classes narrows the argmax, and so does a short buffer.
narrowed(C, npix, total, num_classes) ==
  LET c == IF num_classes > 0 THEN Least(C, num_classes) ELSE C
  IN  IF npix > 0 /\ c * npix > total THEN total \div npix ELSE c

NoMask(w, h, C) == [width |-> w, height |-> h, num_classes |-> C,
                    labels |-> [p \in Pixels(w, h) |-> 0],
                    confidence |-> [p \in Pixels(w, h) |-> 0]]

decodeArgmaxed(tensor, cfg) ==
  LET s == resolveHW(tensor.dims)
      readable == Least(s.H * s.W, Elements(tensor.dims))
      labels == [p \in Pixels(s.W, s.H) |-> IF p < readable THEN tensor.data[p] ELSE 0]
  IN  [NoMask(s.W, s.H, cfg.num_classes) EXCEPT
         !.labels = labels,
         !.num_classes = IF @ > 0 THEN @
                         ELSE MaxOf({-1} \cup {labels[p] : p \in 0..readable - 1}) + 1]

decodeSeg(tensor, cfg) ==
  LET s == resolveCHW(tensor.dims, cfg.channels_first)
      npix == Most(0, s.H * s.W)
      C == narrowed(s.C, npix, Elements(tensor.dims), cfg.num_classes)
      won == [p \in 0..npix - 1 |->
                argmax(C, LAMBDA c : tensor.data[ChannelAt(p, c, C, npix, cfg.channels_first)],
                       cfg.score)]
  IN  IF cfg.argmaxed THEN decodeArgmaxed(tensor, cfg)
      ELSE IF npix = 0 \/ C <= 0 THEN NoMask(s.W, s.H, C)
      ELSE [NoMask(s.W, s.H, C) EXCEPT !.labels = [p \in DOMAIN won |-> won[p].label],
                                       !.confidence = [p \in DOMAIN won |-> won[p].confidence]]

\* Segmenter::postprocess(): quantised codes are compared as they are where
\* that is exact, anything else is dequantised first.  out is [dims, nhwc, type,
\* packed, affine, scale, zp, codes]; a padded buffer's rows are gathered.
argmaxQuantized(out, C, npix, channels_first) ==
  [p \in 0..npix - 1 |->
     ArgMax(C, LAMBDA c : out.codes[ChannelAt(p, c, C, npix, channels_first)])]

takesFastPath(out, cfg) ==
  LET s == resolveCHW(out.dims, cfg.channels_first)
      C == IF cfg.num_classes > 0 THEN Least(s.C, cfg.num_classes) ELSE s.C
  IN  /\ ~cfg.argmaxed /\ cfg.score = "None"
      /\ out.affine /\ out.scale > 0 /\ out.packed
      /\ Len(out.dims) = 4 /\ out.dims[1] = 1
      /\ C > 0 /\ s.H * s.W > 0 /\ C * s.H * s.W <= Elements(out.dims)
      /\ out.type \in {"INT8", "UINT8"}

Dequantised(out) ==
  [dims |-> out.dims, data |-> [i \in DOMAIN out.codes |-> (out.codes[i] - out.zp) * out.scale]]

Segmenter(out, config) ==
  LET cfg == [config EXCEPT !.channels_first = ~out.nhwc]
      s == resolveCHW(out.dims, cfg.channels_first)
      C == IF cfg.num_classes > 0 THEN Least(s.C, cfg.num_classes) ELSE s.C
  IN  IF takesFastPath(out, cfg)
      THEN [NoMask(s.W, s.H, C) EXCEPT
              !.labels = argmaxQuantized(out, C, s.H * s.W, cfg.channels_first)]
      ELSE decodeSeg(Dequantised(out), cfg)

(***************************************************************************)
(* Depth.  cfg is [width, height, scale, shift, inverse, inverse_eps,      *)
(* clip_lo, clip_hi, normalize].                                           *)
(***************************************************************************)
physical(raw, cfg) ==
  LET v == raw * cfg.scale + cfg.shift
      d == IF cfg.inverse THEN Unit \div Most(v, cfg.inverse_eps) ELSE v
  IN  IF cfg.clip_hi > cfg.clip_lo THEN Least(cfg.clip_hi, Most(cfg.clip_lo, d)) ELSE d

\* Every pixel of the map is stretched, the tail past the tensor's end too.
normalised(data, vmin, vmax) ==
  [p \in DOMAIN data |->
     IF vmax > vmin THEN (Unit * (data[p] - vmin)) \div (vmax - vmin) ELSE 0]

decodeDepth(tensor, cfg) ==
  LET s == resolveHW(tensor.dims)
      w == Most(0, IF cfg.width > 0 THEN cfg.width ELSE s.W)
      h == Most(0, IF cfg.height > 0 THEN cfg.height ELSE s.H)
      readable == Least(w * h, Elements(tensor.dims))
      data == [p \in Pixels(w, h) |-> IF p < readable THEN physical(tensor.data[p], cfg) ELSE 0]
      read == {data[p] : p \in 0..readable - 1}
      vmin == IF read = {} THEN 0 ELSE MinOf(read)
      vmax == IF read = {} THEN 0 ELSE MaxOf(read)
  IN  [width |-> w, height |-> h, vmin |-> vmin, vmax |-> vmax,
       data |-> IF cfg.normalize THEN normalised(data, vmin, vmax) ELSE data]

\* The picture of a map: stretched by the map's own range.
depthToGray8(m) ==
  LET values == {m.data[p] : p \in DOMAIN m.data}
      lo == MinOf(values)
      hi == MaxOf(values)
  IN  [p \in DOMAIN m.data |->
         IF hi > lo THEN (2 * 255 * (m.data[p] - lo) + hi - lo) \div (2 * (hi - lo)) ELSE 0]

(***************************************************************************)
(* Resampling.  Class ids take the nearest sample, distances blend four.   *)
(***************************************************************************)
within(i, n) == Most(0, Least(i, n - 1))

nearestIndex(d, dst_n, src_n) == within(((2 * d + 1) * src_n) \div (2 * dst_n), src_n)

\* The map position num/den under source pixel x's centre, with the letterbox
\* (num/den, pad) and a map of n samples over a canvas of dst pixels.
MapPos(x, lb, pad, n, dst) ==
  [num |-> ((2 * x + 1) * lb.num * Fine + 2 * lb.den * pad) * n, den |-> 2 * lb.den * Fine * dst]

CanvasIndex(x, lb, pad, n, dst) ==
  LET p == MapPos(x, lb, pad, n, dst) IN within(p.num \div p.den, n)

\* The sample below a position, the one after it, and the way between.
lerpAt(num, unit, src_n) ==
  LET f == Most(0, Least(num, (src_n - 1) * unit))
  IN  [i0 |-> f \div unit, i1 |-> Least(f \div unit + 1, src_n - 1), w |-> f % unit, unit |-> unit]

centreMap(d, dst_n, src_n) == lerpAt((2 * d + 1) * src_n - dst_n, 2 * dst_n, src_n)
CanvasLerp(x, lb, pad, n, dst) ==
  LET p == MapPos(x, lb, pad, n, dst) IN lerpAt(p.num - p.den \div 2, p.den, n)

Nearest(m, w, h, X(_), Y(_)) ==
  LET at(p) == Y(p \div w) * m.width + X(p % w)
  IN  [NoMask(w, h, m.num_classes) EXCEPT
         !.labels     = [p \in DOMAIN @ |-> m.labels[at(p)]],
         !.confidence = [p \in DOMAIN @ |-> m.confidence[at(p)]]]

segResize(m, w, h) ==
  Nearest(m, w, h, LAMBDA x : nearestIndex(x, w, m.width), LAMBDA y : nearestIndex(y, h, m.height))

segToSource(m, lb) ==
  Nearest(m, lb.srcW, lb.srcH, LAMBDA x : CanvasIndex(x, lb, lb.padX, m.width, lb.dstW),
                               LAMBDA y : CanvasIndex(y, lb, lb.padY, m.height, lb.dstH))

\* A blend carries the product of its two units.
resampleBilinear(m, w, h, X(_), Y(_)) ==
  LET at(y, x) == m.data[y * m.width + x]
      mix(l, a, b) == a * (l.unit - l.w) + b * l.w
  IN  [p \in Pixels(w, h) |->
         LET lx == X(p % w)
             ly == Y(p \div w)
         IN  mix(ly, mix(lx, at(ly.i0, lx.i0), at(ly.i0, lx.i1)),
                     mix(lx, at(ly.i1, lx.i0), at(ly.i1, lx.i1)))]

depthResize(m, w, h) ==
  resampleBilinear(m, w, h, LAMBDA x : centreMap(x, w, m.width), LAMBDA y : centreMap(y, h, m.height))

depthToSource(m, lb) ==
  resampleBilinear(m, lb.srcW, lb.srcH,
                   LAMBDA x : CanvasLerp(x, lb, lb.padX, m.width, lb.dstW),
                   LAMBDA y : CanvasLerp(y, lb, lb.padY, m.height, lb.dstH))

\* paletteColor() of a VOC id: its bits, spread over the three channels from
\* the top down.
paletteColor(id) ==
  LET bit(k) == (id \div 2^k) % 2
      channel(c) == bit(c) * 128 + bit(c + 3) * 64 + bit(c + 6) * 32
  IN  IF id <= 0 THEN <<0, 0, 0>> ELSE <<channel(0), channel(1), channel(2)>>

(***************************************************************************)
(* Reference definitions.                                                  *)
(***************************************************************************)
\* The label of a pixel: the first largest of its first C channels, each found
\* by its place in the whole tensor.
ReferenceLabels(tensor, cfg) ==
  LET s == resolveCHW(tensor.dims, cfg.channels_first)
      C == IF cfg.num_classes > 0 THEN Least(s.C, cfg.num_classes) ELSE s.C
      at(p, c) == tensor.data[IF cfg.channels_first THEN c * s.H * s.W + p ELSE p * s.C + c]
  IN  [p \in 0..s.H * s.W - 1 |-> ArgMax(C, LAMBDA c : at(p, c))]

\* "a non-zero value only ever NARROWS the argmax" (segmentation.h:33), in
\* either channel order, as the reference decoder of test_segmentation.py:36-51
\* does it.
NarrowingOnlyNarrows(tensor, cfg) == decodeSeg(tensor, cfg).labels = ReferenceLabels(tensor, cfg)

\* The labels the quantised path gives are those of the dequantised tensor, in
\* either channel order ("bit-identical labels to the float path"); where the
\* channels of a pixel are not narrowed out from between its neighbours' they
\* are the reference's too; and asking for a score changes no label.
LabelsAreFaithful(out, config) ==
  LET cfg == [config EXCEPT !.channels_first = ~out.nhwc]
      labels == Segmenter(out, config).labels
  IN  /\ labels = decodeSeg(Dequantised(out), cfg).labels
      /\ ~out.nhwc \/ cfg.num_classes = 0 => labels = ReferenceLabels(Dequantised(out), cfg)
      /\ \A score \in {"Max", "Softmax"} :
           LET m == Segmenter(out, [config EXCEPT !.score = score])
           IN  /\ m.labels = labels
               /\ \A p, q \in DOMAIN labels :  \* a pixel keeps its own score
                    segResize(m, m.width * 2, m.height).confidence[2 * p] = m.confidence[p]

\* A map over a canvas that holds the source k times enlarged behind a border,
\* in cells of `cell` pixels, goes back to exactly the source: no border value,
\* no neighbour; and where distances grow linearly over the canvas, the blend
\* is the value at the source pixel's own centre.
ProjectionRecovers(labels, w, h, k, cell, px, py, a, b) ==
  LET lb == [num |-> k, den |-> 1, padX |-> Fine * px, padY |-> Fine * py, srcW |-> w, srcH |-> h,
             dstW |-> k * w + 2 * px, dstH |-> k * h + 2 * py]
      mw == lb.dstW \div cell
      mh == lb.dstH \div cell
      source(p) == <<((p % mw) * cell - px) \div k, ((p \div mw) * cell - py) \div k>>
      mask == [NoMask(mw, mh, 3) EXCEPT !.labels =
                 [p \in DOMAIN @ |-> LET s == source(p)
                                     IN  IF s[1] \in 0..w - 1 /\ s[2] \in 0..h - 1
                                         THEN labels[s[2] * w + s[1]] ELSE -1]]
      plane == [width |-> mw, height |-> mh,
                data |-> [p \in Pixels(mw, mh) |-> a * (p % mw) + b * (p \div mw)]]
      X(p) == MapPos(p % w, lb, lb.padX, mw, lb.dstW)
      Y(p) == MapPos(p \div w, lb, lb.padY, mh, lb.dstH)
      exact(p) == a * (X(p).num - X(p).den \div 2) * Y(p).den
                  + b * (Y(p).num - Y(p).den \div 2) * X(p).den
  IN  /\ segToSource(mask, lb).labels = labels
      /\ cell = 1 => \A p \in DOMAIN labels : depthToSource(plane, lb)[p] = exact(p)

\* Distances keep their order (or, inverted, reverse it), a normalised map spans
\* 0..Unit and is undone by the range reported with it, both draw the same
\* picture to a grey level, and no resampling leaves the observed range.
DepthIsFaithful(raw, dims, cfg, w, h) ==
  LET tensor == [dims |-> dims, data |-> raw]
      plain  == decodeDepth(tensor, [cfg EXCEPT !.normalize = FALSE])
      norm   == decodeDepth(tensor, [cfg EXCEPT !.normalize = TRUE])
      range  == plain.vmax - plain.vmin
      units  == 4 * w * h
  IN  /\ \A p, q \in DOMAIN raw : raw[p] <= raw[q] =>
           IF cfg.inverse THEN plain.data[p] >= plain.data[q] ELSE plain.data[p] <= plain.data[q]
      /\ range > 0 => {0, Unit} \subseteq {norm.data[p] : p \in DOMAIN norm.data}
      /\ \A p \in DOMAIN raw :
           /\ norm.data[p] \in 0..Unit
           /\ plain.data[p] - (norm.data[p] * range) \div Unit - plain.vmin \in 0..1
           /\ depthToGray8(plain)[p] - depthToGray8(norm)[p] \in -1..1
      /\ \A p \in 0..w * h - 1 :
           depthResize(plain, w, h)[p] \in plain.vmin * units..plain.vmax * units

\* No two classes of the VOC palette look alike.
PaletteTellsApart == \A i, j \in 0..20 : paletteColor(i) = paletteColor(j) => i = j
=============================================================================

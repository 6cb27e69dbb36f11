------------------------------- MODULE Crops -------------------------------
(***************************************************************************)
(* One vector per image: src/src/tasks/classification.cc, embedding.cc and *)
(* src/src/tracks/reid.cc.  What they share is a crop: which rectangle of  *)
(* the frame is scaled onto the model's input, and who can read it there.  *)
(*                                                                         *)
(* Box corners come in units of 1/Sub of a pixel, a ratio as [num, den].   *)
(* Vectors are sequences of integers, scores in units of 1/Unit.           *)
(***************************************************************************)
EXTENDS Rga

Sub == 4
Unit == 1000
Product(dims) == FoldSeq(LAMBDA d, n : n * Larger(d, 1), 1, dims)

(***************************************************************************)
(* Rectangles.                                                             *)
(***************************************************************************)
\* A ratio out of range is replaced, so a crop is never wider than the frame.
cropRatio(r) ==
  IF r.num <= 0 THEN [num |-> 7, den |-> 8] ELSE IF r.num > r.den THEN [num |-> 1, den |-> 1] ELSE r

centerCropBox(sw, sh, ow, oh, ratio) ==
  LET q == cropRatio(ratio)
      extent(o) == Round(o * q.num * Smaller(sw, sh), q.den * Larger(ow, oh))
      over(w, h) == w > sw \/ h > sh
      \* the side that sticks out further decides by how much both shrink
      shrunk(n, w, h) == IF w * sh >= h * sw THEN (n * sw) \div w ELSE (n * sh) \div h
      fit(n, limit) == LET w == extent(ow)
                           h == extent(oh)
                       IN  Larger(1, Smaller(IF over(w, h) THEN shrunk(n, w, h) ELSE n, limit))
      bw == fit(extent(ow), sw)
      bh == fit(extent(oh), sh)
  IN  IF sw <= 0 \/ sh <= 0 \/ ow <= 0 \/ oh <= 0 THEN [x |-> 0, y |-> 0, w |-> 0, h |-> 0]
      ELSE [x |-> (sw - bw) \div 2, y |-> (sh - bh) \div 2, w |-> bw, h |-> bh]

\* ImageEmbedder::embed(): the box with its margin, out to whole pixels and
\* clipped to the frame; <<>> when nothing is left.
embedBox(src, b, expand) ==
  LET grows == expand.num > 0 /\ expand.num # expand.den
      \* twice a corner, moved away from the centre
      side(lo, hi, s) == IF grows THEN ((lo + hi) * expand.den + s * (hi - lo) * expand.num) \div expand.den
                         ELSE (lo + hi) + s * (hi - lo)
      down(v) == v \div (2 * Sub)
      up(v) == -((-v) \div (2 * Sub))
      low(lo, hi) == Larger(0, down(Smaller(side(lo, hi, -1), side(lo, hi, 1))))
      high(lo, hi, n) == Smaller(n, up(Larger(side(lo, hi, -1), side(lo, hi, 1))))
      x == low(b.x1, b.x2)
      y == low(b.y1, b.y2)
      w == high(b.x1, b.x2, src.width) - x
      h == high(b.y1, b.y2, src.height) - y
  IN  IF w > 0 /\ h > 0 THEN <<[x |-> x, y |-> y, w |-> w, h |-> h]>> ELSE <<>>

\* reidPreprocess(): to the nearest pixel, clipped.
reidBox(width, height, b) ==
  LET near(v, n) == clamp(Round(v, Sub), n)
      x == near(b.x1, width)
      y == near(b.y1, height)
      w == near(b.x2, width) - x
      h == near(b.y2, height) - y
  IN  IF w > 0 /\ h > 0 THEN <<[x |-> x, y |-> y, w |-> w, h |-> h]>> ELSE <<>>

(***************************************************************************)
(* cropResizeInto(), the same in classification.cc and embedding.cc.  The  *)
(* result also says which rectangle of the source was read.                *)
(***************************************************************************)
resize(dst, src, backend, yuv, env) ==
  LET sw == IF refuses(dst) \/ refuses(src) THEN Threw(<<>>)
            ELSE Did(<<Wrote("cpu", "content", Canvas(dst))>>)
  IN  IF ~chooseRga(backend, dst, src, yuv, env)
      THEN [ok |-> sw.ok, writes |-> sw.writes, used |-> "Cpu"]
      ELSE runWithFallback(backend, rgaResize(dst, src, yuv, env), sw)

\* The pixels of a host image are re-based: the view starts at the box and keeps
\* the source's row pitch.
subView(src, box) ==
  [src EXCEPT !.fd = FALSE, !.width = box.w, !.height = box.h,
              !.wstride = effWStride(src), !.hstride = box.h]
subOffset(src, box) == box.y * rowBytes(src) + box.x * bytesPerPixel(src.format)

\* 4:2:0 is read at half resolution: origin and extent are rounded down.
snapped(src, box) ==
  IF bytesPerPixel(src.format) > 0 THEN box
  ELSE [x |-> Even(box.x), y |-> Even(box.y), w |-> Even(box.w), h |-> Even(box.h)]

cropResizeInto(dst, src, box, backend, yuv, env) ==
  LET can_subview == src.data /\ bytesPerPixel(src.format) > 0
      hardware == src.fd /\ backend # "Cpu" /\ env.available
      r == snapped(src, box)
      hw == rgaCropResize(dst, src, r, yuv, env)
      sub == resize(dst, subView(src, box), backend, yuv, env)
      read(op, rect) == op @@ [region |-> rect]
      failed(writes) == [ok |-> FALSE, writes |-> writes, used |-> "none", region |-> box]
      onHardware == [ok |-> hw.ok, writes |-> hw.writes, used |-> "Rga", region |-> r]
  IN  CASE box = Canvas(src) -> read(resize(dst, src, backend, yuv, env), box)
        [] box # Canvas(src) /\ hardware /\ (r.w <= 0 \/ r.h <= 0) -> failed(<<>>)
        [] box # Canvas(src) /\ hardware /\ r.w > 0 /\ r.h > 0 ->
             IF hw.ok \/ ~can_subview THEN onHardware
             ELSE read([sub EXCEPT !.writes = hw.writes \o @], box)
        [] OTHER -> IF can_subview THEN read(sub, box) ELSE failed(<<>>)

\* reidPreprocessImpl(): channel c of output pixel (ox, oy), in units of
\* 1/(4 * in_w * in_h), of a BGR or an RGB frame; the affine map of the model's
\* mean and deviation is left out.
reidSample(img, box, in_w, in_h, c, ox, oy) ==
  LET px == SamplePos(ox, box.w, in_w)
      py == SamplePos(oy, box.h, in_h)
      x0 == px \div (2 * in_w)
      y0 == py \div (2 * in_h)
      x1 == Smaller(x0 + 1, box.w - 1)
      y1 == Smaller(y0 + 1, box.h - 1)
      wx == px % (2 * in_w)
      wy == py % (2 * in_h)
      s == IF img.v.format = "BGR888" THEN 2 - c ELSE c
      at(x, y) == img.buf[(box.y + y) * rowBytes(img.v) + (box.x + x) * 3 + s]
  IN  (2 * in_h - wy) * ((2 * in_w - wx) * at(x0, y0) + wx * at(x1, y0))
      + wy * ((2 * in_w - wx) * at(x0, y1) + wx * at(x1, y1))

(***************************************************************************)
(* Scores.                                                                 *)
(***************************************************************************)
\* classCountFromShape(), embeddingDimFromShape(): the one extent that is not
\* 1, or 0 where two are.
vectorLength(dims) ==
  LET wide == SelectSeq(dims, LAMBDA d : d > 1)
  IN  CASE Len(wide) = 0 -> 1 [] Len(wide) = 1 -> wide[1] [] OTHER -> 0

Ranked(all, k) ==
  LET sorted == SortSeq(all, LAMBDA a, b : a.score > b.score \/ (a.score = b.score /\ a.index < b.index))
  IN  IF k <= 0 \/ k > Len(all) THEN sorted ELSE SubSeq(sorted, 1, k)

Best(v) == CHOOSE i \in DOMAIN v : \A j \in DOMAIN v : v[j] <= v[i]
\* exp(v - max), 1 at the maximum and falling.
Softmaxed(v) ==
  LET e == [i \in DOMAIN v |-> Unit \div (1 + v[Best(v)] - v[i])]
      sum == FoldSeq(LAMBDA a, b : a + b, 0, e)
  IN  [i \in DOMAIN v |-> (Unit * e[i]) \div sum]

decodeClassification(logits, cfg) ==
  LET scores == IF cfg.apply_softmax THEN Softmaxed(logits) ELSE logits
  IN  Ranked([i \in DOMAIN scores |-> [index |-> i, score |-> scores[i]]], cfg.top_k)

looksLikeProbabilities(v, tol) ==
  /\ v # <<>> /\ \A i \in DOMAIN v : v[i] >= 0 /\ v[i] <= Unit + tol
  /\ LET sum == FoldSeq(LAMBDA a, b : a + b, 0, v) IN sum - Unit \in -tol..tol

Dot(a, b) == FoldSeq(LAMBDA p, s : p + s, 0, [i \in DOMAIN a |-> a[i] * b[i]])
Norm(v) == CHOOSE n \in 0..Dot(v, v) : n * n <= Dot(v, v) /\ (n + 1) * (n + 1) > Dot(v, v)
\* A zero vector is left alone.
l2Normalize(v) == IF Norm(v) = 0 THEN v ELSE [i \in DOMAIN v |-> (Unit * v[i]) \div Norm(v)]

\* An EmbeddingBank is the sequence of its unit rows; <<>> refuses no dimension.
addToBank(bank, v) ==
  IF v = <<>> \/ (bank # <<>> /\ Len(bank[1]) # Len(v)) THEN bank ELSE Append(bank, l2Normalize(v))

searchBank(bank, query, k) ==
  IF bank = <<>> \/ Len(query) # Len(bank[1]) THEN <<>>
  ELSE Ranked([i \in DOMAIN bank |-> [index |-> i, score |-> Dot(bank[i], l2Normalize(query))]], k)

(***************************************************************************)
(* Reference definitions.                                                  *)
(***************************************************************************)
\* The crop lies in the frame, sits in its middle, has the model's aspect to
\* within a pixel either way, and at ratio 1 reaches the frame's shorter side.
CenterCropFits(sw, sh, ow, oh, ratio) ==
  LET b == centerCropBox(sw, sh, ow, oh, ratio)
  IN  /\ b.w \in 1..sw /\ b.h \in 1..sh
      /\ sw - b.w - 2 * b.x \in 0..1 /\ sh - b.h - 2 * b.y \in 0..1
      /\ b.w > 1 /\ b.h > 1 => b.w * oh - b.h * ow \in -Larger(ow, oh)..Larger(ow, oh)
      /\ ratio.num >= ratio.den => Larger(b.w, b.h) = Smaller(sw, sh)

\* An embedding's crop holds every pixel of the frame its box touches and no
\* column or row the box does not reach; a ReID crop, rounded instead, is never
\* off by more than half a pixel; both refuse exactly when nothing is left.
BoxCropsCover(v, b) ==
  LET e == embedBox(v, b, [num |-> 1, den |-> 1])
      r == reidBox(v.width, v.height, b)
      touched(lo, hi, i) == lo < Sub * (i + 1) /\ hi > Sub * i
      cols == {i \in 0..v.width - 1 : touched(b.x1, b.x2, i)}
      rows == {i \in 0..v.height - 1 : touched(b.y1, b.y2, i)}
  IN  b.x1 < b.x2 /\ b.y1 < b.y2 =>
        /\ (e = <<>>) <=> (cols = {} \/ rows = {})
        /\ e # <<>> => e[1].x..e[1].x + e[1].w - 1 = cols /\ e[1].y..e[1].y + e[1].h - 1 = rows
        /\ r # <<>> => /\ e # <<>> /\ Inside(r[1], v)
                       /\ r[1].x - e[1].x \in 0..1 /\ r[1].y - e[1].y \in 0..1
                       /\ e[1].x + e[1].w - (r[1].x + r[1].w) \in 0..1
                       /\ e[1].y + e[1].h - (r[1].y + r[1].h) \in 0..1

\* Whoever does the work, a crop that returns has filled the model's whole input
\* with the rectangle asked for (4:2:0: with an even one at most a pixel off it,
\* and inside it at its far edges), and `used` names who did; a re-based view
\* reads the box's own pixels and nothing past the source; and a mapped packed
\* source is cropped under Auto whatever the hardware says.
CropsDeliver(dst, src, box, backend, yuv, env) ==
  LET op == cropResizeInto(dst, src, box, backend, yuv, env)
      sub == subView(src, box)
      pixel(v, x, y) == y * rowBytes(v) + x * bytesPerPixel(v.format)
  IN  /\ op.ok =>
           /\ \A x \in 0..dst.width - 1, y \in 0..dst.height - 1 :
                At(op.writes, x, y).what = "content" /\ (At(op.writes, x, y).by = "cpu" <=> op.used = "Cpu")
           /\ box.x - op.region.x \in 0..1 /\ box.y - op.region.y \in 0..1
           /\ box.w - op.region.w \in 0..1 /\ box.h - op.region.h \in 0..1
           /\ bytesPerPixel(src.format) > 0 => op.region = box
      /\ backend = "Auto" /\ src.data /\ bytesPerPixel(src.format) > 0 /\ ~refuses(dst) => op.ok
      /\ bytesPerPixel(src.format) > 0 =>
           \A x \in 0..box.w - 1, y \in 0..box.h - 1 :
             /\ subOffset(src, box) + pixel(sub, x, y) = pixel(src, box.x + x, box.y + y)
             /\ subOffset(src, box) + pixel(sub, x, y) < ViewBytes(src)

\* "It is the same bilinear sampler and the same pixel-center convention as the
\* CPU letterbox": the ReID crop, rounded to a byte, is the image that the
\* software resize makes of the re-based view, channels in RGB order either way.
ReidSamplesAlike(img, b, in_w, in_h) ==
  LET r == reidBox(img.v.width, img.v.height, b)
      plane(c) == [base |-> subOffset(img.v, r[1])
                            + (IF img.v.format = "BGR888" THEN packedOf("BGR888") ELSE packedOf("RGB888"))[<<"r", "g", "b">>[c + 1]],
                   stride |-> rowBytes(img.v), step |-> 3]
  IN  r # <<>> =>
        \A c \in 0..2, ox \in 0..in_w - 1, oy \in 0..in_h - 1 :
          clampU8(reidSample(img, r[1], in_w, in_h, c, ox, oy), 4 * in_w * in_h)
            = ResampledAt(img.buf, plane(c), r[1].w, r[1].h, in_w, in_h, ox, oy)

\* The k best are the first k of all, softmax reorders nothing,
\* and its probabilities look like some; a vector put in a bank is found
\* again first, or one of the same direction added before it, whatever its
\* length, and a vector of another dimension changes nothing.
RankingIsSound(v, bank, k) ==
  LET cls(soft, n) == decodeClassification(v, [apply_softmax |-> soft, top_k |-> n])
      rows == FoldSeq(LAMBDA e, b : addToBank(b, e), <<>>, bank)
      parallel(a, b) == l2Normalize(a) = l2Normalize(b)
  IN  /\ cls(FALSE, k) = SubSeq(cls(FALSE, 0), 1, IF k <= 0 THEN Len(v) ELSE Smaller(k, Len(v)))
      /\ \A i \in DOMAIN v : cls(TRUE, 0)[i].index = cls(FALSE, 0)[i].index
      /\ looksLikeProbabilities(Softmaxed(v), Len(v))
      /\ Len(rows) = Len(bank)
      /\ addToBank(rows, <<1>>) = rows
      /\ \A i \in DOMAIN bank : Norm(bank[i]) > 0 =>
           searchBank(rows, bank[i], 1)[1].index =
             CHOOSE j \in DOMAIN rows : rows[j] = l2Normalize(bank[i])
                                        /\ \A n \in DOMAIN rows : rows[n] = rows[j] => j <= n
=============================================================================

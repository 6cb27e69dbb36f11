----------------------------- MODULE CpuPixels -----------------------------
(***************************************************************************)
(* The software path of src/src/preproc/letterbox_cpu.cc: which bytes each *)
(* operation reads and writes, in which layout, and with which arithmetic. *)
(*                                                                         *)
(* An image is [v, buf]: a view and its bytes, a function on 0..n-1.  A    *)
(* plane is [base, stride, step]; packed formats are as many planes as     *)
(* they have channels.  Coefficients are in units of 1/10000.              *)
(***************************************************************************)
EXTENDS Images

One == 10000
clampU8(n, d) == Larger(0, Smaller(255, (n + d \div 2) \div d))

\* Where a packed format keeps its channels; a is -1 when it has no alpha.
packedOf(f) ==
  CASE f = "RGB888"   -> [r |-> 0, g |-> 1, b |-> 2, a |-> -1, gray |-> FALSE]
    [] f = "BGR888"   -> [r |-> 2, g |-> 1, b |-> 0, a |-> -1, gray |-> FALSE]
    [] f = "RGBA8888" -> [r |-> 0, g |-> 1, b |-> 2, a |-> 3,  gray |-> FALSE]
    [] f = "BGRA8888" -> [r |-> 2, g |-> 1, b |-> 0, a |-> 3,  gray |-> FALSE]
    [] f = "GRAY8"    -> [r |-> 0, g |-> 0, b |-> 0, a |-> -1, gray |-> TRUE]

PackedPlane(v, c) == [base |-> c, stride |-> rowBytes(v), step |-> bytesPerPixel(v.format)]

yuvPlanes(v) ==
  LET c == uvOffset(v)
      half == effWStride(v) \div 2
      interleaved(at) == [base |-> at, stride |-> rowBytes(v), step |-> 2]
      planar(at) == [base |-> at, stride |-> half, step |-> 1]
  IN  [y |-> [base |-> 0, stride |-> rowBytes(v), step |-> 1],
       u |-> CASE v.format = "NV12"    -> interleaved(c)
               [] v.format = "NV21"    -> interleaved(c + 1)
               [] v.format = "YUV420P" -> planar(c),
       v |-> CASE v.format = "NV12"    -> interleaved(c + 1)
               [] v.format = "NV21"    -> interleaved(c)
               [] v.format = "YUV420P" -> planar(c + half * (effHStride(v) \div 2))]

Address(p, x, y) == p.base + y * p.stride + x * p.step

\* The bytes of a plane's region x0.., y0.., w by h, with new values.
Written(buf, p, x0, y0, w, h, Value(_, _)) ==
  [a \in {Address(p, x, y) : x \in x0..x0 + w - 1, y \in y0..y0 + h - 1} |->
     Value(((a - p.base) % p.stride) \div p.step - x0, (a - p.base) \div p.stride - y0)] @@ buf

refuses(v) ==
  \/ ~valid(v) \/ ~v.data
  \/ effWStride(v) < v.width \/ effHStride(v) < v.height
  \/ isPlanarYuv(v.format)
       /\ \E n \in {v.width, v.height, effWStride(v), effHStride(v)} : n % 2 # 0

(***************************************************************************)
(* Resampling one plane, pixel centres to pixel centres, exactly.          *)
(***************************************************************************)
\* Twice `out` times the source position of output sample i, clamped.
SamplePos(i, s, out) == Larger(0, Smaller((2 * i + 1) * s - out, 2 * out * (s - 1)))

ResampledAt(buf, p, sw, sh, ow, oh, dx, dy) ==
  LET px == SamplePos(dx, sw, ow)
      py == SamplePos(dy, sh, oh)
      x0 == px \div (2 * ow)
      y0 == py \div (2 * oh)
      x1 == Smaller(x0 + 1, sw - 1)
      y1 == Smaller(y0 + 1, sh - 1)
      wx == px % (2 * ow)
      wy == py % (2 * oh)
      row(y) == buf[Address(p, x0, y)] * (2 * ow - wx) + buf[Address(p, x1, y)] * wx
  IN  clampU8(row(y0) * (2 * oh - wy) + row(y1) * wy, 4 * ow * oh)

resample(buf, d, r, src, p, sw, sh) ==
  Written(buf, d, r.x, r.y, r.w, r.h,
          LAMBDA x, y : ResampledAt(src, p, sw, sh, r.w, r.h, x, y))

\* All channels of a packed image.
resamplePacked(dst, r, src) ==
  [dst EXCEPT !.buf =
     FoldSet(LAMBDA c, b : resample(b, PackedPlane(dst.v, c), r, src.buf,
                                    PackedPlane(src.v, c), src.v.width, src.v.height),
             @, 0..bytesPerPixel(dst.v.format) - 1)]

(***************************************************************************)
(* Colour.                                                                 *)
(***************************************************************************)
rgbToYuv(matrix) ==
  IF matrix = "BT709"
  THEN [yr |-> 2126, yg |-> 7152, yb |-> 722, ur |-> -1146, ug |-> -3854, ub |-> 5000,
        vr |-> 5000, vg |-> -4542, vb |-> -458]
  ELSE [yr |-> 2990, yg |-> 5870, yb |-> 1140, ur |-> -1690, ug |-> -3310, ub |-> 5000,
        vr |-> 5000, vg |-> -4190, vb |-> -810]

yuvToRgb(yuv) ==
  LET row(ky, kr, kgu, kgv, kb, yoff) ==
        [ky |-> ky, kr |-> kr, kgu |-> kgu, kgv |-> kgv, kb |-> kb, yoff |-> yoff]
  IN  CASE yuv.matrix = "BT709" /\ yuv.studio  -> row(11640, 17930, 2130, 5330, 21120, 16)
        [] yuv.matrix = "BT709" /\ ~yuv.studio -> row(10000, 15748, 1873, 4681, 18556, 0)
        [] yuv.matrix = "BT601" /\ yuv.studio  -> row(11640, 15960, 3910, 8130, 20180, 16)
        [] yuv.matrix = "BT601" /\ ~yuv.studio -> row(10000, 14020, 3440, 7140, 17720, 0)

\* RGB levels into the YUV side's, a fraction of 255.
rgbLevels(studio) ==
  IF studio THEN [ky |-> 219, yoff |-> 16, kc |-> 224] ELSE [ky |-> 255, yoff |-> 0, kc |-> 255]

LumaOf(p, yuv) ==
  LET k == rgbToYuv(yuv.matrix)
      lv == rgbLevels(yuv.studio)
  IN  clampU8(lv.yoff * 255 * One + lv.ky * (k.yr * p.r + k.yg * p.g + k.yb * p.b), 255 * One)

\* Cb or Cr of the sum of a 2x2 block, around 128.
ChromaOf(kr, kg, kb, sum, yuv) ==
  Larger(0, Smaller(255,
    128 + (rgbLevels(yuv.studio).kc * (kr * sum.r + kg * sum.g + kb * sum.b) + 510 * One)
          \div (1020 * One)))

RgbOf(y, u, v, yuv) ==
  LET m == yuvToRgb(yuv)
      Y == m.ky * (y - m.yoff)
  IN  [r |-> clampU8(Y + m.kr * (v - 128), One),
       g |-> clampU8(Y - m.kgu * (u - 128) - m.kgv * (v - 128), One),
       b |-> clampU8(Y + m.kb * (u - 128), One)]

PixelOf(img, x, y) ==
  LET k == packedOf(img.v.format)
      at(c) == img.buf[Address(PackedPlane(img.v, c), x, y)]
  IN  [r |-> at(k.r), g |-> at(k.g), b |-> at(k.b), a |-> IF k.a >= 0 THEN at(k.a) ELSE 255]

\* A region of a packed destination, one pixel at a time.
Painted(dst, x0, y0, w, h, Pixel(_, _)) ==
  LET k == packedOf(dst.v.format)
      chan(c, p) == CASE c = k.r -> p.r [] c = k.g -> p.g [] c = k.b -> p.b [] OTHER -> p.a
  IN  [dst EXCEPT !.buf =
         FoldSet(LAMBDA c, b : Written(b, PackedPlane(dst.v, c), x0, y0, w, h,
                                       LAMBDA x, y : chan(c, Pixel(x, y))),
                 @, 0..bytesPerPixel(dst.v.format) - 1)]

packedToPacked(dst, x0, y0, src, yuv) ==
  LET S == packedOf(src.v.format)
      D == packedOf(dst.v.format)
      grey(e) == [r |-> e, g |-> e, b |-> e, a |-> 255]
      convert(p) ==
        CASE D.gray /\ S.gray   -> p
          [] D.gray /\ ~S.gray  -> grey(LumaOf(p, yuv))
          [] ~D.gray /\ S.gray  -> grey(clampU8(yuvToRgb(yuv).ky * (p.r - yuvToRgb(yuv).yoff), One))
          [] ~D.gray /\ ~S.gray -> p
  IN  Painted(dst, x0, y0, src.v.width, src.v.height, LAMBDA x, y : convert(PixelOf(src, x, y)))

\* 4:2:0 to packed at the same size; luma goes to GRAY8 as it is.
yuvToPacked(dst, src, yuv) ==
  LET s == yuvPlanes(src.v)
      at(p, x, y) == src.buf[Address(p, x, y)]
      pixel(x, y) ==
        LET luma == at(s.y, x, y)
            rgb  == RgbOf(luma, at(s.u, x \div 2, y \div 2), at(s.v, x \div 2, y \div 2), yuv)
        IN  IF packedOf(dst.v.format).gray THEN [r |-> luma, g |-> luma, b |-> luma, a |-> 255]
            ELSE [r |-> rgb.r, g |-> rgb.g, b |-> rgb.b, a |-> 255]
  IN  Painted(dst, 0, 0, src.v.width, src.v.height, pixel)

packedToYuvRegion(dst, x0, y0, src, yuv) ==
  LET d == yuvPlanes(dst.v)
      gray == packedOf(src.v.format).gray
      k == rgbToYuv(yuv.matrix)
      luma(x, y) == LET p == PixelOf(src, x, y) IN IF gray THEN p.r ELSE LumaOf(p, yuv)
      block(x, y) == LET ps == {<<i, j>> \in {0, 1} \X {0, 1} : TRUE}
                         add(ch) == FoldSet(LAMBDA q, t :
                                      t + PixelOf(src, 2 * x + q[1], 2 * y + q[2])[ch], 0, ps)
                     IN  [r |-> add("r"), g |-> add("g"), b |-> add("b")]
      cb(x, y) == IF gray THEN 128 ELSE ChromaOf(k.ur, k.ug, k.ub, block(x, y), yuv)
      cr(x, y) == IF gray THEN 128 ELSE ChromaOf(k.vr, k.vg, k.vb, block(x, y), yuv)
      w == src.v.width
      h == src.v.height
      withY == Written(dst.buf, d.y, x0, y0, w, h, luma)
      withU == Written(withY, d.u, x0 \div 2, y0 \div 2, w \div 2, h \div 2, cb)
  IN  [dst EXCEPT !.buf = Written(withU, d.v, x0 \div 2, y0 \div 2, w \div 2, h \div 2, cr)]

\* A layout change and nothing else.
yuvToYuv(dst, src) ==
  LET s == yuvPlanes(src.v)
      d == yuvPlanes(dst.v)
      w == src.v.width
      h == src.v.height
      copy(buf, to, from, cw, ch) ==
        Written(buf, to, 0, 0, cw, ch, LAMBDA x, y : src.buf[Address(from, x, y)])
  IN  [dst EXCEPT !.buf =
         copy(copy(copy(@, d.y, s.y, w, h), d.u, s.u, w \div 2, h \div 2),
              d.v, s.v, w \div 2, h \div 2)]

yuvWarpRegion(dst, r, src) ==
  LET s == yuvPlanes(src.v)
      d == yuvPlanes(dst.v)
      half == [x |-> r.x \div 2, y |-> r.y \div 2, w |-> r.w \div 2, h |-> r.h \div 2]
      hw == src.v.width \div 2
      hh == src.v.height \div 2
  IN  [dst EXCEPT !.buf =
         resample(resample(resample(@, d.y, r, src.buf, s.y, src.v.width, src.v.height),
                           d.u, half, src.buf, s.u, hw, hh),
                  d.v, half, src.buf, s.v, hw, hh)]

(***************************************************************************)
(* Fills.                                                                  *)
(***************************************************************************)
\* The whole buffer, stride padding included; neutral chroma.
fillCpu(dst, value) ==
  LET plane == rowBytes(dst.v) * effHStride(dst.v)
      chroma == rowBytes(dst.v) * (effHStride(dst.v) \div 2)
  IN  [dst EXCEPT !.buf =
         IF isPlanarYuv(dst.v.format)
         THEN [a \in 0..plane - 1 |-> value]
              @@ [a \in uvOffset(dst.v)..uvOffset(dst.v) + chroma - 1 |-> 128] @@ @
         ELSE [a \in 0..plane - 1 |-> value] @@ @]

\* Clipped to the canvas and, on 4:2:0, snapped outward to whole chroma samples.
SnappedRect(v, x, y, w, h) ==
  LET out(n) == IF isPlanarYuv(v.format) THEN Even(n + 1) ELSE n
      in(n)  == IF isPlanarYuv(v.format) THEN Even(n) ELSE n
      x0 == in(Larger(0, x))
      y0 == in(Larger(0, y))
  IN  [x |-> x0, y |-> y0,
       w |-> Smaller(v.width, out(Smaller(v.width, x + w))) - x0,
       h |-> Smaller(v.height, out(Smaller(v.height, y + h))) - y0]

\* Fill with a colour already in the destination's space: a pixel of a packed
\* format, or luma and chroma.
FillRect(dst, r, pixel, luma, cb, cr) ==
  LET d == yuvPlanes(dst.v)
      fill(buf, p, x0, y0, w, h, value) == Written(buf, p, x0, y0, w, h, LAMBDA x, y : value)
      half(buf, p, value) == fill(buf, p, r.x \div 2, r.y \div 2, r.w \div 2, r.h \div 2, value)
  IN  CASE r.w <= 0 \/ r.h <= 0 -> dst
        [] r.w > 0 /\ r.h > 0 /\ isPlanarYuv(dst.v.format) ->
             [dst EXCEPT !.buf =
                half(half(fill(@, d.y, r.x, r.y, r.w, r.h, luma), d.u, cb), d.v, cr)]
        [] OTHER -> Painted(dst, r.x, r.y, r.w, r.h, LAMBDA x, y : pixel)

fillRectCpu(dst, x, y, w, h, value) ==
  FillRect(dst, SnappedRect(dst.v, x, y, w, h),
           [r |-> value, g |-> value, b |-> value, a |-> value], value, 128, 128)

\* rga.cc's fillRectCpuColor(): the overlay's own fill, 4:2:0 in studio BT.601.
fillRectCpuColor(dst, x, y, w, h, c) ==
  LET q(n, off) == Larger(0, Smaller(255, (n + 128) \div 256 + off))
      grey == clampU8(2990 * c.r + 5870 * c.g + 1140 * c.b, One)
  IN  FillRect(dst, SnappedRect(dst.v, x, y, w, h),
               IF dst.v.format = "GRAY8" THEN [r |-> grey, g |-> grey, b |-> grey, a |-> 255] ELSE c,
               q(66 * c.r + 129 * c.g + 25 * c.b, 16),
               q(-38 * c.r - 74 * c.g + 112 * c.b, 128),
               q(112 * c.r - 94 * c.g - 18 * c.b, 128))

(***************************************************************************)
(* letterboxCpu(), resizeCpu() and cvtColorCpu().                          *)
(***************************************************************************)
\* A packed temporary.
Temporary(f, w, h) ==
  [v |-> hostView(w, h, f, 0, 0), buf |-> [a \in 0..imageBytes(f, w, h) - 1 |-> 0]]

Whole(img) == [x |-> 0, y |-> 0, w |-> img.v.width, h |-> img.v.height]

warpContent(dst, src, r, yuv) ==
  LET S == src.v.format
      D == dst.v.format
      fromYuv == isPlanarYuv(S)
      toYuv == isPlanarYuv(D)
      levelChange == packedOf(S).gray # packedOf(D).gray /\ yuv.studio
      shrinks == r.w * r.h <= src.v.width * src.v.height
      small(f) == Temporary(f, r.w, r.h)
      large(f) == Temporary(f, src.v.width, src.v.height)
      resized == resamplePacked(small(S), Whole(small(S)), src)
  IN  CASE ~fromYuv /\ ~toYuv /\ S = D -> resamplePacked(dst, r, src)
        \* a channel shuffle commutes with the blend, a level change does not
        [] ~fromYuv /\ ~toYuv /\ S # D ->
             IF ~levelChange /\ shrinks THEN packedToPacked(dst, r.x, r.y, resized, yuv)
             ELSE resamplePacked(dst, r, packedToPacked(large(D), 0, 0, src, yuv))
        [] fromYuv /\ ~toYuv -> resamplePacked(dst, r, yuvToPacked(large(D), src, yuv))
        [] ~fromYuv /\ toYuv -> packedToYuvRegion(dst, r.x, r.y, resized, yuv)
        [] fromYuv /\ toYuv  -> yuvWarpRegion(dst, r, src)

letterboxCpu(dst, src, pad, yuv) ==
  LET r == CpuRect(src.v, dst.v)
      filled == fillCpu(dst, pad)
  IN  IF r.w <= 0 \/ r.h <= 0 THEN filled ELSE warpContent(filled, src, r, yuv)

resizeCpu(dst, src, yuv) == warpContent(dst, src, Whole(dst), yuv)

cvtColorRefuses(dst, src) ==
  refuses(dst.v) \/ refuses(src.v) \/ dst.v.width # src.v.width \/ dst.v.height # src.v.height

cvtColorCpu(dst, src, yuv) ==
  CASE isPlanarYuv(src.v.format) /\ isPlanarYuv(dst.v.format)   -> yuvToYuv(dst, src)
    [] isPlanarYuv(src.v.format) /\ ~isPlanarYuv(dst.v.format)  -> yuvToPacked(dst, src, yuv)
    [] ~isPlanarYuv(src.v.format) /\ isPlanarYuv(dst.v.format)  -> packedToYuvRegion(dst, 0, 0, src, yuv)
    [] ~isPlanarYuv(src.v.format) /\ ~isPlanarYuv(dst.v.format) -> packedToPacked(dst, 0, 0, src, yuv)

(***************************************************************************)
(* Reference definitions.                                                  *)
(***************************************************************************)
\* The bytes a w by h region occupies, chroma included.
RegionBytes(v, x0, y0, w, h) ==
  LET addresses(p, x, y, cw, ch) ==
        {Address(p, i, j) : i \in x..x + cw - 1, j \in y..y + ch - 1}
      d == yuvPlanes(v)
  IN  IF isPlanarYuv(v.format)
      THEN addresses(d.y, x0, y0, w, h)
           \cup addresses(d.u, x0 \div 2, y0 \div 2, w \div 2, h \div 2)
           \cup addresses(d.v, x0 \div 2, y0 \div 2, w \div 2, h \div 2)
      ELSE UNION {addresses(PackedPlane(v, c), x0, y0, w, h) :
                    c \in 0..bytesPerPixel(v.format) - 1}

Blank(v) == [v |-> v, buf |-> [a \in 0..ViewBytes(v) - 1 |-> -1]]
Changed(img) == {a \in DOMAIN img.buf : img.buf[a] # -1}

\* The planes of a 4:2:0 image share no byte and stay in the buffer, and a chain
\* of layout changes that ends where it began loses nothing and touches no
\* padding.
LayoutsAreLossless(v, f2, f3) ==
  LET as(f) == Blank([v EXCEPT !.format = f])
      src == [v |-> v, buf |-> [a \in 0..ViewBytes(v) - 1 |-> a]]
      yuv == [studio |-> TRUE, matrix |-> "BT601"]
      back == cvtColorCpu(as(v.format), cvtColorCpu(as(f3), cvtColorCpu(as(f2), src, yuv), yuv), yuv)
      bytes == RegionBytes(v, 0, 0, v.width, v.height)
  IN  /\ Cardinality(bytes) = v.width * v.height + (v.width * v.height) \div 2
      /\ Changed(back) = bytes
      /\ DOMAIN back.buf = DOMAIN src.buf
      /\ \A a \in bytes : back.buf[a] = src.buf[a]

\* "Each direction is the inverse of the other": an RGB grey through 4:2:0 or
\* GRAY8 and back is itself to within one level, in every colour space, with
\* neutral chroma; and the luma a model sees does not depend on the way round.
GreyRoundTrips(value, yuv, f) ==
  LET v(fmt) == hostView(2, 2, fmt, 0, 0)
      grey == fillRectCpu(Blank(v("RGB888")), 0, 0, 2, 2, value)
      through == cvtColorCpu(Blank(v(f)), grey, yuv)
      back == cvtColorCpu(Blank(v("BGRA8888")), through, yuv)
      luma == cvtColorCpu(Blank(v("GRAY8")), through, yuv)
      direct == cvtColorCpu(Blank(v("GRAY8")), grey, yuv)
  IN  /\ \A a \in DOMAIN back.buf :
           IF a % 4 = 3 THEN back.buf[a] = 255 ELSE back.buf[a] - value \in -1..1
      /\ luma.buf = direct.buf
      /\ isPlanarYuv(f) => \A a \in 4..5 : through.buf[a] = 128

\* A letterboxed canvas holds nothing of what was there before: every visible
\* byte is the pad (neutral chroma) or comes from the source, no byte outside
\* the buffer is touched, and a constant source is reproduced exactly.
CanvasIsFresh(dv, sv, yuv) ==
  LET pad == 114
      src == fillRectCpu(Blank(sv), 0, 0, sv.width, sv.height, 200)
      out == letterboxCpu(Blank(dv), src, pad, yuv)
      r == CpuRect(sv, dv)
      content == RegionBytes(dv, r.x, r.y, r.w, r.h)
      visible == RegionBytes(dv, 0, 0, dv.width, dv.height)
      luma(f) == isPlanarYuv(f) \/ f = "GRAY8"
      sameSide == luma(dv.format) = luma(sv.format)
  IN  ~refuses(dv) /\ ~refuses(sv) =>
        /\ DOMAIN out.buf = 0..ViewBytes(dv) - 1
        /\ visible \subseteq Changed(out)
        /\ \A a \in visible \ content : out.buf[a] \in {pad, 128}
        /\ sameSide => \A a \in content : out.buf[a] \in {200, 128, 255}

\* A rectangle fill covers the rectangle's part of the canvas, stays on whole
\* chroma samples within one pixel of it, and the overlay's own copy of the
\* arithmetic writes the same bytes.
FillStaysInRect(v, x, y, w, h) ==
  LET filled == fillRectCpu(Blank(v), x, y, w, h, 7)
      overlay == fillRectCpuColor(Blank(v), x, y, w, h, [r |-> 9, g |-> 8, b |-> 7, a |-> 255])
      x0 == Larger(0, x)
      y0 == Larger(0, y)
      x1 == Smaller(v.width, x + w)
      y1 == Smaller(v.height, y + h)
      luma == IF isPlanarYuv(v.format) THEN yuvPlanes(v).y ELSE PackedPlane(v, 0)
      touched == {p \in (0..v.width - 1) \X (0..v.height - 1) :
                    Address(luma, p[1], p[2]) \in Changed(filled)}
  IN  ~refuses(v) =>
        /\ Changed(overlay) = Changed(filled)
        /\ DOMAIN filled.buf = 0..ViewBytes(v) - 1
        /\ x0 < x1 /\ y0 < y1 =>
             /\ (x0..x1 - 1) \X (y0..y1 - 1) \subseteq touched
             /\ \A p \in touched : p[1] \in x0 - 1..x1 /\ p[2] \in y0 - 1..y1
             /\ isPlanarYuv(v.format) =>
                  Cardinality(Changed(filled)) * 2 = 3 * Cardinality(touched)
        /\ x0 >= x1 \/ y0 >= y1 => Cardinality(touched) <= 4 * (v.width + v.height)
=============================================================================

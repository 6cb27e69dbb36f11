------------------------------- MODULE Images -------------------------------
(***************************************************************************)
(* The image descriptors of src/src/preproc/image.cc and image.h, the      *)
(* letterbox geometry of geometry.h, and the two places that turn it into  *)
(* an integer rectangle (letterbox_cpu.cc and rga.cc).                     *)
(*                                                                         *)
(* A view is [format, width, height, wstride, hstride, data, fd, below4g]; *)
(* a stride of 0 means packed.  A scale is a fraction [num, den].          *)
(***************************************************************************)
EXTENDS MppFormats

PlanarYuv == {"NV12", "NV21", "YUV420P"}
isPlanarYuv(f) == f \in PlanarYuv

effWStride(v) == IF v.wstride > 0 THEN v.wstride ELSE v.width
effHStride(v) == IF v.hstride > 0 THEN v.hstride ELSE v.height

rowBytes(v) == effWStride(v) * (IF bytesPerPixel(v.format) > 0 THEN bytesPerPixel(v.format) ELSE 1)
uvOffset(v) == effWStride(v) * effHStride(v)

imageBytes(f, ws, hs) ==
  LET plane == ws * hs
  IN  IF ws <= 0 \/ hs <= 0 THEN 0
      ELSE IF bytesPerPixel(f) > 0 THEN plane * bytesPerPixel(f)
      ELSE IF isPlanarYuv(f) THEN plane + plane \div 2
      ELSE 0

ViewBytes(v) == imageBytes(v.format, effWStride(v), effHStride(v))

\* What RGA3 demands of a row stride, in pixels.
strideAlign(f) == CASE f \in {"RGBA8888", "BGRA8888"} -> 4
                    [] f = "Unknown"                  -> 1
                    [] OTHER                          -> 16

alignUp(v, a) == IF a > 1 THEN ((v + a - 1) \div a) * a ELSE v

valid(v) == v.format # "Unknown" /\ v.width > 0 /\ v.height > 0 /\ (v.data \/ v.fd)

\* Image::alloc(): why it refuses, or the view it describes.
allocRefuses(w, h, f, wstride, hstride) ==
  \/ w <= 0 \/ h <= 0 \/ f = "Unknown"
  \/ isPlanarYuv(f) /\ (w % 2 # 0 \/ h % 2 # 0)
  \/ wstride > 0 /\ wstride < w
  \/ hstride > 0 /\ hstride < h
  \/ isPlanarYuv(f) /\ hstride > 0 /\ hstride % 2 # 0

alloc(w, h, f, wstride, hstride, heap) ==
  [format |-> f, width |-> w, height |-> h, data |-> FALSE, fd |-> TRUE,
   wstride |-> IF wstride > 0 THEN wstride ELSE alignUp(w, strideAlign(f)),
   hstride |-> IF hstride > 0 THEN hstride ELSE IF isPlanarYuv(f) THEN alignUp(h, 2) ELSE h,
   below4g |-> heapBelow4G(heap)]

\* Image::view() maps what alloc() left unmapped.
mapped(v) == [v EXCEPT !.data = TRUE]

hostViewRefuses(w, h, f, wstride, hstride) ==
  \/ w <= 0 \/ h <= 0 \/ f = "Unknown"
  \/ wstride > 0 /\ wstride < w
  \/ hstride > 0 /\ hstride < h

hostView(w, h, f, wstride, hstride) ==
  [format |-> f, width |-> w, height |-> h, data |-> TRUE, fd |-> FALSE,
   wstride |-> IF wstride > 0 THEN wstride ELSE 0,
   hstride |-> IF hstride > 0 THEN hstride ELSE 0, below4g |-> FALSE]

\* The channels a format presents to a tensor; planar YUV presents none.
tensorChannels(f) == bytesPerPixel(f)

\* engineInputView() of a tensor [dims, fmt, type, w_stride, exported].
inputViewRefuses(t, f) ==
  \/ Len(t.dims) # 4 \/ t.fmt # "NHWC" \/ t.type # "UINT8"
  \/ t.dims[2] <= 0 \/ t.dims[3] <= 0
  \/ t.dims[4] \notin {1, 3, 4} \/ tensorChannels(f) # t.dims[4]

engineInputView(t, f) ==
  [format |-> f, width |-> t.dims[3], height |-> t.dims[2], data |-> TRUE, fd |-> t.exported,
   wstride |-> t.w_stride, hstride |-> t.dims[2], below4g |-> FALSE]

(***************************************************************************)
(* Letterbox geometry.                                                     *)
(***************************************************************************)
Smaller(a, b) == IF a <= b THEN a ELSE b
Larger(a, b)  == IF a >= b THEN a ELSE b
Round(n, d) == (2 * n + d) \div (2 * d)
Even(n) == n - (n % 2)

\* computeLetterbox()'s scale: the smaller of the two ratios.
computeLetterbox(sw, sh, dw, dh) ==
  IF dw * sh <= dh * sw THEN [num |-> dw, den |-> sw] ELSE [num |-> dh, den |-> sh]

\* invX(), clampX(): from the canvas back to the source, rounded down to 1/k.
inv(x, pad, scale, k) == (k * (x - pad) * scale.den) \div scale.num
clamp(x, limit) == Smaller(Larger(x, 0), limit)

\* warp(): the rectangle the CPU path writes, the rounded extent first and the
\* padding from it.
CpuRect(src, dst) ==
  LET scale == computeLetterbox(src.width, src.height, dst.width, dst.height)
      fit(s, d) == LET e == Smaller(Round(s * scale.num, scale.den), d)
                   IN  IF isPlanarYuv(dst.format) THEN Even(e) ELSE e
      centre(d, e) == IF isPlanarYuv(dst.format) THEN Even((d - e) \div 2) ELSE (d - e) \div 2
      w == fit(src.width, dst.width)
      h == fit(src.height, dst.height)
  IN  [x |-> centre(dst.width, w), y |-> centre(dst.height, h), w |-> w, h |-> h]

\* rgaLetterbox(): the same four steps as the hardware path takes them.
RgaRect(src, dst) ==
  LET scale == computeLetterbox(src.width, src.height, dst.width, dst.height)
      mask == IF isPlanarYuv(dst.format) THEN 2 ELSE 1
      snap(n) == n - (n % mask)
      w == snap(Smaller(Round(src.width * scale.num, scale.den), dst.width))
      h == snap(Smaller(Round(src.height * scale.num, scale.den), dst.height))
  IN  [x |-> snap((dst.width - w) \div 2), y |-> snap((dst.height - h) \div 2), w |-> w, h |-> h]

(***************************************************************************)
(* Reference definitions.                                                  *)
(***************************************************************************)
Inside(r, v) == r.x >= 0 /\ r.y >= 0 /\ r.x + r.w <= v.width /\ r.y + r.h <= v.height

\* Both backends write the same rectangle, it lies on the canvas and is centred
\* to within the rounding, and the inverse map of the reported geometry lands
\* within half a model pixel (one and a half where 4:2:0 rounds to even) of the
\* source position each written column was sampled from.
GeometryAgrees(src, dst) ==
  LET r == CpuRect(src, dst)
      scale == computeLetterbox(src.width, src.height, dst.width, dst.height)
      slack == IF isPlanarYuv(dst.format) THEN 3 ELSE 1
      \* twice the model-pixel distance between where column i of n came from
      \* and where the inverse map puts it: (2i+1)(s * scale - n) / n
      drift(i, n, s) == (2 * i + 1) * (s * scale.num - n * scale.den)
  IN  /\ r = RgaRect(src, dst)
      /\ Inside(r, dst)
      /\ dst.width - r.w - 2 * r.x \in 0..slack /\ dst.height - r.h - 2 * r.y \in 0..slack
      /\ \A i \in 0..r.w - 1 :
           drift(i, r.w, src.width) \in -(slack * r.w * scale.den)..(slack * r.w * scale.den)
      /\ \A i \in 0..r.h - 1 :
           drift(i, r.h, src.height) \in -(slack * r.h * scale.den)..(slack * r.h * scale.den)

\* An allocated image is one RGA takes the stride of and the CPU path the
\* planes of: even strides and a whole chroma plane for 4:2:0.
AllocationIsUsable(w, h, f) ==
  ~allocRefuses(w, h, f, 0, 0) =>
    LET v == alloc(w, h, f, 0, 0, "System")
    IN  /\ effWStride(v) % strideAlign(f) = 0 /\ effWStride(v) >= w /\ effHStride(v) >= h
        /\ isPlanarYuv(f) => effWStride(v) % 2 = 0 /\ effHStride(v) % 2 = 0
        /\ ViewBytes(v) >= w * h
=============================================================================

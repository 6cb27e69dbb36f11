--------------------------- MODULE GeometryProofs ---------------------------
(***************************************************************************)
(* The rectangles of preprocessing, for images, boxes and rectangles of    *)
(* every size: the runs of MCVision try the boundary values, these         *)
(* theorems the rest.                                                      *)
(***************************************************************************)
EXTENDS Crops, FiniteSetTheorems, TLAPS

\* A product grows with either factor.
LEMMA ProductGrows ==
  ASSUME NEW a \in Nat, NEW b \in Nat, NEW c \in Nat, NEW d \in Nat, a <= c, b <= d
  PROVE  a * b <= c * d
<1>1. a * b <= a * d
  BY SMT
<1>2. a * d <= c * d
  BY SMT
<1>. QED
  BY <1>1, <1>2

(***************************************************************************)
(* Every image Image::alloc() describes has a row stride the RGA takes, a  *)
(* whole chroma plane, and bytes for each of its pixels.                   *)
(***************************************************************************)
THEOREM AllocationsAreUsable ==
  ASSUME NEW w \in Int, NEW h \in Int, NEW f \in PixelFormats \cup {"Unknown"}
  PROVE  AllocationIsUsable(w, h, f)
<1>. SUFFICES ASSUME ~allocRefuses(w, h, f, 0, 0)
              PROVE  LET v == alloc(w, h, f, 0, 0, "System")
                     IN  /\ effWStride(v) % strideAlign(f) = 0
                         /\ effWStride(v) >= w /\ effHStride(v) >= h
                         /\ isPlanarYuv(f) => effWStride(v) % 2 = 0 /\ effHStride(v) % 2 = 0
                         /\ ViewBytes(v) >= w * h
  BY DEF AllocationIsUsable
<1>. DEFINE v == alloc(w, h, f, 0, 0, "System")
<1>1. w > 0 /\ h > 0 /\ f # "Unknown" /\ f \in PixelFormats
  BY DEF allocRefuses
<1>2. strideAlign(f) \in {4, 16}
  BY <1>1 DEF strideAlign, PixelFormats
<1>3. v.wstride = alignUp(w, strideAlign(f)) /\ v.format = f /\ v.width = w /\ v.height = h
      /\ v.hstride = IF isPlanarYuv(f) THEN alignUp(h, 2) ELSE h
  BY DEF alloc
<1>4. v.wstride \in Int /\ v.wstride >= w /\ v.wstride % strideAlign(f) = 0 /\ v.wstride % 2 = 0
  <2>1. CASE strideAlign(f) = 4
    BY <1>1, <1>3, <2>1 DEF alignUp
  <2>2. CASE strideAlign(f) = 16
    BY <1>1, <1>3, <2>2 DEF alignUp
  <2>. QED
    BY <1>2, <2>1, <2>2
<1>5. v.hstride \in Int /\ v.hstride >= h /\ (isPlanarYuv(f) => v.hstride % 2 = 0)
  BY <1>1, <1>3 DEF alignUp
<1>6. effWStride(v) = v.wstride /\ effHStride(v) = v.hstride
  BY <1>1, <1>4, <1>5 DEF effWStride, effHStride
<1>. HIDE DEF v
<1>7. ViewBytes(v) >= w * h
  <2>1. PICK p \in Int : p = v.wstride * v.hstride
    BY <1>4, <1>5
  <2>2. p >= w * h
    BY <1>1, <1>4, <1>5, <2>1, ProductGrows
  <2>3. p >= 0
    <3>1. w * h >= 0
      BY <1>1, SMT
    <3>. QED
      BY <1>1, <2>2, <3>1
  <2>4. ViewBytes(v) = IF bytesPerPixel(f) > 0 THEN p * bytesPerPixel(f)
                       ELSE IF isPlanarYuv(f) THEN p + p \div 2 ELSE 0
    BY <1>1, <1>3, <1>4, <1>5, <1>6, <2>1 DEF ViewBytes, imageBytes
  <2>5. \/ bytesPerPixel(f) \in {1, 3, 4}
        \/ isPlanarYuv(f) /\ bytesPerPixel(f) = 0
    BY <1>1 DEF bytesPerPixel, isPlanarYuv, PlanarYuv, PixelFormats
  <2>6. w * h \in Int
    BY <1>1
  <2>7. ViewBytes(v) >= p
    BY <2>1, <2>3, <2>4, <2>5
  <2>. QED
    BY <2>1, <2>2, <2>4, <2>5, <2>6, <2>7
<1>. QED
  BY <1>4, <1>5, <1>6, <1>7 DEF v

-----------------------------------------------------------------------------
(* The crops of a box.                                                     *)

\* One axis of a box lo .. hi in quarters of a pixel, on an image of n pixels:
\* where an embedding's crop begins and ends, and a corner of a ReID crop.
Start(lo) == Larger(0, (2 * lo) \div 8)
Stop(hi, n) == Smaller(n, -((-(2 * hi)) \div 8))
Nearest(c, n) == clamp(Round(c, 4), n)

LEMMA OneAxis ==
  ASSUME NEW lo \in Int, NEW hi \in Int, lo < hi, NEW n \in Nat
  PROVE  /\ Start(lo) \in Nat /\ Stop(hi, n) \in Int
         /\ Nearest(lo, n) \in 0 .. n /\ Nearest(hi, n) \in 0 .. n
         /\ \A i \in 0 .. n - 1 :
              lo < 4 * (i + 1) /\ hi > 4 * i <=> i \in Start(lo) .. Stop(hi, n) - 1
         /\ Start(lo) .. Stop(hi, n) - 1 \subseteq 0 .. n - 1
         /\ Nearest(hi, n) > Nearest(lo, n) =>
              /\ Stop(hi, n) > Start(lo)
              /\ Nearest(lo, n) - Start(lo) \in 0 .. 1
              /\ Stop(hi, n) - Nearest(hi, n) \in 0 .. 1
  BY DEF Start, Stop, Nearest, Larger, Smaller, clamp, Round

(***************************************************************************)
(* The crops of ImageEmbedder::embed() and reidPreprocess(), for any box   *)
(* on any frame: the first is exactly the pixels the box touches, the      *)
(* second within half a pixel of it, and neither leaves the frame.         *)
(***************************************************************************)
THEOREM BoxCropsCoverTheBox ==
  ASSUME NEW v, v.width \in Nat, v.height \in Nat,
         NEW b \in [x1 : Int, y1 : Int, x2 : Int, y2 : Int]
  PROVE  BoxCropsCover(v, b)
<1>. SUFFICES ASSUME b.x1 < b.x2, b.y1 < b.y2
              PROVE  BoxCropsCover(v, b)
  BY DEF BoxCropsCover
<1>0. b.x1 \in Int /\ b.x2 \in Int /\ b.y1 \in Int /\ b.y2 \in Int
  OBVIOUS
<1>. DEFINE x == Start(b.x1)
            y == Start(b.y1)
            ex == Stop(b.x2, v.width)
            ey == Stop(b.y2, v.height)
            near(c, n) == Nearest(c, n)
            cols == {i \in 0 .. v.width - 1 : b.x1 < 4 * (i + 1) /\ b.x2 > 4 * i}
            rows == {i \in 0 .. v.height - 1 : b.y1 < 4 * (i + 1) /\ b.y2 > 4 * i}
            e == embedBox(v, b, [num |-> 1, den |-> 1])
            r == reidBox(v.width, v.height, b)
<1>1. e = IF ex - x > 0 /\ ey - y > 0
          THEN <<[x |-> x, y |-> y, w |-> ex - x, h |-> ey - y]>> ELSE <<>>
  <2>1. ASSUME NEW p \in Int, NEW q \in Int, p < q
        PROVE  /\ Smaller((p + q) + (-1) * (q - p), (p + q) + 1 * (q - p)) = 2 * p
               /\ Larger((p + q) + (-1) * (q - p), (p + q) + 1 * (q - p)) = 2 * q
    BY <2>1 DEF Smaller, Larger
  <2>2. /\ Smaller((b.x1 + b.x2) + (-1) * (b.x2 - b.x1), (b.x1 + b.x2) + 1 * (b.x2 - b.x1)) = 2 * b.x1
        /\ Larger((b.x1 + b.x2) + (-1) * (b.x2 - b.x1), (b.x1 + b.x2) + 1 * (b.x2 - b.x1)) = 2 * b.x2
        /\ Smaller((b.y1 + b.y2) + (-1) * (b.y2 - b.y1), (b.y1 + b.y2) + 1 * (b.y2 - b.y1)) = 2 * b.y1
        /\ Larger((b.y1 + b.y2) + (-1) * (b.y2 - b.y1), (b.y1 + b.y2) + 1 * (b.y2 - b.y1)) = 2 * b.y2
    BY <1>0, <2>1
  <2>3. ~([num |-> 1, den |-> 1].num # [num |-> 1, den |-> 1].den) /\ 2 * 4 = 8
    OBVIOUS
  <2>. QED
    BY <2>2, <2>3 DEF embedBox, Sub, Start, Stop
<1>2. r = IF near(b.x2, v.width) - near(b.x1, v.width) > 0
             /\ near(b.y2, v.height) - near(b.y1, v.height) > 0
          THEN <<[x |-> near(b.x1, v.width), y |-> near(b.y1, v.height),
                  w |-> near(b.x2, v.width) - near(b.x1, v.width),
                  h |-> near(b.y2, v.height) - near(b.y1, v.height)]>> ELSE <<>>
  BY DEF reidBox, Sub, Nearest
<1>3. /\ x \in Nat /\ ex \in Int /\ cols = x .. ex - 1
      /\ near(b.x1, v.width) \in 0 .. v.width /\ near(b.x2, v.width) \in 0 .. v.width
      /\ near(b.x2, v.width) > near(b.x1, v.width) =>
           ex > x /\ near(b.x1, v.width) - x \in 0 .. 1 /\ ex - near(b.x2, v.width) \in 0 .. 1
  <2>. HIDE DEF x, ex, near
  <2>1. /\ x \in Nat /\ ex \in Int
        /\ near(b.x1, v.width) \in 0 .. v.width /\ near(b.x2, v.width) \in 0 .. v.width
        /\ \A i \in 0 .. v.width - 1 :
             b.x1 < 4 * (i + 1) /\ b.x2 > 4 * i <=> i \in x .. ex - 1
        /\ x .. ex - 1 \subseteq 0 .. v.width - 1
        /\ near(b.x2, v.width) > near(b.x1, v.width) =>
             ex > x /\ near(b.x1, v.width) - x \in 0 .. 1 /\ ex - near(b.x2, v.width) \in 0 .. 1
    BY <1>0, OneAxis DEF x, ex, near
  <2>2. cols = x .. ex - 1
    BY <2>1
  <2>. QED
    BY <2>1, <2>2
<1>4. /\ y \in Nat /\ ey \in Int /\ rows = y .. ey - 1
      /\ near(b.y1, v.height) \in 0 .. v.height /\ near(b.y2, v.height) \in 0 .. v.height
      /\ near(b.y2, v.height) > near(b.y1, v.height) =>
           ey > y /\ near(b.y1, v.height) - y \in 0 .. 1 /\ ey - near(b.y2, v.height) \in 0 .. 1
  <2>. HIDE DEF y, ey, near
  <2>1. /\ y \in Nat /\ ey \in Int
        /\ near(b.y1, v.height) \in 0 .. v.height /\ near(b.y2, v.height) \in 0 .. v.height
        /\ \A i \in 0 .. v.height - 1 :
             b.y1 < 4 * (i + 1) /\ b.y2 > 4 * i <=> i \in y .. ey - 1
        /\ y .. ey - 1 \subseteq 0 .. v.height - 1
        /\ near(b.y2, v.height) > near(b.y1, v.height) =>
             ey > y /\ near(b.y1, v.height) - y \in 0 .. 1 /\ ey - near(b.y2, v.height) \in 0 .. 1
    BY <1>0, OneAxis DEF y, ey, near
  <2>2. rows = y .. ey - 1
    BY <2>1
  <2>. QED
    BY <2>1, <2>2
<1>. HIDE DEF x, y, ex, ey, near, cols, rows, e, r
<1>5. (cols = {} <=> ~(ex - x > 0)) /\ (rows = {} <=> ~(ey - y > 0))
  <2>1. ASSUME NEW p \in Int, NEW q \in Int
        PROVE  p .. q - 1 = {} <=> ~(q - p > 0)
    <3>1. q - p > 0 => p \in p .. q - 1
      OBVIOUS
    <3>2. ~(q - p > 0) => p .. q - 1 = {}
      OBVIOUS
    <3>. QED
      BY <3>1, <3>2
  <2>2. x \in Int /\ ex \in Int /\ cols = x .. ex - 1
        /\ y \in Int /\ ey \in Int /\ rows = y .. ey - 1
    BY <1>3, <1>4
  <2>. QED
    BY <2>1, <2>2
<1>6. (e = <<>>) <=> (cols = {} \/ rows = {})
  <2>1. CASE ex - x > 0 /\ ey - y > 0
    BY <1>1, <1>5, <2>1
  <2>2. CASE ~(ex - x > 0 /\ ey - y > 0)
    BY <1>1, <1>5, <2>2
  <2>. QED
    BY <2>1, <2>2
<1>7. e # <<>> => /\ e[1] = [x |-> x, y |-> y, w |-> ex - x, h |-> ey - y]
                  /\ e[1].x .. e[1].x + e[1].w - 1 = cols
                  /\ e[1].y .. e[1].y + e[1].h - 1 = rows
  <2>1. x + (ex - x) - 1 = ex - 1 /\ y + (ey - y) - 1 = ey - 1
    BY <1>3, <1>4
  <2>. QED
    BY <1>1, <1>3, <1>4, <2>1
<1>8. ASSUME r # <<>>
      PROVE  /\ e # <<>> /\ Inside(r[1], v)
             /\ r[1].x - e[1].x \in 0 .. 1 /\ r[1].y - e[1].y \in 0 .. 1
             /\ e[1].x + e[1].w - (r[1].x + r[1].w) \in 0 .. 1
             /\ e[1].y + e[1].h - (r[1].y + r[1].h) \in 0 .. 1
  <2>1. /\ near(b.x2, v.width) > near(b.x1, v.width)
        /\ near(b.y2, v.height) > near(b.y1, v.height)
    BY <1>2, <1>3, <1>4, <1>8
  <2>2. ex > x /\ ey > y
    BY <1>3, <1>4, <2>1
  <2>3. r[1] = [x |-> near(b.x1, v.width), y |-> near(b.y1, v.height),
                w |-> near(b.x2, v.width) - near(b.x1, v.width),
                h |-> near(b.y2, v.height) - near(b.y1, v.height)]
    BY <1>2, <1>8
  <2>4. e # <<>> /\ e[1] = [x |-> x, y |-> y, w |-> ex - x, h |-> ey - y]
    <3>1. ex - x > 0 /\ ey - y > 0
      BY <1>3, <1>4, <2>2
    <3>. QED
      BY <1>1, <3>1
  <2>. QED
    <3>1. /\ e[1].x = x /\ e[1].y = y /\ e[1].x + e[1].w = ex /\ e[1].y + e[1].h = ey
      BY <1>3, <1>4, <2>4
    <3>2. /\ r[1].x = near(b.x1, v.width) /\ r[1].y = near(b.y1, v.height)
          /\ r[1].x + r[1].w = near(b.x2, v.width) /\ r[1].y + r[1].h = near(b.y2, v.height)
      BY <1>3, <1>4, <2>3
    <3>3. Inside(r[1], v)
      BY <1>3, <1>4, <3>2 DEF Inside
    <3>. QED
      <4>1. /\ near(b.x1, v.width) - x \in 0 .. 1 /\ ex - near(b.x2, v.width) \in 0 .. 1
            /\ near(b.y1, v.height) - y \in 0 .. 1 /\ ey - near(b.y2, v.height) \in 0 .. 1
        BY <1>3, <1>4, <2>1
      <4>2. /\ r[1].x - e[1].x \in 0 .. 1 /\ r[1].y - e[1].y \in 0 .. 1
            /\ e[1].x + e[1].w - (r[1].x + r[1].w) \in 0 .. 1
            /\ e[1].y + e[1].h - (r[1].y + r[1].h) \in 0 .. 1
        <5>1. /\ x \in Int /\ y \in Int /\ ex \in Int /\ ey \in Int
              /\ near(b.x2, v.width) \in Int /\ near(b.y2, v.height) \in Int
              /\ e[1].w = ex - x /\ e[1].h = ey - y
          BY <1>3, <1>4, <2>4
        <5>2. \A p, w, q \in Int : p + w - q = (p + w) - q
          OBVIOUS
        <5>3. /\ e[1].x + e[1].w - (r[1].x + r[1].w) = ex - near(b.x2, v.width)
              /\ e[1].y + e[1].h - (r[1].y + r[1].h) = ey - near(b.y2, v.height)
          BY <3>1, <3>2, <5>1, <5>2
        <5>. QED
          BY <3>1, <3>2, <4>1, <5>3
      <4>. QED
        BY <2>4, <3>3, <4>2
<1>. QED
  BY <1>6, <1>7, <1>8 DEF BoxCropsCover, Sub, cols, rows, e, r

-----------------------------------------------------------------------------
(* The letterbox.                                                          *)

\* Division rounds down.
LEMMA Quotient ==
  ASSUME NEW a \in Int, NEW b \in Nat \ {0}
  PROVE  /\ a \div b \in Int
         /\ (a \div b) * b <= a /\ a < (a \div b) * b + b
  BY SMT

\* k halves of a difference d, for k up to 2m, are at most m times its bound.
LEMMA Balanced ==
  ASSUME NEW k \in Nat, NEW m \in Nat, k <= 2 * m, NEW d \in Int, NEW e \in Nat,
         -e <= 2 * d, 2 * d <= e
  PROVE  -(m * e) <= k * d /\ k * d <= m * e
<1>1. k * e <= (2 * m) * e
  BY SMT
<1>2. k * (2 * d) <= k * e
  BY SMT
<1>3. k * (-e) <= k * (2 * d)
  BY SMT
<1>4. k * (2 * d) = 2 * (k * d) /\ k * (-e) = -(k * e) /\ (2 * m) * e = 2 * (m * e)
  BY SMT
<1>5. k * e \in Int /\ k * d \in Int /\ m * e \in Int
  OBVIOUS
<1>. QED
  BY <1>1, <1>2, <1>3, <1>4, <1>5

\* An extent that fits: what rounding makes of n / d when n / d is at most limit.
LEMMA RoundFits ==
  ASSUME NEW n \in Nat, NEW d \in Nat \ {0}, NEW limit \in Nat, n <= limit * d
  PROVE  /\ Round(n, d) \in 0 .. limit
         /\ -d <= 2 * (n - Round(n, d) * d) /\ 2 * (n - Round(n, d) * d) <= d
<1>1. PICK q \in Int : q = Round(n, d) /\ q * (2 * d) <= 2 * n + d /\ 2 * n + d < q * (2 * d) + 2 * d
  <2>1. 2 * n + d \in Int /\ 2 * d \in Nat \ {0}
    OBVIOUS
  <2>. QED
    BY <2>1, Quotient DEF Round
<1>2. PICK p \in Int : p = q * d
  OBVIOUS
<1>3. q * (2 * d) = 2 * p
  BY <1>2, SMT
<1>4. 2 * p <= 2 * n + d /\ 2 * n + d < 2 * p + 2 * d
  BY <1>1, <1>3
<1>5. q >= 0
  <2>1. CASE q <= -1
    <3>1. q * d <= (-1) * d
      BY <2>1, SMT
    <3>. QED
      BY <1>2, <1>4, <3>1
  <2>. QED
    BY <2>1
<1>6. q <= limit
  <2>1. CASE q >= limit + 1
    <3>1. q * d >= (limit + 1) * d
      BY <2>1, SMT
    <3>2. (limit + 1) * d = limit * d + d
      BY SMT
    <3>3. limit * d \in Int
      OBVIOUS
    <3>. QED
      BY <1>2, <1>4, <3>1, <3>2, <3>3
  <2>. QED
    BY <2>1
<1>. QED
  BY <1>1, <1>2, <1>4, <1>5, <1>6

\* What a rectangle's side is snapped to: an even number of pixels in 4:2:0.
Snap(n, mask) == n - (n % mask)
Slack(mask) == IF mask = 2 THEN 3 ELSE 1

\* Snapping loses at most one pixel, and is Even() or nothing.
LEMMA SnapRounds ==
  ASSUME NEW n \in Nat, NEW mask \in {1, 2}
  PROVE  /\ Snap(n, mask) \in 0 .. n /\ n - Snap(n, mask) \in 0 .. mask - 1
         /\ Snap(n, 2) = Even(n) /\ Snap(n, 1) = n
  BY DEF Snap, Even

\* One axis of a letterbox: s source pixels, scaled by num / den, on d pixels.
LEMMA AxisFits ==
  ASSUME NEW s \in Nat \ {0}, NEW d \in Nat \ {0}, NEW num \in Nat \ {0}, NEW den \in Nat \ {0},
         s * num <= d * den, NEW mask \in {1, 2},
         NEW e, e = Snap(Smaller(Round(s * num, den), d), mask)
  PROVE  /\ Round(s * num, den) \in Nat /\ Smaller(Round(s * num, den), d) \in Nat
         /\ e \in 0 .. d
         /\ d - e - 2 * Snap((d - e) \div 2, mask) \in 0 .. Slack(mask)
         /\ Snap((d - e) \div 2, mask) >= 0
         /\ Snap((d - e) \div 2, mask) + e <= d
         /\ \A i \in 0 .. e - 1 :
              (2 * i + 1) * (s * num - e * den) \in -(Slack(mask) * e * den) .. (Slack(mask) * e * den)
<1>1. PICK n \in Nat : n = s * num /\ n <= d * den
  OBVIOUS
<1>2. PICK R \in 0 .. d : R = Round(n, den) /\ -den <= 2 * (n - R * den) /\ 2 * (n - R * den) <= den
  BY <1>1, RoundFits
<1>3. Smaller(R, d) = R
  BY <1>2 DEF Smaller
<1>4. e \in 0 .. d /\ R - e \in 0 .. mask - 1
  <2>1. e = Snap(R, mask) /\ R \in Nat
    BY <1>1, <1>2, <1>3
  <2>2. e \in 0 .. R /\ R - e \in 0 .. mask - 1
    BY <2>1, SnapRounds
  <2>. QED
    BY <1>2, <2>2
<1>5. PICK t \in 0 .. 1 : t = R - e /\ e = R - t /\ (mask = 1 => t = 0)
  BY <1>4
<1>6. PICK diff \in Int : diff = s * num - e * den
  BY <1>4
<1>7. -(Slack(mask) * den) <= 2 * diff /\ 2 * diff <= Slack(mask) * den
  <2>1. e * den = R * den - t * den
    BY <1>5, SMT
  <2>2. t * den = 0 \/ (t * den = den /\ mask = 2)
    BY <1>5, SMT
  <2>3. PICK p \in Int : p = R * den
    BY <1>2
  <2>4. diff = n - (p - t * den)
    BY <1>1, <1>6, <2>1, <2>3
  <2>5. -den <= 2 * (n - p) /\ 2 * (n - p) <= den
    BY <1>2, <2>3
  <2>. QED
    BY <2>2, <2>4, <2>5 DEF Slack
<1>8. ASSUME NEW i \in 0 .. e - 1
      PROVE  (2 * i + 1) * (s * num - e * den)
               \in -(Slack(mask) * e * den) .. (Slack(mask) * e * den)
  <2>1. PICK k \in Nat : k = 2 * i + 1 /\ k <= 2 * e
    BY <1>4
  <2>2. PICK sl \in Nat : sl = Slack(mask)
    BY DEF Slack
  <2>3. PICK b \in Nat : b = sl * den
    BY <2>2
  <2>4. -b <= 2 * diff /\ 2 * diff <= b
    BY <1>7, <2>2, <2>3
  <2>5. -(e * b) <= k * diff /\ k * diff <= e * b
    BY <1>4, <2>1, <2>4, Balanced
  <2>6. e * b = sl * e * den
    BY <1>4, <2>3, SMT
  <2>7. k * diff \in Int /\ e * b \in Int
    BY <1>4
  <2>8. k * diff \in -(e * b) .. (e * b)
    BY <2>5, <2>7
  <2>9. Slack(mask) * e * den = e * b /\ (2 * i + 1) * (s * num - e * den) = k * diff
    BY <1>6, <2>1, <2>2, <2>6
  <2>. QED
    BY <2>8, <2>9
<1>9. PICK m \in Nat : m = (d - e) \div 2 /\ d - e - 2 * m \in 0 .. 1
  <2>1. d - e \in Nat
    BY <1>4
  <2>2. \A a \in Nat : a \div 2 \in Nat /\ a - 2 * (a \div 2) \in 0 .. 1
    OBVIOUS
  <2>. QED
    BY <2>1, <2>2
<1>10. /\ Snap(m, mask) \in 0 .. m /\ m - Snap(m, mask) \in 0 .. mask - 1
  BY SnapRounds
<1>11. /\ d - e - 2 * Snap(m, mask) \in 0 .. Slack(mask)
       /\ Snap(m, mask) >= 0 /\ Snap(m, mask) + e <= d
  BY <1>4, <1>9, <1>10 DEF Slack
<1>. QED
  BY <1>1, <1>2, <1>3, <1>4, <1>8, <1>9, <1>11

\* computeLetterbox() takes the ratio at which both axes fit.
LEMMA ScaleFits ==
  ASSUME NEW sw \in Nat \ {0}, NEW sh \in Nat \ {0}, NEW dw \in Nat \ {0}, NEW dh \in Nat \ {0}
  PROVE  LET scale == computeLetterbox(sw, sh, dw, dh)
         IN  /\ scale.num \in Nat \ {0} /\ scale.den \in Nat \ {0}
             /\ sw * scale.num <= dw * scale.den /\ sh * scale.num <= dh * scale.den
<1>1. CASE dw * sh <= dh * sw
  <2>1. computeLetterbox(sw, sh, dw, dh) = [num |-> dw, den |-> sw]
    BY <1>1 DEF computeLetterbox
  <2>2. sw * dw = dw * sw /\ sh * dw = dw * sh
    BY SMT
  <2>3. sw * dw <= dw * sw /\ sh * dw <= dh * sw
    BY <1>1, <2>2, SMT
  <2>. QED
    BY <2>1, <2>3
<1>2. CASE ~(dw * sh <= dh * sw)
  <2>1. computeLetterbox(sw, sh, dw, dh) = [num |-> dh, den |-> sh]
    BY <1>2 DEF computeLetterbox
  <2>2. sh * dh = dh * sh /\ sw * dh = dh * sw
    BY SMT
  <2>3. sw * dh <= dw * sh /\ sh * dh <= dh * sh
    <3>1. PICK p \in Int, q \in Int : p = dw * sh /\ q = dh * sw
      OBVIOUS
    <3>2. q <= p
      BY <1>2, <3>1
    <3>. QED
      BY <2>2, <3>1, <3>2
  <2>. QED
    BY <2>1, <2>3
<1>. QED
  BY <1>1, <1>2

(***************************************************************************)
(* The letterbox rectangle of letterbox_cpu.cc and of rga.cc, for every pair *)
(* of sizes and formats: both are the same, on the canvas and centred, and *)
(* what computeLetterbox() reports maps every column and row back to within *)
(* half a model pixel (one and a half on 4:2:0) of where it came from.     *)
(***************************************************************************)
THEOREM LetterboxesAgree ==
  ASSUME NEW src, src.width \in Nat \ {0}, src.height \in Nat \ {0},
         NEW dst, dst.width \in Nat \ {0}, dst.height \in Nat \ {0}
  PROVE  GeometryAgrees(src, dst)
<1>. DEFINE scale == computeLetterbox(src.width, src.height, dst.width, dst.height)
            mask == IF isPlanarYuv(dst.format) THEN 2 ELSE 1
            side(s, d) == Snap(Smaller(Round(s * scale.num, scale.den), d), mask)
            w == side(src.width, dst.width)
            h == side(src.height, dst.height)
            rect == [x |-> Snap((dst.width - w) \div 2, mask), y |-> Snap((dst.height - h) \div 2, mask),
                     w |-> w, h |-> h]
            r == CpuRect(src, dst)
            even == isPlanarYuv(dst.format)
<1>1. /\ scale.num \in Nat \ {0} /\ scale.den \in Nat \ {0}
      /\ src.width * scale.num <= dst.width * scale.den
      /\ src.height * scale.num <= dst.height * scale.den
  BY ScaleFits
<1>2. mask \in {1, 2} /\ (mask = 2 <=> even)
  OBVIOUS
<1>3. RgaRect(src, dst) = rect
  BY DEF RgaRect, Snap
<1>. HIDE DEF mask
<1>4. /\ Smaller(Round(src.width * scale.num, scale.den), dst.width) \in Nat
      /\ w \in 0 .. dst.width
      /\ dst.width - w - 2 * rect.x \in 0 .. Slack(mask) /\ rect.x >= 0 /\ rect.x + w <= dst.width
      /\ \A i \in 0 .. w - 1 :
           (2 * i + 1) * (src.width * scale.num - w * scale.den)
             \in -(Slack(mask) * w * scale.den) .. (Slack(mask) * w * scale.den)
  <2>. HIDE DEF scale
  <2>1. PICK sn \in Nat \ {0}, sd \in Nat \ {0} : sn = scale.num /\ sd = scale.den
    BY <1>1
  <2>2. PICK e : e = w
    OBVIOUS
  <2>. QED
    BY <1>1, <1>2, <2>1, <2>2, AxisFits
<1>5. /\ Smaller(Round(src.height * scale.num, scale.den), dst.height) \in Nat
      /\ h \in 0 .. dst.height
      /\ dst.height - h - 2 * rect.y \in 0 .. Slack(mask) /\ rect.y >= 0 /\ rect.y + h <= dst.height
      /\ \A i \in 0 .. h - 1 :
           (2 * i + 1) * (src.height * scale.num - h * scale.den)
             \in -(Slack(mask) * h * scale.den) .. (Slack(mask) * h * scale.den)
  <2>. HIDE DEF scale
  <2>1. PICK sn \in Nat \ {0}, sd \in Nat \ {0} : sn = scale.num /\ sd = scale.den
    BY <1>1
  <2>2. PICK e : e = h
    OBVIOUS
  <2>. QED
    BY <1>1, <1>2, <2>1, <2>2, AxisFits
<1>6. r = rect
  <2>1. \A n \in Nat : Snap(n, mask) = IF even THEN Even(n) ELSE n
    BY <1>2, SnapRounds
  <2>2. (dst.width - w) \div 2 \in Nat /\ (dst.height - h) \div 2 \in Nat
    <3>. HIDE DEF w, h
    <3>. QED
      BY <1>4, <1>5
  <2>. QED
    BY <1>4, <1>5, <2>1, <2>2 DEF CpuRect
<1>7. r.w = w /\ r.h = h /\ r.x = rect.x /\ r.y = rect.y
  BY <1>6
<1>8. Slack(mask) = IF even THEN 3 ELSE 1
  BY <1>2 DEF Slack
<1>. HIDE DEF w, h, r, rect, scale
<1>9. Inside(r, dst)
  BY <1>4, <1>5, <1>7 DEF Inside
<1>. QED
  BY <1>3, <1>4, <1>5, <1>6, <1>7, <1>8, <1>9 DEF GeometryAgrees, r, scale

(***************************************************************************)
(* The border source of rga.cc, a grey square of a quarter of the canvas, is *)
(* within the scale limit of the RGA3 core for every canvas at least 20    *)
(* pixels either way and at most sixteen times as long as it is wide.      *)
(***************************************************************************)
THEOREM GreyBorderStaysOnRga3 ==
  ASSUME NEW w \in Nat, NEW h \in Nat, NEW f
  PROVE  GreyStaysOnRga3(w, h, f)
<1>. SUFFICES ASSUME w >= 20, h >= 20, w <= 16 * h, h <= 16 * w, f # "GRAY8"
              PROVE  ~needsRga2(greySource(hostView(w, h, f, 0, 0)), hostView(w, h, f, 0, 0))
  BY DEF GreyStaysOnRga3
<1>. DEFINE dst == hostView(w, h, f, 0, 0)
            side == greySide(dst)
            src == greySource(dst)
<1>1. dst.width = w /\ dst.height = h /\ dst.format = f
  BY DEF hostView
<1>2. src.width = side /\ src.height = side /\ src.format = f
  BY <1>1 DEF greySource, hostView
<1>3. PICK need \in Nat : /\ need = Larger(Larger((w + 3) \div 4, (h + 3) \div 4), 68)
                          /\ need >= 68 /\ 4 * need >= w /\ 4 * need >= h
                          /\ need <= 4 * w /\ need <= 4 * h
  <2>1. PICK a \in Nat, b \in Nat : /\ a = (w + 3) \div 4 /\ 4 * a >= w /\ a <= 4 * h /\ a <= w
                                    /\ b = (h + 3) \div 4 /\ 4 * b >= h /\ b <= 4 * w /\ b <= h
    OBVIOUS
  <2>. QED
    BY <2>1 DEF Larger
<1>4. side \in Nat /\ side >= need /\ side <= need + 15
  <2>1. side = ((need + 15) \div 16) * 16
    BY <1>1, <1>3 DEF greySide
  <2>. QED
    BY <2>1
<1>. HIDE DEF dst, src, side
<1>5. /\ ~(w * 8 < side) /\ ~(w > 8 * side)
      /\ ~(h * 8 < side) /\ ~(h > 8 * side)
  BY <1>3, <1>4
<1>. QED
  BY <1>1, <1>2, <1>5 DEF needsRga2, kRga3MaxScale, dst, src

-----------------------------------------------------------------------------
(* Overlays.                                                               *)

\* An interval of columns or rows snapped outward to even numbers, and clipped.
LEMMA EvenRounds ==
  ASSUME NEW n \in Int
  PROVE  /\ Even(n) \in Int /\ Even(n) % 2 = 0 /\ n - Even(n) \in 0 .. 1
         /\ Even(n + 1) \in Int /\ Even(n + 1) % 2 = 0 /\ Even(n + 1) - n \in 0 .. 1
  BY DEF Even

\* The rectangle every fill and overlay is drawn in.
LEMMA SnappedInside ==
  ASSUME NEW v, v.width \in Nat, v.height \in Nat,
         isPlanarYuv(v.format) => v.width % 2 = 0 /\ v.height % 2 = 0,
         NEW x \in Int, NEW y \in Int, NEW w \in Int, NEW h \in Int,
         NEW r, r = SnappedRect(v, x, y, w, h)
  PROVE  /\ r.x \in Nat /\ r.y \in Nat /\ r.w \in Int /\ r.h \in Int
         /\ r.x + r.w <= v.width /\ r.y + r.h <= v.height
         /\ isPlanarYuv(v.format) => r.x % 2 = 0 /\ r.y % 2 = 0 /\ r.w % 2 = 0 /\ r.h % 2 = 0
         /\ r = [x |-> r.x, y |-> r.y, w |-> r.w, h |-> r.h]
<1>. DEFINE even == isPlanarYuv(v.format)
            low(n) == IF even THEN Even(Larger(0, n)) ELSE Larger(0, n)
            high(n, limit) == Smaller(limit, IF even THEN Even(Smaller(limit, n) + 1) ELSE Smaller(limit, n))
<1>1. ASSUME NEW a \in Int, NEW b \in Int, NEW limit \in Nat, even => limit % 2 = 0
      PROVE  /\ low(a) \in Nat /\ high(b, limit) - low(a) \in Int
             /\ low(a) + (high(b, limit) - low(a)) <= limit
             /\ even => low(a) % 2 = 0 /\ (high(b, limit) - low(a)) % 2 = 0
  <2>1. PICK p \in Nat : p = Larger(0, a)
    BY DEF Larger
  <2>2. PICK q \in Int : q = Smaller(limit, b) /\ q <= limit
    BY DEF Smaller
  <2>3. low(a) \in Nat /\ (even => low(a) % 2 = 0)
    <3>1. Even(p) \in Nat /\ Even(p) % 2 = 0
      BY DEF Even
    <3>2. low(a) = IF even THEN Even(p) ELSE p
      BY <2>1
    <3>. HIDE DEF low, even
    <3>. QED
      BY <2>1, <3>1, <3>2
  <2>4. PICK m \in Int : /\ m = IF even THEN Even(q + 1) ELSE q
                         /\ even => m % 2 = 0
    <3>. HIDE DEF even
    <3>. QED
      BY EvenRounds
  <2>5. high(b, limit) = Smaller(limit, m)
    BY <2>2, <2>4
  <2>6. high(b, limit) \in Int /\ high(b, limit) <= limit /\ (even => high(b, limit) % 2 = 0)
    BY <1>1, <2>4, <2>5 DEF Smaller
  <2>7. PICK lo \in Nat, hi \in Int : lo = low(a) /\ hi = high(b, limit)
    BY <2>3, <2>6
  <2>. HIDE DEF low, high, even
  <2>8. hi - lo \in Int /\ lo + (hi - lo) <= limit /\ (even => lo % 2 = 0 /\ (hi - lo) % 2 = 0)
    BY <2>3, <2>6, <2>7
  <2>. QED
    BY <2>3, <2>7, <2>8
<1>2. r = [x |-> low(x), y |-> low(y), w |-> high(x + w, v.width) - low(x),
           h |-> high(y + h, v.height) - low(y)]
  BY DEF SnappedRect
<1>3. x + w \in Int /\ y + h \in Int
  OBVIOUS
<1>. HIDE DEF low, high, even
<1>4. /\ low(x) \in Nat /\ high(x + w, v.width) - low(x) \in Int
      /\ low(x) + (high(x + w, v.width) - low(x)) <= v.width
      /\ even => low(x) % 2 = 0 /\ (high(x + w, v.width) - low(x)) % 2 = 0
  BY <1>1, <1>3 DEF even
<1>5. /\ low(y) \in Nat /\ high(y + h, v.height) - low(y) \in Int
      /\ low(y) + (high(y + h, v.height) - low(y)) <= v.height
      /\ even => low(y) % 2 = 0 /\ (high(y + h, v.height) - low(y)) % 2 = 0
  BY <1>1, <1>3 DEF even
<1>6. r.x = low(x) /\ r.y = low(y) /\ r.w = high(x + w, v.width) - low(x)
      /\ r.h = high(y + h, v.height) - low(y)
  BY <1>2
<1>. QED
  BY <1>2, <1>4, <1>5, <1>6 DEF even

(***************************************************************************)
(* The bands drawRects() fills for any request on any canvas share no pixel *)
(* and are together the ring of its thickness inside the clipped rectangle; *)
(* on 4:2:0, with even sides as Image::alloc() and the software path demand *)
(* of it, every band covers whole chroma samples.                          *)
(***************************************************************************)
THEOREM OutlinesAreRings ==
  ASSUME NEW dst, dst.width \in Nat, dst.height \in Nat,
         isPlanarYuv(dst.format) => dst.width % 2 = 0 /\ dst.height % 2 = 0,
         NEW q \in [x : Int, y : Int, w : Int, h : Int, thickness : Int]
  PROVE  BandsTileOutline(dst, q)
<1>. DEFINE o == outlineOf(dst, q)
            r == o.rect
            t == o.thickness
            bands == outlineBands(o)
            even == isPlanarYuv(dst.format)
            hit(x, y) == {k \in DOMAIN bands : Covers(bands[k], x, y)}
            edge(x, y) == Smaller(Smaller(x - r.x, r.x + r.w - 1 - x), Smaller(y - r.y, r.y + r.h - 1 - y))
<1>. SUFFICES ASSUME o # Nothing
              PROVE  BandsTileOutline(dst, q)
  BY DEF BandsTileOutline
<1>1. /\ r.x \in Nat /\ r.y \in Nat /\ r.w \in Nat /\ r.h \in Nat /\ r.w > 0 /\ r.h > 0
      /\ r.x + r.w <= dst.width /\ r.y + r.h <= dst.height
      /\ even => r.x % 2 = 0 /\ r.y % 2 = 0 /\ r.w % 2 = 0 /\ r.h % 2 = 0
      /\ r = [x |-> r.x, y |-> r.y, w |-> r.w, h |-> r.h]
      /\ t \in Nat /\ (t > 0 => r.w > 2 * t /\ r.h > 2 * t) /\ (even => t % 2 = 0)
  <2>1. PICK s : s = SnappedRect(dst, q.x, q.y, q.w, q.h)
    OBVIOUS
  <2>2. /\ s.x \in Nat /\ s.y \in Nat /\ s.w \in Int /\ s.h \in Int
        /\ s.x + s.w <= dst.width /\ s.y + s.h <= dst.height
        /\ even => s.x % 2 = 0 /\ s.y % 2 = 0 /\ s.w % 2 = 0 /\ s.h % 2 = 0
        /\ s = [x |-> s.x, y |-> s.y, w |-> s.w, h |-> s.h]
    <3>1. q.x \in Int /\ q.y \in Int /\ q.w \in Int /\ q.h \in Int
      OBVIOUS
    <3>. QED
      <4>1. PICK x \in Int, y \in Int, w \in Int, h \in Int :
              s = SnappedRect(dst, x, y, w, h)
        BY <2>1, <3>1
      <4>2. /\ dst.width \in Nat /\ dst.height \in Nat
            /\ isPlanarYuv(dst.format) => dst.width % 2 = 0 /\ dst.height % 2 = 0
        OBVIOUS
      <4>3. /\ s.x \in Nat /\ s.y \in Nat /\ s.w \in Int /\ s.h \in Int
        BY <4>1, <4>2, SnappedInside
      <4>4. /\ s.x + s.w <= dst.width /\ s.y + s.h <= dst.height
        BY <4>1, <4>2, SnappedInside
      <4>5. s = [x |-> s.x, y |-> s.y, w |-> s.w, h |-> s.h]
        BY <4>1, <4>2, SnappedInside
      <4>6. isPlanarYuv(dst.format) => s.x % 2 = 0 /\ s.y % 2 = 0 /\ s.w % 2 = 0 /\ s.h % 2 = 0
        <5>1. SUFFICES ASSUME isPlanarYuv(dst.format)
                       PROVE  s.x % 2 = 0 /\ s.y % 2 = 0 /\ s.w % 2 = 0 /\ s.h % 2 = 0
          OBVIOUS
        <5>2. dst.width % 2 = 0 /\ dst.height % 2 = 0
          BY <5>1, Zenon
        <5>3. s.x % 2 = 0
          BY <4>1, <4>2, <5>1, <5>2, SnappedInside
        <5>4. s.y % 2 = 0
          BY <4>1, <4>2, <5>1, <5>2, SnappedInside
        <5>5. s.w % 2 = 0
          BY <4>1, <4>2, <5>1, <5>2, SnappedInside
        <5>6. s.h % 2 = 0
          BY <4>1, <4>2, <5>1, <5>2, SnappedInside
        <5>. QED
          BY <5>3, <5>4, <5>5, <5>6
      <4>. QED
        BY <4>3, <4>4, <4>5, <4>6
  <2>3. PICK n \in Int : /\ n = IF even THEN Even(q.thickness + 1) ELSE q.thickness
                         /\ even => n % 2 = 0
                         /\ q.thickness > 0 => n > 0
    <3>1. q.thickness \in Int
      OBVIOUS
    <3>2. PICK c \in Int : c = q.thickness
      BY <3>1
    <3>3. /\ Even(c + 1) \in Int /\ Even(c + 1) % 2 = 0
          /\ c > 0 => Even(c + 1) > 0
      BY DEF Even
    <3>. HIDE DEF even
    <3>. QED
      BY <3>2, <3>3
  <2>4. /\ q.thickness > 0 /\ s.w > 0 /\ s.h > 0
        /\ o = [rect |-> s, thickness |-> IF s.w > 2 * n /\ s.h > 2 * n THEN n ELSE 0]
    BY <2>1, <2>2, <2>3 DEF outlineOf
  <2>. HIDE DEF o
  <2>5. r = s /\ t = IF s.w > 2 * n /\ s.h > 2 * n THEN n ELSE 0
    BY <2>4
  <2>. HIDE DEF r, t
  <2>. QED
    BY <2>2, <2>3, <2>4, <2>5
<1>. HIDE DEF o
<1>2. Inside(r, dst)
  BY <1>1 DEF Inside
<1>3. PICK X \in Nat, Y \in Nat, W \in Nat, H \in Nat, T \in Nat :
        /\ X = r.x /\ Y = r.y /\ W = r.w /\ H = r.h /\ T = t
        /\ W > 0 /\ H > 0 /\ (T > 0 => W > 2 * T /\ H > 2 * T)
        /\ r = [x |-> X, y |-> Y, w |-> W, h |-> H]
  <2>. HIDE DEF r, t
  <2>. QED
    BY <1>1
<1>4. /\ T = 0 => bands = <<r>>
      /\ T > 0 => bands = <<[x |-> X, y |-> Y, w |-> W, h |-> T],
                           [x |-> X, y |-> Y + H - T, w |-> W, h |-> T],
                           [x |-> X, y |-> Y + T, w |-> T, h |-> H - 2 * T],
                           [x |-> X + W - T, y |-> Y + T, w |-> T, h |-> H - 2 * T]>>
  <2>1. /\ [r EXCEPT !.h = T] = [x |-> X, y |-> Y, w |-> W, h |-> T]
        /\ [r EXCEPT !.y = Y + H - T, !.h = T] = [x |-> X, y |-> Y + H - T, w |-> W, h |-> T]
    <3>1. r = [x |-> X, y |-> Y, w |-> W, h |-> H]
      BY <1>3
    <3>2. PICK v : v = Y + H - T
      OBVIOUS
    <3>3. /\ [[x |-> X, y |-> Y, w |-> W, h |-> H] EXCEPT !.h = T]
                = [x |-> X, y |-> Y, w |-> W, h |-> T]
          /\ [[x |-> X, y |-> Y, w |-> W, h |-> H] EXCEPT !.y = v, !.h = T]
                = [x |-> X, y |-> v, w |-> W, h |-> T]
      <4>1. [[x |-> X, y |-> Y, w |-> W, h |-> H] EXCEPT !.h = T]
              = [x |-> X, y |-> Y, w |-> W, h |-> T]
        OBVIOUS
      <4>2. [[x |-> X, y |-> Y, w |-> W, h |-> H] EXCEPT !.y = v, !.h = T]
              = [x |-> X, y |-> v, w |-> W, h |-> T]
        <5>. DEFINE whole == [x |-> X, y |-> Y, w |-> W, h |-> H]
        <5>1. [whole EXCEPT !.y = v] = [x |-> X, y |-> v, w |-> W, h |-> H]
          OBVIOUS
        <5>2. [[x |-> X, y |-> v, w |-> W, h |-> H] EXCEPT !.h = T]
                = [x |-> X, y |-> v, w |-> W, h |-> T]
          OBVIOUS
        <5>3. [whole EXCEPT !.y = v, !.h = T] = [[whole EXCEPT !.y = v] EXCEPT !.h = T]
          OBVIOUS
        <5>. QED
          BY <5>1, <5>2, <5>3
      <4>. QED
        BY <4>1, <4>2
    <3>. HIDE DEF r
    <3>. QED
      BY <3>1, <3>2, <3>3, Zenon
  <2>2. bands = IF T <= 0 THEN <<r>>
                ELSE <<[r EXCEPT !.h = T], [r EXCEPT !.y = Y + H - T, !.h = T],
                       [x |-> X, y |-> Y + T, w |-> T, h |-> H - 2 * T],
                       [x |-> X + W - T, y |-> Y + T, w |-> T, h |-> H - 2 * T]>>
    BY <1>3 DEF outlineBands
  <2>. HIDE DEF r, bands
  <2>. QED
    BY <1>3, <2>1, <2>2
<1>. HIDE DEF r, t, bands
<1>5. ASSUME NEW x \in 0 .. dst.width - 1, NEW y \in 0 .. dst.height - 1
      PROVE  /\ Cardinality(hit(x, y)) <= 1
             /\ (hit(x, y) # {}) <=> (Covers(r, x, y) /\ (t = 0 \/ edge(x, y) < t))
  <2>. DEFINE In(a, b, w, h) == x \in a .. a + w - 1 /\ y \in b .. b + h - 1
  <2>0. \A k : k \in hit(x, y) <=> k \in DOMAIN bands /\ Covers(bands[k], x, y)
    OBVIOUS
  <2>1. \A a, b, w, h : Covers([x |-> a, y |-> b, w |-> w, h |-> h], x, y) <=> In(a, b, w, h)
    BY DEF Covers
  <2>2. CASE T = 0
    <3>1. hit(x, y) = IF In(X, Y, W, H) THEN {1} ELSE {}
      <4>1. DOMAIN bands = {1} /\ bands[1] = r
        BY <1>4, <2>2
      <4>. HIDE DEF hit, In
      <4>. QED
        BY <1>3, <2>0, <2>1, <4>1
    <3>2. Covers(r, x, y) <=> In(X, Y, W, H)
      BY <1>3, <2>1
    <3>3. Cardinality({1}) = 1 /\ Cardinality({}) = 0
      BY FS_Singleton, FS_EmptySet
    <3>. HIDE DEF hit, In, edge
    <3>. QED
      BY <1>3, <2>2, <3>1, <3>2, <3>3
  <2>3. CASE T > 0
    <3>1. /\ DOMAIN bands = {1, 2, 3, 4}
          /\ Covers(bands[1], x, y) <=> In(X, Y, W, T)
          /\ Covers(bands[2], x, y) <=> In(X, Y + H - T, W, T)
          /\ Covers(bands[3], x, y) <=> In(X, Y + T, T, H - 2 * T)
          /\ Covers(bands[4], x, y) <=> In(X + W - T, Y + T, T, H - 2 * T)
      <4>1. /\ DOMAIN bands = {1, 2, 3, 4}
            /\ bands[1] = [x |-> X, y |-> Y, w |-> W, h |-> T]
            /\ bands[2] = [x |-> X, y |-> Y + H - T, w |-> W, h |-> T]
            /\ bands[3] = [x |-> X, y |-> Y + T, w |-> T, h |-> H - 2 * T]
            /\ bands[4] = [x |-> X + W - T, y |-> Y + T, w |-> T, h |-> H - 2 * T]
        BY <1>4, <2>3
      <4>. HIDE DEF In
      <4>. QED
        BY <2>1, <4>1
    <3>2. /\ ~(In(X, Y, W, T) /\ In(X, Y + H - T, W, T))
          /\ ~(In(X, Y, W, T) /\ In(X, Y + T, T, H - 2 * T))
          /\ ~(In(X, Y, W, T) /\ In(X + W - T, Y + T, T, H - 2 * T))
          /\ ~(In(X, Y + H - T, W, T) /\ In(X, Y + T, T, H - 2 * T))
          /\ ~(In(X, Y + H - T, W, T) /\ In(X + W - T, Y + T, T, H - 2 * T))
          /\ ~(In(X, Y + T, T, H - 2 * T) /\ In(X + W - T, Y + T, T, H - 2 * T))
      BY <1>3, <2>3
    <3>3. \/ In(X, Y, W, T) \/ In(X, Y + H - T, W, T)
          \/ In(X, Y + T, T, H - 2 * T) \/ In(X + W - T, Y + T, T, H - 2 * T)
          <=> In(X, Y, W, H) /\ (\/ x < X + T \/ x > X + W - 1 - T
                                \/ y < Y + T \/ y > Y + H - 1 - T)
      BY <1>3, <2>3
    <3>4. In(X, Y, W, H) =>
            (edge(x, y) < T <=> \/ x < X + T \/ x > X + W - 1 - T
                                \/ y < Y + T \/ y > Y + H - 1 - T)
      BY <1>3 DEF Smaller
    <3>5. Covers(r, x, y) <=> In(X, Y, W, H)
      BY <1>3, <2>1
    <3>6. ASSUME NEW k \in hit(x, y), NEW l \in hit(x, y)
          PROVE  k = l
      <4>. HIDE DEF hit, In
      <4>. QED
        BY <2>0, <3>1, <3>2, <3>6
    <3>7. (hit(x, y) # {}) <=> \/ In(X, Y, W, T) \/ In(X, Y + H - T, W, T)
                               \/ In(X, Y + T, T, H - 2 * T) \/ In(X + W - T, Y + T, T, H - 2 * T)
      <4>. HIDE DEF hit, In
      <4>. QED
        BY <2>0, <3>1
    <3>8. Cardinality(hit(x, y)) <= 1
      <4>. HIDE DEF hit
      <4>1. CASE hit(x, y) = {}
        BY <4>1, FS_EmptySet
      <4>2. CASE hit(x, y) # {}
        <5>1. PICK l : l \in hit(x, y)
          BY <4>2
        <5>2. hit(x, y) = {l}
          <6>1. \A k \in hit(x, y) : k = l
            BY <3>6, <5>1
          <6>. QED
            BY <5>1, <6>1
        <5>3. Cardinality({l}) = 1
          BY FS_Singleton
        <5>. QED
          BY <5>2, <5>3
      <4>. QED
        BY <4>1, <4>2
    <3>. HIDE DEF hit, In, edge
    <3>. QED
      BY <1>3, <2>3, <3>3, <3>4, <3>5, <3>7, <3>8
  <2>. QED
    BY <2>2, <2>3
<1>6. ASSUME even, NEW k \in DOMAIN bands, NEW n \in {bands[k].x, bands[k].y, bands[k].w, bands[k].h}
      PROVE  n % 2 = 0
  <2>1. X % 2 = 0 /\ Y % 2 = 0 /\ W % 2 = 0 /\ H % 2 = 0 /\ T % 2 = 0
    BY <1>1, <1>3, <1>6, Zenon
  <2>2. CASE T = 0
    <3>1. DOMAIN bands = {1} /\ bands[1] = [x |-> X, y |-> Y, w |-> W, h |-> H]
      BY <1>3, <1>4, <2>2
    <3>2. n \in {X, Y, W, H}
      BY <1>6, <3>1
    <3>. QED
      BY <2>1, <3>2
  <2>3. CASE T > 0
    <3>1. /\ DOMAIN bands = {1, 2, 3, 4}
          /\ bands[1] = [x |-> X, y |-> Y, w |-> W, h |-> T]
          /\ bands[2] = [x |-> X, y |-> Y + H - T, w |-> W, h |-> T]
          /\ bands[3] = [x |-> X, y |-> Y + T, w |-> T, h |-> H - 2 * T]
          /\ bands[4] = [x |-> X + W - T, y |-> Y + T, w |-> T, h |-> H - 2 * T]
      BY <1>4, <2>3
    <3>2. n \in {X, Y, W, T, Y + H - T, Y + T, H - 2 * T, X + W - T}
      BY <1>6, <3>1
    <3>3. /\ (Y + H - T) % 2 = 0 /\ (Y + T) % 2 = 0
          /\ (H - 2 * T) % 2 = 0 /\ (X + W - T) % 2 = 0
      BY <1>3, <2>1
    <3>. QED
      BY <2>1, <3>2, <3>3
  <2>. QED
    BY <2>2, <2>3
<1>. QED
  BY <1>2, <1>5, <1>6 DEF BandsTileOutline, o, r, t, bands
=============================================================================

-------------------------------- MODULE Rga --------------------------------
(***************************************************************************)
(* The hardware path of src/src/preproc/rga.cc and the choice between it   *)
(* and the software path in letterbox.cc.                                  *)
(*                                                                         *)
(* What the board and the driver answer is `env`: available, rga3 and rga2 *)
(* (the cores there are), small_board, dma32 and system (the fill probe of *)
(* each heap), checks and checks_rect (imcheck of the whole images and of  *)
(* the letterbox rectangle), blit, grey, grey_blit and fill (whether a     *)
(* submit succeeds, whether the grey source can be built), maps (whether   *)
(* the destination can be mapped).                                         *)
(*                                                                         *)
(* An operation is [ok, writes]: the writes to the destination in order,   *)
(* each [by, what, rect].  A job the driver rejects at submit does not     *)
(* leave its target alone: it writes "damage".                             *)
(***************************************************************************)
EXTENDS CpuPixels

Rga3 == "RGA3"
Rga2 == "RGA2"

RgaFormats == PixelFormats
isYuvSide(f) == isPlanarYuv(f) \/ f = "GRAY8"

\* pinCore(): the family a job runs on, the other where the board lacks it.
pinCore(core, env) ==
  CASE core = Rga3 /\ ~env.rga3 /\ env.rga2 -> Rga2
    [] core = Rga2 /\ ~env.rga2 /\ env.rga3 -> Rga3
    [] OTHER -> core

cscMode(src, dst, yuv) ==
  LET range == IF yuv.studio THEN "LIMIT" ELSE "FULL"
  IN  CASE isYuvSide(src.format) = isYuvSide(dst.format) -> "DEFAULT"
        [] isYuvSide(src.format) /\ ~isYuvSide(dst.format) ->
             IF yuv.matrix = "BT709" /\ ~yuv.studio THEN "Unsupported" ELSE range
        [] ~isYuvSide(src.format) /\ isYuvSide(dst.format) ->
             IF yuv.matrix = "BT709" THEN "Unsupported" ELSE range

kRga3MaxScale == 8

needsRga2(src, dst) ==
  \/ "GRAY8" \in {src.format, dst.format}
  \/ \E e \in {<<dst.width, src.width>>, <<dst.height, src.height>>} :
       e[1] * kRga3MaxScale < e[2] \/ e[1] > kRga3MaxScale * e[2]

rga2Reaches(v, env) ==
  IF v.below4g THEN env.dma32 ELSE env.small_board /\ env.system

\* coreFor(): whether a core can run the op at all.
coreFor(src, dst, env) ==
  IF ~needsRga2(src, dst) THEN Rga3
  ELSE IF rga2Reaches(src, env) /\ rga2Reaches(dst, env) THEN Rga2 ELSE "none"

StrideAligned(v) == effWStride(v) % strideAlign(v.format) = 0

rgaCanHandle(dst, src, yuv, env) ==
  /\ env.available
  /\ valid(src) /\ valid(dst)
  /\ src.format \in RgaFormats /\ dst.format \in RgaFormats
  /\ cscMode(src, dst, yuv) # "Unsupported"
  /\ coreFor(src, dst, env) # "none"
  /\ StrideAligned(src) /\ StrideAligned(dst)
  /\ env.checks

(***************************************************************************)
(* The operations.                                                         *)
(***************************************************************************)
Threw(writes) == [ok |-> FALSE, writes |-> writes]
Did(writes)   == [ok |-> TRUE, writes |-> writes]
Canvas(v) == [x |-> 0, y |-> 0, w |-> v.width, h |-> v.height]
Wrote(by, what, r) == [by |-> by, what |-> what, rect |-> r]

\* A submitted job, one that fails leaving damage.
Submit(core, what, r, ok, env) ==
  <<Wrote(pinCore(core, env), IF ok THEN what ELSE "damage", r)>>

greySide(dst) ==
  LET need == Larger(Larger((dst.width + 3) \div 4, (dst.height + 3) \div 4), 68)
  IN  ((need + 15) \div 16) * 16

greySource(dst) ==
  [hostView(greySide(dst), greySide(dst), dst.format, 0, 0) EXCEPT !.fd = TRUE]

\* tryGreyBlit(): every reason to give up but the last comes before the submit.
tryGreyBlit(dst, r, env) ==
  IF env.grey /\ coreFor(greySource(dst), dst, env) # "none" /\ env.checks
  THEN [ok |-> env.grey_blit,
        writes |-> Submit(coreFor(greySource(dst), dst, env), "pad", r, env.grey_blit, env)]
  ELSE Threw(<<>>)

tryHwFill(dst, what, r, env) ==
  IF rga2Reaches(dst, env) THEN [ok |-> env.fill, writes |-> Submit(Rga2, what, r, env.fill, env)]
  ELSE Threw(<<>>)

\* CpuFillView: the destination's own mapping, or one of its fd.
CanMap(dst, env) == dst.data \/ (dst.fd /\ env.maps)

fillRect(dst, what, r, env) ==
  LET hw == tryHwFill(dst, what, r, env)
  IN  IF hw.ok THEN hw
      ELSE IF CanMap(dst, env) THEN Did(Append(hw.writes, Wrote("cpu", what, r)))
      ELSE Threw(hw.writes)

\* One op after another, stopping at the first that throws.
Then(first, second) ==
  IF first.ok THEN [ok |-> second.ok, writes |-> first.writes \o second.writes] ELSE first

process(core, r, env) ==
  [ok |-> env.blit, writes |-> Submit(core, "content", r, env.blit, env)]

\* The bands around the content, each edge tested on its own extent.
BorderBands(r, dst) ==
  SelectSeq(<<[x |-> 0, y |-> 0, w |-> dst.width, h |-> r.y],
              [x |-> 0, y |-> r.y + r.h, w |-> dst.width, h |-> dst.height - (r.y + r.h)],
              [x |-> 0, y |-> r.y, w |-> r.x, h |-> r.h],
              [x |-> r.x + r.w, y |-> r.y, w |-> dst.width - (r.x + r.w), h |-> r.h]>>,
            LAMBDA b : b.w > 0 /\ b.h > 0)

HasBorder(r, dst) ==
  r.y > 0 \/ r.x > 0 \/ r.y + r.h < dst.height \/ r.x + r.w < dst.width

rgaLetterbox(dst, src, yuv, env) ==
  LET r == RgaRect(src, dst)
      grey == IF HasBorder(r, dst) THEN tryGreyBlit(dst, Canvas(dst), env) ELSE Threw(<<>>)
      bands == IF HasBorder(r, dst) /\ ~grey.ok THEN BorderBands(r, dst) ELSE <<>>
      whole == tryGreyBlit(dst, Canvas(dst), env)
      refused == \/ ~env.available
                 \/ cscMode(src, dst, yuv) = "Unsupported"
                 \/ coreFor(src, dst, env) = "none"
                 \/ ~Inside(r, dst) \/ ~valid(src) \/ ~valid(dst)
      allPad == IF whole.ok THEN whole
                ELSE Then(Did(whole.writes), fillRect(dst, "pad", Canvas(dst), env))
      bordered == FoldLeft(LAMBDA op, b : Then(op, fillRect(dst, "pad", b, env)),
                           Then(Did(grey.writes), process(coreFor(src, dst, env), r, env)), bands)
  IN  CASE refused -> Threw(<<>>)
        [] ~refused /\ (r.w <= 0 \/ r.h <= 0) -> allPad
        [] ~refused /\ r.w > 0 /\ r.h > 0 /\ ~env.checks_rect -> Threw(<<>>)
        [] OTHER -> bordered

\* rgaResize(), rgaCvtColor(), rgaCopy(): everything that can refuse comes
\* before the one submit.
StretchRefuses(dst, src, yuv, env) ==
  \/ ~env.available \/ ~valid(src) \/ ~valid(dst) \/ ~env.checks
  \/ cscMode(src, dst, yuv) = "Unsupported" \/ coreFor(src, dst, env) = "none"

rgaResize(dst, src, yuv, env) ==
  IF StretchRefuses(dst, src, yuv, env) THEN Threw(<<>>) ELSE process(coreFor(src, dst, env), Canvas(dst), env)

SameSize(dst, src) == src.width = dst.width /\ src.height = dst.height

rgaCvtColor(dst, src, yuv, env) ==
  IF ~SameSize(dst, src) THEN Threw(<<>>) ELSE rgaResize(dst, src, yuv, env)

rgaCopy(dst, src, env) ==
  IF ~SameSize(dst, src) \/ src.format # dst.format THEN Threw(<<>>)
  ELSE rgaResize(dst, src, [studio |-> TRUE, matrix |-> "BT601"], env)

\* The crop's own ratio decides the core.
cropRefuses(src, r) ==
  \/ r.w <= 0 \/ r.h <= 0 \/ ~Inside(r, src)
  \/ isPlanarYuv(src.format) /\ \E n \in {r.x, r.y, r.w, r.h} : n % 2 # 0

rgaCropResize(dst, src, r, yuv, env) ==
  IF cropRefuses(src, r) THEN Threw(<<>>)
  ELSE rgaResize(dst, [src EXCEPT !.width = r.w, !.height = r.h,
                                  !.wstride = effWStride(src), !.hstride = effHStride(src)], yuv, env)

clipRect(dst, r) ==
  LET x0 == Larger(r.x, 0)
      y0 == Larger(r.y, 0)
  IN  [x |-> x0, y |-> y0, w |-> Smaller(r.x + r.w, dst.width) - x0,
       h |-> Smaller(r.y + r.h, dst.height) - y0]

rgaFill(dst, r, env) ==
  LET clipped == clipRect(dst, r)
  IN  IF ~env.available THEN Threw(<<>>)
      ELSE IF clipped.w <= 0 \/ clipped.h <= 0 THEN Did(<<>>)
      ELSE fillRect(dst, "colour", clipped, env)

(***************************************************************************)
(* Outlines.                                                               *)
(***************************************************************************)
\* outlineOf(): a request [x, y, w, h, thickness] clipped first, then snapped;
\* thickness 0 is solid, Nothing is nothing to draw.
Nothing == [rect |-> [x |-> 0, y |-> 0, w |-> 0, h |-> 0], thickness |-> -1]

outlineOf(dst, q) ==
  LET r == SnappedRect(dst, q.x, q.y, q.w, q.h)
      t == IF isPlanarYuv(dst.format) THEN Even(q.thickness + 1) ELSE q.thickness
  IN  IF q.thickness <= 0 \/ q.w <= 0 \/ q.h <= 0 \/ r.w <= 0 \/ r.h <= 0 THEN Nothing
      ELSE [rect |-> r, thickness |-> IF r.w > 2 * t /\ r.h > 2 * t THEN t ELSE 0]

outlineBands(o) ==
  LET r == o.rect
      t == o.thickness
  IN  IF t <= 0 THEN <<r>>
      ELSE <<[r EXCEPT !.h = t],
             [r EXCEPT !.y = r.y + r.h - t, !.h = t],
             [x |-> r.x, y |-> r.y + t, w |-> t, h |-> r.h - 2 * t],
             [x |-> r.x + r.w - t, y |-> r.y + t, w |-> t, h |-> r.h - 2 * t]>>

Drawable(dst, rects) ==
  SelectSeq([i \in DOMAIN rects |-> [o |-> outlineOf(dst, rects[i]), colour |-> rects[i].colour]],
            LAMBDA it : it.o # Nothing)

\* drawRectsHw(): one submit per run of consecutive rectangles of one colour
\* and thickness; the runs.
Runs(items) ==
  FoldLeft(LAMBDA runs, it :
             IF runs # <<>> /\ Last(Last(runs)).colour = it.colour
                /\ Last(Last(runs)).o.thickness = it.o.thickness
             THEN Append(Front(runs), Append(Last(runs), it))
             ELSE Append(runs, <<it>>),
           <<>>, items)

BandWrites(by, items) ==
  FlattenSeq([i \in DOMAIN items |->
    [k \in DOMAIN outlineBands(items[i].o) |->
       Wrote(by, items[i].colour, outlineBands(items[i].o)[k])]])

drawRectsHw(dst, rects, env) ==
  IF ~rga2Reaches(dst, env) \/ ~valid(dst) THEN Threw(<<>>)
  ELSE FoldLeft(LAMBDA op, run : Then(op, [ok |-> env.fill, writes |-> BandWrites(pinCore(Rga2, env), run)]),
                Did(<<>>), Runs(Drawable(dst, rects)))

drawRectsCpu(dst, rects, env) ==
  IF CanMap(dst, env) THEN Did(BandWrites("cpu", Drawable(dst, rects))) ELSE Threw(<<>>)

\* Auto and Cpu both draw with the CPU; Auto has the hardware as its way out.
rgaDrawRects(dst, rects, backend, env) ==
  LET cpu == drawRectsCpu(dst, rects, env)
  IN  CASE ~env.available \/ ~valid(dst) -> Threw(<<>>)
        [] env.available /\ valid(dst) /\ rects = <<>> -> Did(<<>>)
        [] env.available /\ valid(dst) /\ rects # <<>> /\ backend = "Rga" -> drawRectsHw(dst, rects, env)
        [] OTHER -> IF cpu.ok \/ backend # "Auto" \/ ~rga2Reaches(dst, env) THEN cpu
                    ELSE Then(Did(cpu.writes), drawRectsHw(dst, rects, env))

(***************************************************************************)
(* letterbox.cc: Auto, Rga or Cpu.  The result also says what ran.         *)
(***************************************************************************)
chooseRga(backend, dst, src, yuv, env) ==
  backend = "Rga" \/ (backend = "Auto" /\ rgaCanHandle(dst, src, yuv, env))

\* The software letterbox as a write list: the whole canvas, then the content.
letterboxSw(dst, src) ==
  LET r == CpuRect(src, dst)
  IN  IF refuses(dst) \/ refuses(src) THEN Threw(<<>>)
      ELSE Did(<<Wrote("cpu", "pad", Canvas(dst))>>
               \o (IF r.w > 0 /\ r.h > 0 THEN <<Wrote("cpu", "content", r)>> ELSE <<>>))

\* A mutant: `used` is what was chosen, not what ran.
runWithFallbackUnnamed(backend, hw, sw) ==
  IF hw.ok \/ backend # "Auto" THEN [ok |-> hw.ok, writes |-> hw.writes, used |-> "Rga"]
  ELSE [ok |-> sw.ok, writes |-> hw.writes \o sw.writes, used |-> "Rga"]

runWithFallback(backend, hw, sw) ==
  IF hw.ok \/ backend # "Auto" THEN [ok |-> hw.ok, writes |-> hw.writes, used |-> "Rga"]
  ELSE [ok |-> sw.ok, writes |-> hw.writes \o sw.writes, used |-> "Cpu"]

letterbox(dst, src, backend, yuv, env) ==
  LET sw == letterboxSw(dst, src)
  IN  IF ~chooseRga(backend, dst, src, yuv, env)
      THEN [ok |-> sw.ok, writes |-> sw.writes, used |-> "Cpu"]
      ELSE runWithFallback(backend, rgaLetterbox(dst, src, yuv, env), sw)

(***************************************************************************)
(* Reference definitions.                                                  *)
(***************************************************************************)
Covers(r, x, y) == x \in r.x..r.x + r.w - 1 /\ y \in r.y..r.y + r.h - 1

\* What is at (x, y) after the writes.
At(writes, x, y) ==
  FoldLeft(LAMBDA seen, e : IF Covers(e.rect, x, y) THEN [by |-> e.by, what |-> e.what] ELSE seen,
           [by |-> "nobody", what |-> "stale"], writes)

\* "Auto promises the CPU path when RGA cannot do the job": it throws only
\* where the CPU path refuses as well.  A letterbox that returns has left no
\* pixel of the canvas stale or damaged, whatever failed on the way, its content
\* is where the geometry says, `used` names the backend that drew it, and on
\* the hardware it is always the same core that draws the same pair of views.
\* A refusal that no failed submit caused leaves the canvas untouched.
LetterboxDelivers(dst, src, backend, yuv, env) ==
  LET op == letterbox(dst, src, backend, yuv, env)
      r == CpuRect(src, dst)
  IN  /\ backend = "Auto" /\ ~op.ok => ~letterboxSw(dst, src).ok
      /\ backend = "Cpu" => \A i \in DOMAIN op.writes : op.writes[i].by = "cpu"
      /\ op.ok => \A x \in 0..dst.width - 1, y \in 0..dst.height - 1 :
           At(op.writes, x, y).what = (IF Covers(r, x, y) THEN "content" ELSE "pad")
      /\ op.ok => \A x \in 0..dst.width - 1, y \in 0..dst.height - 1 :
           Covers(r, x, y) => At(op.writes, x, y).by =
             (IF op.used = "Rga" THEN pinCore(coreFor(src, dst, env), env) ELSE "cpu")
      /\ ~op.ok /\ env.blit /\ env.fill /\ env.grey_blit /\ CanMap(dst, env) => op.writes = <<>>

\* The bands of an outline share no pixel, and together are the ring of its
\* thickness just inside the clipped and snapped rectangle, never its inside.
BandsTileOutline(dst, q) ==
  LET o == outlineOf(dst, q)
      r == o.rect
      t == o.thickness
      bands == outlineBands(o)
      hit(x, y) == {k \in DOMAIN bands : Covers(bands[k], x, y)}
      edge(x, y) == Smaller(Smaller(x - r.x, r.x + r.w - 1 - x), Smaller(y - r.y, r.y + r.h - 1 - y))
  IN  o # Nothing =>
        /\ Inside(r, dst)
        /\ \A x \in 0..dst.width - 1, y \in 0..dst.height - 1 :
             /\ Cardinality(hit(x, y)) <= 1
             /\ (hit(x, y) # {}) <=> (Covers(r, x, y) /\ (t = 0 \/ edge(x, y) < t))
        /\ isPlanarYuv(dst.format) =>
             \A k \in DOMAIN bands : \A n \in {bands[k].x, bands[k].y, bands[k].w, bands[k].h} :
               n % 2 = 0

\* Hardware and software overlays paint the same pixels in the same order.
OverlaysAgree(dst, rects, env) ==
  LET hw == drawRectsHw(dst, rects, env)
      sw == drawRectsCpu(dst, rects, env)
  IN  hw.ok /\ sw.ok =>
        \A x \in 0..dst.width - 1, y \in 0..dst.height - 1 :
          At(hw.writes, x, y).what = At(sw.writes, x, y).what

\* The border blit is one the RGA3 core can do unless the canvas is very
\* narrow, so a border needs no low memory.
GreyStaysOnRga3(w, h, f) ==
  LET dst == hostView(w, h, f, 0, 0)
  IN  w >= 20 /\ h >= 20 /\ w <= 16 * h /\ h <= 16 * w /\ f # "GRAY8" =>
        ~needsRga2(greySource(dst), dst)
=============================================================================

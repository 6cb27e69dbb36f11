----------------------------- MODULE MCVision ------------------------------
(* One run for what happens to a frame and its results outside the threads:   *)
(* preprocessing, tensors, task decoders, association and the tracking        *)
(* pipeline.  The decoders and the pixel code are functions, so a behaviour   *)
(* of such a `subject` is one call on an `input` out of the small sets below; *)
(* with "tracking" it is a behaviour of TrackingPipeline.                     *)
EXTENDS TrackingPipeline

CONSTANT NoInput

VARIABLES subject, input

Cpu   == INSTANCE CpuPixels
Blit  == INSTANCE Rga
Crop  == INSTANCE Crops
Tens  == INSTANCE Tensors
Assoc == INSTANCE Association
Yolo  == INSTANCE YoloDecode
Masks == INSTANCE InstanceMasks
Face  == INSTANCE Faces
Text  == INSTANCE Ocr
Dense == INSTANCE DenseMaps
Feat  == INSTANCE Features

(***************************************************************************)
(* Images.                                                                 *)
(***************************************************************************)
Studio == [studio |-> TRUE, matrix |-> "BT601"]
ColourSpaces == [studio : BOOLEAN, matrix : {"BT601", "BT709"}]
Planar == {"NV12", "NV21", "YUV420P"}

\* A view: as long and wide as a stride of 16 allows, somewhere in memory.
View(f, w, h, data, fd, low) ==
  [format |-> f, width |-> w, height |-> h, wstride |-> 16, hstride |-> h,
   data |-> data, fd |-> fd, below4g |-> low]

\* The board: an RK3588 with both RGA cores, whatever the driver checks let
\* through and whichever operations fail.
Boards == [available : {TRUE}, rga3 : {TRUE}, rga2 : {TRUE}, small_board : {FALSE},
           dma32 : BOOLEAN, system : {TRUE}, checks : BOOLEAN, checks_rect : BOOLEAN,
           blit : BOOLEAN, grey : BOOLEAN, grey_blit : BOOLEAN, fill : BOOLEAN, maps : BOOLEAN]
Working == [available |-> TRUE, rga3 |-> TRUE, rga2 |-> TRUE, small_board |-> FALSE,
            dma32 |-> TRUE, system |-> TRUE, checks |-> TRUE, checks_rect |-> TRUE,
            blit |-> TRUE, grey |-> TRUE, grey_blit |-> TRUE, fill |-> TRUE, maps |-> TRUE]
CropBoards == {[Working EXCEPT !.available = a, !.rga2 = r, !.dma32 = d, !.checks = c, !.blit = b] :
                 a, r, d, c, b \in BOOLEAN}

Outline(x, y, w, h, t, c) ==
  [x |-> x, y |-> y, w |-> w, h |-> h, thickness |-> t, colour |-> c]

ImageInputs(s) ==
  CASE s = "planes" -> Planar \X Planar \X Planar \X {4, 6}
    [] s = "colours" ->
         {0, 1, 16, 17, 40, 113, 127, 128, 200, 234, 254, 255} \X ColourSpaces
           \X (Planar \cup {"GRAY8"})
    [] s = "canvas" -> {"RGB888", "NV12", "YUV420P", "GRAY8"} \X {"BGR888", "NV21", "NV12", "GRAY8"}
                         \X {2, 4} \X {2, 4, 6}
    [] s = "fills" -> {"BGR888", "NV12", "YUV420P"} \X (-1..4) \X {-1, 1, 2} \X (0..3) \X (1..2)
    [] s = "geometry" -> {"RGB888", "NV12"} \X {1, 2, 3, 5, 7, 10} \X {1, 2, 4, 9} \X {4, 6, 8} \X {4, 8}
    [] s = "strides" -> {"RGB888", "NV12", "YUV420P", "GRAY8"} \X (1..20) \X (1..4)
    [] s = "letterbox" -> Boards \X {"Auto", "Rga", "Cpu"} \X {"RGB888", "NV12"} \X BOOLEAN \X BOOLEAN
                            \X {<<2, 3>>, <<4, 4>>, <<1, 3>>}
    [] s = "outlines" -> {"RGB888", "NV12"} \X (-2..5) \X {-1, 0, 3} \X {0, 1, 4, 7} \X {1, 6} \X (0..3)
    [] s = "overlays" -> (0..3) \X {1, 2} \X {1, 2}
    [] s = "borders" -> {20, 21, 48, 64, 100, 320, 640, 700} \X {20, 40, 48, 320, 640, 1000}
    [] s = "centre" -> (1..9) \X (1..9) \X {1, 4, 6, 9} \X {1, 4, 7}
                         \X {<<0, 1>>, <<7, 8>>, <<1, 1>>, <<5, 4>>, <<1, 4>>}
    [] s = "boxes" -> (-5..18) \X {-6, 0, 3, 9} \X (-5..18) \X {-1, 2, 5, 18}
    [] s = "crops" -> CropBoards \X {"Auto", "Rga", "Cpu"} \X {"BGR888", "NV12", "GRAY8"}
                        \X BOOLEAN \X {<<TRUE, TRUE>>, <<TRUE, FALSE>>, <<FALSE, TRUE>>}
                        \X {<<0, 0, 6, 4>>, <<1, 1, 3, 2>>, <<2, 0, 1, 1>>, <<2, 2, 4, 2>>}
    [] s = "reid" -> {"BGR888", "RGB888"} \X {-3, 0, 2, 5} \X {0, 3} \X {7, 9, 16, 20} \X {6, 12}
                       \X {1, 2, 3, 5} \X {2, 4}

ImageArrives(i) ==
  /\ subject = "planes" =>
       Cpu!LayoutsAreLossless(Cpu!hostView(4, 2, i[1], i[4], 4), i[2], i[3])
  /\ subject = "colours" => Cpu!GreyRoundTrips(i[1], i[2], i[3])
  /\ subject = "canvas" =>
       Cpu!CanvasIsFresh(Cpu!hostView(6, 4, i[1], 8, 0), Cpu!hostView(i[3], i[4], i[2], 0, 0), Studio)
  /\ subject = "fills" => Cpu!FillStaysInRect(Cpu!hostView(4, 4, i[1], 6, 4), i[2], i[3], i[4], i[5])
  /\ subject = "geometry" =>
       Cpu!GeometryAgrees(Cpu!hostView(i[2], i[3], "RGB888", 0, 0), Cpu!hostView(i[4], i[5], i[1], 0, 0))
  /\ subject = "strides" => Cpu!AllocationIsUsable(i[2], i[3], i[1])
  /\ subject = "letterbox" =>
       Blit!LetterboxDelivers(View(i[3], 4, 4, i[5], TRUE, i[4]),
                              View("RGB888", i[6][1], i[6][2], TRUE, TRUE, i[4]), i[2], Studio, i[1])
  /\ subject = "outlines" =>
       Blit!BandsTileOutline(View(i[1], 8, 6, TRUE, TRUE, TRUE),
                             [x |-> i[2], y |-> i[3], w |-> i[4], h |-> i[5], thickness |-> i[6]])
  /\ subject = "overlays" =>
       Blit!OverlaysAgree(View("NV12", 8, 6, TRUE, TRUE, TRUE),
         <<Outline(0, 0, 5, 5, 1, 1), Outline(i[1], 1, 4, 5, i[3], i[2]), Outline(2, i[1], 6, 3, 1, 1)>>,
         Working)
  /\ subject = "borders" => Blit!GreyStaysOnRga3(i[1], i[2], "RGB888")
  /\ subject = "centre" => Crop!CenterCropFits(i[1], i[2], i[3], i[4], [num |-> i[5][1], den |-> i[5][2]])
  /\ subject = "boxes" =>
       Crop!BoxCropsCover(View("BGR888", 3, 3, TRUE, TRUE, TRUE),
                          [x1 |-> i[1], y1 |-> i[2], x2 |-> i[3], y2 |-> i[4]])
  /\ subject = "crops" =>
       Crop!CropsDeliver(View("RGB888", 4, 4, TRUE, TRUE, i[4]), View(i[3], 6, 4, i[5][1], i[5][2], i[4]),
                         [x |-> i[6][1], y |-> i[6][2], w |-> i[6][3], h |-> i[6][4]], i[2], Studio, i[1])
  /\ subject = "reid" =>
       Crop!ReidSamplesAlike([v |-> Cpu!hostView(4, 3, i[1], 5, 3), buf |-> [a \in 0..59 |-> (a * 37) % 256]],
                             [x1 |-> i[2], y1 |-> i[3], x2 |-> i[4], y2 |-> i[5]], i[6], i[7])

\* What a frame becomes on its way to the model's input tensor (image.cc,
\* letterbox_cpu.cc, rga.cc, letterbox.cc, the crops of classification.cc,
\* embedding.cc and reid.cc): no pixel of the destination stale, no byte
\* outside written, nothing lost between layouts, the same place by hardware and
\* by software, whatever fails on the way; each conjunct's definition says what.
ImagesArriveWhole == [][input' # NoInput => ImageArrives(input')]_input

(***************************************************************************)
(* Numbers in and out of the model.                                        *)
(***************************************************************************)
Attrs == [dims : {<<1, 2, 3, 2>>, <<2, 1, 3, 1>>, <<2, 3>>, <<4>>}, fmt : {"NHWC", "NCHW"},
          type : {"INT8", "INT16", "FLOAT32"}, as_float : BOOLEAN,
          w_stride : {0, 3, 4, 5}, size_with_stride : {0, 20, 48, 96, 100}]
Outputs == [dims : {<<1, 2, 3, 2>>, <<2, 3>>}, fmt : {"NHWC", "NCHW"},
            type : {"INT8", "UINT8", "INT16", "FLOAT16", "FLOAT32", "BOOL", "INT64"},
            qnt : {"NONE", "AFFINE", "DFP"}, scale : {3}, zp : {1}, fl : {2},
            w_stride : {0, 3, 5}, size_with_stride : {0, 80, 168}]
\* The runtime reports no stride, or one that holds the rows in a buffer that
\* holds them all.
Strided(attrs) ==
  {a \in attrs : \/ a.w_stride = 0
                 \/ /\ a.w_stride >= Tens!widthOf(a)
                    /\ a.size_with_stride >=
                         Tens!rowCount(a) * Tens!rowElems(a, a.w_stride) * Tens!elementSize(a.type)}

Logits(nhwc, codes, zp) ==
  [dims |-> IF nhwc THEN <<1, 1, 2, 3>> ELSE <<1, 3, 1, 2>>, nhwc |-> nhwc, type |-> "INT8",
   packed |-> TRUE, affine |-> TRUE, scale |-> 2, zp |-> zp, codes |-> codes]
SegCfg(num_classes) ==
  [num_classes |-> num_classes, channels_first |-> TRUE, argmaxed |-> FALSE, score |-> "None"]
DepthCfg(inverse, clip_hi) ==
  [width |-> 0, height |-> 0, scale |-> 2, shift |-> 3, inverse |-> inverse, inverse_eps |-> 4,
   clip_lo |-> 3, clip_hi |-> clip_hi, normalize |-> TRUE]

NumberInputs(s) ==
  CASE s = "rows" -> Strided(Attrs) \X {0}
    [] s = "reads" -> Strided(Outputs) \X {0}
    [] s = "halves" ->
         {0, 1, 2, 3, 511, 512, 1023, 1024, 1025, 2047, 2048, 15360, 31743, 31744, 31745, 32767,
          32768, 32769, 33791, 33792, 64511, 64512, 65535} \X {0}
    [] s = "grid" -> BOOLEAN \X BOOLEAN \X BOOLEAN \X (-16..16) \X {-16, -8, -3, 0, 4, 8}
    [] s = "labels" -> BOOLEAN \X [0..5 -> -1..1] \X {-1, 3} \X {0, 1, 2, 5}
    [] s = "projection" -> {i \in [0..5 -> 0..1] \X (1..4) \X {1, 2} \X (0..3) \X {0, 2} :
                              i[2] % i[3] = 0 /\ i[4] % i[3] = 0}
    [] s = "depth" -> [0..3 -> {-2, 0, 1, 5}] \X BOOLEAN \X {0, 9, 100} \X {1, 3, 5} \X {1, 2}
    [] s = "ranking" -> [1..3 -> {-2, 0, 1, 3}] \X (0..4)
                          \X {<<<<3, 4>>, <<6, 8>>, <<4, 3>>>>, <<<<-3, 4>>, <<0, 0>>, <<0, 5>>>>}

NumberSurvives(i) ==
  /\ subject = "rows" => Tens!RowsSurvive(i[1])
  /\ subject = "reads" =>
       Tens!NumbersRead(i[1], [k \in 0..Tens!nElems(i[1]) - 1 |-> (3 * k) % 4], 8)
  /\ subject = "halves" => Tens!HalfRoundTrips(i[1])
  /\ subject = "grid" =>
       Tens!PlaneReproduced(i[1], i[2], i[3], 3, 5, [a |-> 2, b |-> 3], i[4], i[5], 8)
  /\ subject = "labels" => Dense!LabelsAreFaithful(Logits(i[1], i[2], i[3]), SegCfg(i[4]))
  /\ subject = "projection" => Dense!ProjectionRecovers(i[1], 3, 2, i[2], i[3], i[4], i[5], 2, 5)
  /\ subject = "depth" => Dense!DepthIsFaithful(i[1], <<1, 1, 2, 2>>, DepthCfg(i[2], i[3]), i[4], i[5])
  /\ subject = "ranking" => Crop!RankingIsSound(i[1], i[3], i[2]) /\ Dense!PaletteTellsApart

\* What the model is given and what it answers (engine.cc, output_reader.cc,
\* custom_ops.cc, segmentation.cc, depth.cc, classification.cc, embedding.cc):
\* the bytes of every row are where the device has them, halves and quantised
\* codes read as the numbers they stand for, the labels, distances and ranks are those of a
\* plain reading of the tensor, and maps go back to the source pixels they are
\* of.
NumbersSurvive == [][input' # NoInput => NumberSurvives(input')]_input

\* segmentation.h:32-34 on SegConfig::num_classes: "a non-zero value only ever
\* NARROWS the argmax".
NarrowingOnlyNarrows ==
  input # NoInput /\ subject = "labels" =>
    LET i == input
        out == Logits(i[1], i[2], i[3])
    IN  Dense!NarrowingOnlyNarrows(Dense!Dequantised(out), [SegCfg(i[4]) EXCEPT !.channels_first = ~i[1]])

(***************************************************************************)
(* Heads.                                                                  *)
(***************************************************************************)
ModelHead(kind, nc, reg, extra) ==
  [kind |-> kind, grids |-> <<<<4, 4>>, <<2, 2>>>>, input |-> [dims |-> <<1, 3, 16, 16>>, nhwc |-> FALSE],
   nc |-> nc, reg |-> reg, extra |-> extra]
Encodings == [nhwc : BOOLEAN, fused : BOOLEAN, shared : BOOLEAN, sum : BOOLEAN,
              spelling : {"planes", "split", "flat", "column"}]
Exports(kind) ==
  {e \in Encodings : /\ kind = "detect" => ~e.fused /\ ~e.shared
                     /\ kind # "detect" => ~e.sum
                     /\ e.shared => ~e.nhwc
                     /\ ~e.shared => e.spelling = "planes"
                     /\ kind = "obb" => e.spelling # "split"}
HeadCfg(num_classes, iou_thresh) ==
  [num_classes |-> num_classes, iou_thresh |-> iou_thresh, max_dets |-> 0, conf_thresh |-> 600,
   apply_sigmoid |-> FALSE, has_obj |-> FALSE, channels_first |-> TRUE, kpt_decode |-> "CellRelative",
   kpt_apply_sigmoid |-> FALSE, apply_angle_sigmoid |-> FALSE, angle_bias |-> 1, angle_scale |-> 1,
   regularize |-> TRUE, compute_masks |-> TRUE, full_frame_masks |-> FALSE, mask_thresh |-> 500]
HeadBox == [num |-> 1, den |-> 2, padX |-> 0, padY |-> 16, srcW |-> 32, srcH |-> 24, dstW |-> 16, dstH |-> 16]

MaskBox == [num |-> 1, den |-> 3, padX |-> 0, padY |-> 8, srcW |-> 18, srcH |-> 12, dstW |-> 6, dstH |-> 6]
Prototype(channels_first) ==
  [h |-> 3, w |-> 3, c |-> 2, channels_first |-> channels_first, data |-> [k \in 0..17 |-> ((k * 7) % 5) - 1]]
Instance(b, coef) ==
  LET m == [x1 |-> b[1], y1 |-> b[2], x2 |-> b[3], y2 |-> b[4]]
  IN  [score |-> 0, class |-> 0, coef |-> [c \in 0..1 |-> coef[c + 1]], model_box |-> m,
       box |-> Masks!Unlettered(m, MaskBox), rect |-> Masks!NoRect, mask |-> {}]
SegmentHead(nc, reg, extra) ==
  [kind |-> "segment", grids |-> <<<<2, 2>>, <<1, 1>>>>, input |-> [dims |-> <<1, 3, 8, 8>>, nhwc |-> FALSE],
   nc |-> nc, reg |-> reg, extra |-> extra]
SegmentBox == [num |-> 1, den |-> 1, padX |-> 0, padY |-> 8, srcW |-> 8, srcH |-> 6, dstW |-> 8, dstH |-> 8]
MaskBoxes == {<<0, 8, 20, 40>>, <<12, 10, 44, 30>>, <<30, 20, 48, 48>>}

FaceBox == [num |-> 1, den |-> 2, padX |-> 0, padY |-> 16, srcW |-> 40, srcH |-> 24, dstW |-> 20, dstH |-> 14]
FaceCfg(clip, iou_thresh) ==
  [steps |-> <<8, 16>>, min_sizes |-> <<<<4, 8>>, <<12>>>>, input_w |-> 20, input_h |-> 14, clip |-> clip,
   var_center |-> 1, var_size |-> 1, face_class |-> 1, apply_softmax |-> FALSE, conf_thresh |-> 300,
   iou_thresh |-> iou_thresh, max_faces |-> 0]
Template == <<[x |-> 3, y |-> 5], [x |-> 7, y |-> 5], [x |-> 5, y |-> 7], [x |-> 3, y |-> 9], [x |-> 7, y |-> 10]>>

HeadInputs(s) ==
  CASE s = "detect" -> {i \in {ModelHead("detect", nc, reg, 0) : nc \in {3, 8}, reg \in {0, 3}}
                                 \X Exports("detect") \X {0, 1, 2, 3} \X {0, 3, 8} \X {400, 1000} :
                            i[4] \in {0, i[1].nc}}
    [] s = "pose" -> {ModelHead("pose", nc, reg, 9) : nc \in {1, 3}, reg \in {0, 2, 3}}
                       \X Exports("pose") \X {0, 1} \X {400, 1000}
    [] s = "obb" -> {ModelHead("obb", nc, reg, 1) : nc \in {2, 3}, reg \in {0, 2}}
                      \X Exports("obb") \X {0, 2} \X {1000}
    [] s = "segments" -> {i \in {SegmentHead(nc, reg, extra) : nc \in {1, 3, 8}, reg \in {0, 3}, extra \in 2..4}
                                   \X [nhwc : BOOLEAN, fused : {FALSE}, shared : {FALSE}, sum : BOOLEAN, spelling : {"planes"}]
                                   \X BOOLEAN \X {0, 4} \X {0, 1, 3, 8} \X {1000} :
                              i[5] \in {0, i[1].nc}}
    [] s = "suppression" -> [1..4 -> {500, 700}] \X [1..4 -> 0..2] \X {300, 500} \X {0, 2, 3}
    [] s = "rotated" -> (0..4) \X {0, 1, 3} \X {2, 4, 6} \X {2, 4} \X (0..7)
    [] s = "masks" -> BOOLEAN \X BOOLEAN \X MaskBoxes \X MaskBoxes \X {<<1, 2>>, <<-1, 1>>}
    [] s = "faces" -> {o \in [1..3 -> 1..3] : Cardinality({o[k] : k \in 1..3}) = 3}
                        \X [1..3 -> BOOLEAN] \X (0..2) \X BOOLEAN \X {300, 1000}
    [] s = "alignment" -> (-2..2) \X (-2..2) \X {-3, 0, 2} \X {0, 5}
    [] s = "aligned" -> (-2..2) \X (-2..2)

HeadAgrees(i) ==
  /\ subject = "detect" => Yolo!LayoutDoesNotMatter(i[1], i[2], i[3], HeadCfg(i[4], i[5]), HeadBox)
  /\ subject \in {"pose", "obb"} =>
       Yolo!LayoutDoesNotMatter(i[1], i[2], i[3], HeadCfg(i[1].nc, i[4]), HeadBox)
  /\ subject = "segments" =>
       Masks!SegmentLayoutDoesNotMatter(i[1], i[2], i[3], i[4], HeadCfg(i[5], i[6]), SegmentBox)
  /\ subject = "suppression" =>
       Yolo!SuppressionIsSound(
         [k \in 1..4 |-> [score |-> i[1][k], class |-> k % 2,
                          box |-> [x1 |-> 2 * i[2][k], y1 |-> k % 2, x2 |-> 2 * i[2][k] + 4, y2 |-> (k % 2) + 4]]],
         i[3], i[4])
  /\ subject = "rotated" =>
       Yolo!TurningKeepsOverlap([cx |-> 0, cy |-> 0, w |-> 4, h |-> 2, angle |-> 0],
                                [cx |-> i[1], cy |-> i[2], w |-> i[3], h |-> i[4], angle |-> 0], i[5], 12)
  /\ subject = "masks" =>
       Masks!MasksAreIndependent(<<Instance(i[3], i[5]), Instance(i[4], <<1, -1>>)>>, Prototype(i[1]),
                                 [full_frame_masks |-> i[2], mask_thresh |-> 500], MaskBox)
  /\ subject = "faces" => Face!FacesDecodeAlike(i[1], i[2], i[3], FaceCfg(i[4], i[5]), FaceBox)
  /\ subject = "alignment" => Face!AlignmentRecovers(Template, i[1], i[2], i[3], i[4])
  /\ subject = "aligned" =>
       Face!AlignedCropIsUntouched(
         [w |-> 4, h |-> 3, at |-> [p \in (0..3) \X (0..2) |-> 10 + 7 * p[1] + 20 * p[2]]], i[1], i[2], 99)

\* However a model's head is laid out in its output tensors a frame decodes to
\* the same findings, masks included, suppression keeps what it must, a mask and
\* a face crop depend on their own instance alone (detection.cc, pose.cc, obb.cc,
\* instance_seg.cc, face.cc).
HeadsAgree == [][input' # NoInput => HeadAgrees(input')]_input

\* instance_seg.cc:179-180, of the window a mask is assembled in: "Only the
\* instance's own box can be non-zero [...] Grow it to whole pixels so nothing
\* is cut off."
NothingIsCutOff ==
  input # NoInput /\ subject = "masks" =>
    LET i == input IN
    Masks!NothingIsCutOff(<<Instance(i[3], i[5]), Instance(i[4], <<1, -1>>)>>, Prototype(i[1]),
                          [full_frame_masks |-> i[2], mask_thresh |-> 500], MaskBox)

(***************************************************************************)
(* Text and features.                                                      *)
(***************************************************************************)
DetCfg(connectivity) ==
  [apply_sigmoid |-> FALSE, bin_thresh |-> 300, box_thresh |-> 500, unclip_ratio |-> 15, min_size |-> 1,
   min_box_side |-> 1, max_candidates |-> 2, connectivity |-> connectivity]
RecCfg(time_major) == [time_major |-> time_major, blank_index |-> 0, apply_softmax |-> FALSE]
Line(k, x, y) == LET b == [pts |-> <<<<x, y>>, <<x + 1, y>>, <<x + 1, y + 1>>, <<x, y + 1>>>>, id |-> k] IN b
Directions == {<<2, 0>>, <<1, 1>>, <<0, 2>>, <<-1, 1>>}
Logit(k) == CASE k = 0 -> <<0, 0, 0, 0, 5>> [] k = 1 -> <<9, 0, 0, 1, 0>>
              [] k = 2 -> <<0, 0, 9, 9, 0>> [] k = 3 -> <<0, 1, 2, 9, 8>>
FeatureMaps(f) ==
  [w |-> 2, h |-> 1, kpts |-> [g \in Feat!Lattice(2, 1) |-> Logit(f[1 + g[1]])],
   reliability |-> [g \in Feat!Lattice(2, 1) |-> 1 + g[1]]]

TextInputs(s) ==
  CASE s = "regions" -> {i \in (SUBSET ((0..3) \X (0..2))) \X {4, 8} : Cardinality(i[1]) \in 3..6}
    [] s = "reading" -> [1..4 -> {0, 3, 5}] \X [1..4 -> {0, 2, 4, 9}]
    [] s = "ctc" -> (UNION {[1..n -> 0..2] : n \in 1..4}) \X BOOLEAN \X BOOLEAN
    [] s = "lines" -> (1..7) \X (1..5) \X [0..2 -> {100, 800, 900}]
    [] s = "matches" -> [1..3 -> Directions] \X [1..2 -> Directions] \X {1, 2} \X {0, 2}
    [] s = "keypoints" -> [1..2 -> 0..3] \X {1, 3} \X {0, 1, 2}
    [] s = "kernel" -> {i \in (0..3) \X (1..4) : i[1] < i[2]}

FindingIsSound(i) ==
  /\ subject = "regions" =>
       Text!RegionsPartition([p \in 0..11 |-> IF <<p % 4, p \div 4>> \in i[1] THEN 900 ELSE 0], 3, 4, DetCfg(i[2]))
  /\ subject = "reading" => Text!ReadingOrder([k \in 1..4 |-> Line(k, i[1][k], i[2][k])], 4)
  /\ subject = "ctc" => Text!CtcCollapses(i[1], <<"-", "a", "b">>, RecCfg(i[2]), i[3])
  /\ subject = "lines" => Text!LineIsPrepared(i[1], i[2], 6, 3, i[3], 850)
  /\ subject = "matches" => Feat!MatchesAreMutual(i[1], i[2], i[3], i[4])
  /\ subject = "keypoints" =>
       Feat!KeypointsStandOut(FeatureMaps(i[1]), 2, [nms_kernel |-> i[2], detection_thresh |-> 50, top_k |-> i[3]])
  /\ subject = "kernel" => Feat!KernelIsPartitionOfUnity(i[1], i[2])

\* What is found in an image is found once and whole (ocr.cc, features.cc): a
\* text region in one box that holds it, lines in reading order, a line fitted to
\* the recogniser and turned when it is upside down, the best path of a line
\* collapsed to its text, features that stand out, and matches that
\* are mutual whatever order the threads merge in.
FindingsAreSound == [][input' # NoInput => FindingIsSound(input')]_input

(***************************************************************************)
(* Association.                                                            *)
(***************************************************************************)
BoostCfg(duo) ==
  [high_thresh |-> 600, duo |-> duo, duo_iou |-> 300, dlo_alpha |-> 650, vt_start |-> 950,
   vt_end |-> 800, vt_steps |-> 20]
At(p) == [x1 |-> 10 * p, y1 |-> 0, x2 |-> 10 * p + 20, y2 |-> 20]
Detected(p, score) == [box |-> At(p), meas |-> <<p>>, score |-> score]
Pooled(p, var, frame) ==
  [box |-> At(p), mean |-> <<p>>, var |-> <<var>>, frame_id |-> frame, start_frame |-> 1]

TrackInputs(s) ==
  CASE s = "assignment" -> [1..2 -> [1..3 -> {0, 1, 3}]] \X {1, 3} \X {<<2, 3>>, <<2, 2>>, <<1, 3>>}
    [] s = "boost" -> {p \in [1..3 -> {0, 1, 9}] : p[1] = 0} \X [1..3 -> {200, 550, 599}]
                        \X {<<>>, <<Pooled(0, 100, 9), Pooled(9, 10, 5)>>, <<Pooled(50, 100, 9)>>} \X BOOLEAN
    [] s = "filter" -> (UNION {[1..n -> {-1, 0, 5, 40}] : n \in 1..3}) \X {8, 20}

AssociationHolds(i) ==
  /\ subject = "assignment" => Assoc!AssignmentIsOptimal(i[1], i[3][1], i[3][2], i[2])
  /\ subject = "boost" =>
       Assoc!BoostsDoNotCollide([k \in 1..3 |-> Detected(i[1][k], i[2][k])], i[3], 10, BoostCfg(i[4]))
  /\ subject = "filter" => Assoc!FilterStaysSane(i[2], i[1])

\* Behind the matchings ByteTracker takes as given (byte_tracker.cc): the
\* assignment is one no other undercuts, boosted scores promote one detection
\* an object, and the motion filter keeps to what it has seen.
AssociationIsSound == [][input' # NoInput => AssociationHolds(input')]_input

(***************************************************************************)
(* The run.                                                                *)
(***************************************************************************)
ImageSubjects == {"planes", "colours", "canvas", "fills", "geometry", "strides", "letterbox", "outlines",
                  "overlays", "borders", "centre", "boxes", "crops", "reid"}
NumberSubjects == {"rows", "reads", "halves", "grid", "labels", "projection", "depth", "ranking"}
HeadSubjects == {"detect", "pose", "obb", "segments", "suppression", "rotated", "masks", "faces", "alignment", "aligned"}
TextSubjects == {"regions", "reading", "ctc", "lines", "matches", "keypoints", "kernel"}
TrackSubjects == {"assignment", "boost", "filter"}
Subjects == ImageSubjects \cup NumberSubjects \cup HeadSubjects \cup TextSubjects \cup TrackSubjects

Inputs ==
  CASE subject \in ImageSubjects  -> ImageInputs(subject)
    [] subject \in NumberSubjects -> NumberInputs(subject)
    [] subject \in HeadSubjects   -> HeadInputs(subject)
    [] subject \in TextSubjects   -> TextInputs(subject)
    [] subject \in TrackSubjects  -> TrackInputs(subject)

VisionInit ==
  /\ subject \in Subjects \cup {"tracking"} /\ input = NoInput
  /\ PipelineInit
  /\ subject # "tracking" => stage = "idle" /\ ~reid_

Evaluate ==
  /\ subject \in Subjects /\ input = NoInput
  /\ input' \in Inputs
  /\ UNCHANGED <<subject, trackerVars, pipelineVars>>

VisionNext ==
  \/ subject = "tracking" /\ TrackingNext /\ UNCHANGED <<subject, input>>
  \/ Evaluate

VisionSpec == VisionInit /\ [][VisionNext]_<<subject, input, trackerVars, pipelineVars>>
=============================================================================

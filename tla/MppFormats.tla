----------------------------- MODULE MppFormats -----------------------------
(***************************************************************************)
(* The conversions of src/src/media/mpp_common.cc between RCDL's pixel     *)
(* formats and MPP's frame layouts, and the size of a frame buffer.        *)
(* "fbc" and "tile" stand for every layout with one of those property      *)
(* bits, "10bit" for the 10-bit 4:2:0 layouts.                             *)
(***************************************************************************)
EXTENDS Integers, SequencesExt

PixelFormats == {"NV12", "NV21", "YUV420P", "GRAY8", "RGB888", "BGR888",
                 "RGBA8888", "BGRA8888"}

\* MPP's layouts by the number of extra planes they carry.
Layouts420 == {"YUV420SP", "YUV420SP_VU", "YUV420P", "10bit", "YUV411SP"}
Layouts422 == {"YUV422SP", "YUV422SP_VU", "YUV422P", "YUV440SP"}
Layouts444 == {"YUV444SP", "YUV444P"}
LayoutsRGB == {"RGB888", "BGR888", "RGBA8888", "BGRA8888"}
LayoutsOnePlane == {"YUV400", "YUYV"} \cup LayoutsRGB

Codings == {"H264", "H265", "VP8", "VP9", "AV1", "MJPEG"}

\* frameFormat(): throws for Unknown, which is why it is not in the domain.
frameFormat ==
  [f \in PixelFormats |->
     CASE f = "NV12"  -> "YUV420SP"
       [] f = "NV21"  -> "YUV420SP_VU"
       [] f = "GRAY8" -> "YUV400"
       [] OTHER       -> f]

\* pixelFormat(): Unknown for whatever is not a plain image RCDL has a name
\* for, the compressed and tiled layouts first of all.
pixelFormat(layout) ==
  LET known == {f \in PixelFormats : frameFormat[f] = layout}
  IN  IF known = {} THEN "Unknown" ELSE CHOOSE f \in known : TRUE

\* A planar image has no bytes per pixel; Unknown has none either.
bytesPerPixel(f) ==
  CASE f \in {"RGB888", "BGR888"}     -> 3
    [] f \in {"RGBA8888", "BGRA8888"} -> 4
    [] f = "GRAY8"                    -> 1
    [] OTHER                          -> 0

\* frameBufferBytes(): hor_stride is the byte stride of the first plane, so
\* only the chroma planes are left to add; an unknown layout is sized as 4:4:4.
frameBufferBytes(layout, hor, ver) ==
  LET plane == hor * ver
  IN  IF hor <= 0 \/ ver <= 0 THEN 0
      ELSE CASE layout = "fbc"             -> 2 * plane
             [] layout \in Layouts420      -> plane + plane \div 2
             [] layout \in Layouts422      -> 2 * plane
             [] layout \in LayoutsOnePlane -> plane
             [] OTHER                      -> 3 * plane

\* viewOfFrame(): MPP's byte stride as the pixel stride an ImageView has.  The
\* runtime may report the pixel stride too (0: it does not).
viewOfFrame(w, h, layout, hor, ver, pixel_stride) ==
  LET bpp == bytesPerPixel(pixelFormat(layout))
  IN  [width |-> w, height |-> h, format |-> pixelFormat(layout),
       wstride |-> IF bpp <= 1 THEN hor
                   ELSE IF pixel_stride > 0 THEN pixel_stride
                   ELSE hor \div bpp,
       hstride |-> ver]

\* The heaps a DmaBuf comes from (src/src/core/dma_buf.cc) and those whose
\* pages the RGA2 core can address.
Heaps == {"System", "SystemUncached", "Cma", "CmaUncached", "SystemDma32",
          "SystemUncachedDma32"}

heapBelow4G(heap) == heap \in {"SystemDma32", "SystemUncachedDma32"}
=============================================================================

------------------------------ MODULE Tensors ------------------------------
(***************************************************************************)
(* The data path between host memory and the NPU's tensors:                *)
(* src/src/backend/engine.cc (types, sizes, scattering packed rows into    *)
(* the padded device layout and gathering them back), output_reader.cc     *)
(* (half floats, dequantisation) and custom_ops.cc (GridSample).           *)
(* Operators only: a buffer is a function on 0..n-1 of bytes, and a byte   *)
(* is <<k, b>>, byte b of element k, so what lands where can be told.      *)
(*                                                                         *)
(* An attr is [dims, fmt, type, w_stride, size_with_stride], strides in    *)
(* elements and sizes in bytes, both 0 when the runtime does not report    *)
(* them; an input's has as_float, an output's [qnt, scale, zp, fl].        *)
(***************************************************************************)
EXTENDS Integers, SequencesExt

Refused == <<>>
MaxOf(a, b) == IF a >= b THEN a ELSE b

elementSize(type) ==
  CASE type \in {"FLOAT32", "INT32", "UINT32"}               -> 4
    [] type \in {"FLOAT16", "INT16", "UINT16", "BFLOAT16"}   -> 2
    [] type \in {"INT8", "UINT8", "BOOL", "INT4"}            -> 1
    [] type = "INT64"                                        -> 8
    [] OTHER                                                 -> 0

(***************************************************************************)
(* engine.cc: the rows of a tensor.                                        *)
(***************************************************************************)
nElems(a) == FoldSeq(LAMBDA d, p : d * p, 1, a.dims)
IsNHWC(a) == Len(a.dims) = 4 /\ a.fmt = "NHWC"

widthOf(a) ==
  IF a.dims = <<>> THEN 1 ELSE IF IsNHWC(a) THEN a.dims[3] ELSE Last(a.dims)

rowCount(a) ==
  IF IsNHWC(a) THEN a.dims[1] * a.dims[2]
  ELSE FoldSeq(LAMBDA d, p : d * p, 1, IF a.dims = <<>> THEN <<>> ELSE Front(a.dims))

\* An NHWC row carries its channels with each pixel.
rowElems(a, width) == IF IsNHWC(a) THEN width * a.dims[4] ELSE width

widthStride(a) == IF a.w_stride > 0 THEN a.w_stride ELSE widthOf(a)

\* A mutant: a row is as many bytes as it has elements.
rowBytesInElements(a, width, type) == rowElems(a, width)

rowBytes(a, width, type) == rowElems(a, width) * elementSize(type)

\* setupIo(): the type the caller fills an input with, and the sizes of the
\* device buffers; the runtime counts an input's in the model's own type.
inputType(a) ==
  CASE a.type \in {"INT8", "UINT8"}               -> IF a.as_float THEN "FLOAT32" ELSE "UINT8"
    [] a.type \in {"INT16", "FLOAT16", "FLOAT32"} -> "FLOAT32"
    [] OTHER                                      -> a.type

inputFormat(a) == IF a.fmt \in {"NC1HWC2", "UNDEFINED"} THEN "NHWC" ELSE a.fmt

packedBytes(a, type) == nElems(a) * elementSize(type)

inputBytes(a) ==
  elementSize(inputType(a)) * MaxOf(a.size_with_stride \div elementSize(a.type), nElems(a))

outputBytes(a) == MaxOf(a.size_with_stride, packedBytes(a, a.type))

\* The first `len` bytes of each row.
copyRows(dst, dst_row, src, src_row, rows, len) ==
  [i \in DOMAIN dst |->
     IF i \div dst_row < rows /\ i % dst_row < len
     THEN src[(i \div dst_row) * src_row + (i % dst_row)] ELSE dst[i]]

\* setInput() of `bytes` bytes: a plain copy, the packed rows scattered into the
\* padded ones (the rest of the buffer keeps what it had), or a refusal.
setInput(a, data, bytes, device) ==
  LET src_row == rowBytes(a, widthOf(a), inputType(a))
      dst_row == rowBytes(a, widthStride(a), inputType(a))
      copied  == [i \in DOMAIN device |-> IF i < bytes THEN data[i] ELSE device[i]]
  IN  IF bytes = inputBytes(a) THEN copied
      ELSE IF bytes # packedBytes(a, inputType(a)) THEN Refused
      ELSE IF src_row = dst_row THEN copied
      ELSE IF rowCount(a) * dst_row > inputBytes(a) THEN Refused
      ELSE copyRows(device, dst_row, data, src_row, rowCount(a), src_row)

\* Engine::outputAsFloat(), the gather: the packed rows of a padded buffer.
gatherRows(a, device) ==
  LET src_row == rowBytes(a, widthStride(a), a.type)
      dst_row == rowBytes(a, widthOf(a), a.type)
      packed  == [i \in 0..rowCount(a) * dst_row - 1 |-> <<>>]
  IN  IF widthStride(a) = widthOf(a) THEN device
      ELSE copyRows(packed, dst_row, device, src_row, rowCount(a), dst_row)

(***************************************************************************)
(* output_reader.cc: binary32 as [s, e, m] with a biased exponent and 23   *)
(* bits of mantissa, binary16 as its 16 bits.                              *)
(***************************************************************************)
HalfSign == 32768
HalfInf == 31744     \* 0x7C00

\* n >> s with round to nearest, ties to even.
ShiftRound(n, s) ==
  LET q == n \div 2^s
      r == n % 2^s
      h == 2^(s - 1)
  IN  IF r > h \/ (r = h /\ q % 2 = 1) THEN q + 1 ELSE q

floatToHalf(f) ==
  LET sign == f.s * HalfSign
      exp  == f.e - 127 + 15
  IN  CASE f.e = 255  -> sign + HalfInf + (IF f.m # 0 THEN 512 ELSE 0)
        [] f.e # 255 /\ exp >= 31 -> sign + HalfInf
        [] exp \in -10..0         -> sign + ShiftRound(f.m + 2^23, 14 - exp)
        [] exp < -10              -> sign
        [] OTHER -> sign + ShiftRound(exp * 2^23 + f.m, 13)

\* How far the mantissa of a subnormal is shifted to get its leading 1.
Normalise(m) == CHOOSE k \in 1..10 : m * 2^k \in 1024..2047

halfToFloat(h) ==
  LET s == h \div HalfSign
      e == (h \div 1024) % 32
      m == h % 1024
  IN  CASE e = 0 /\ m = 0 -> [s |-> s, e |-> 0, m |-> 0]
        [] e = 0 /\ m # 0 ->
             [s |-> s, e |-> 127 - 15 - (Normalise(m) - 1),
              m |-> (m * 2^Normalise(m) - 1024) * 2^13]
        [] e = 31 -> [s |-> s, e |-> 255, m |-> m * 2^13]
        [] OTHER  -> [s |-> s, e |-> e + 127 - 15, m |-> m * 2^13]

\* dequantizeToFloat() of one element, in units of 1/unit; a float, a 64-bit
\* integer and a Boolean carry no scale of their own.
Dequantized == {"FLOAT32", "FLOAT16", "INT8", "UINT8", "INT16", "UINT16", "INT32", "UINT32",
                "INT64", "BOOL"}
dequantize(attr, q, unit) ==
  LET affine == attr.qnt = "AFFINE"
      scale  == IF affine THEN attr.scale
                ELSE IF attr.qnt = "DFP" THEN unit \div 2^attr.fl ELSE unit
  IN  CASE attr.type \in {"FLOAT32", "FLOAT16", "INT64"} -> q * unit
        [] attr.type = "BOOL" -> IF q # 0 THEN unit ELSE 0
        [] OTHER -> (q - (IF affine THEN attr.zp ELSE 0)) * scale

\* quantParams(): whether a head may compare raw values with a threshold.
isAffine(attr) == attr.qnt = "AFFINE" /\ attr.type \in {"INT8", "UINT8"}

\* The element that the k-th few bytes of a buffer make up; Torn when they are
\* not the bytes of one.
Torn == -1
elementAt(bytes, k, size) ==
  IF \A b \in 0..size - 1 : bytes[k * size + b] = <<bytes[k * size][1], b>>
  THEN bytes[k * size][1] ELSE Torn

\* outputAsFloat(): read in place only what needs no work.
readInPlace(a) == a.type = "FLOAT32" /\ a.w_stride \in {0, widthOf(a)}

\* The numbers a decoder is given, of a device buffer with the elements `codes`.
outputAsFloat(a, device, codes, unit) ==
  LET bytes == IF readInPlace(a) THEN device ELSE gatherRows(a, device)
      at(k) == elementAt(bytes, k, elementSize(a.type))
  IN  IF a.type \notin Dequantized THEN Refused
      ELSE [k \in 0..nElems(a) - 1 |->
              IF at(k) = Torn THEN Torn
              ELSE IF readInPlace(a) THEN codes[at(k)] * unit ELSE dequantize(a, codes[at(k)], unit)]

(***************************************************************************)
(* custom_ops.cc: GridSample.  image and grid are [dims, fmt, data]; the   *)
(* grid's coordinates are in units of 1/den; samples and results are in    *)
(* quarters of a pixel and sixteenths of a value.                          *)
(***************************************************************************)
Supported == {"FLOAT16", "FLOAT32"}
Interleaved(grid) == grid.dims[4] = 2

\* Why gridSampleCompute() would refuse, or "".
gridSampleRefuses(image, grid, mode, padding) ==
  CASE Len(image.dims) # 4 \/ Len(grid.dims) # 4 -> "not 4-D"
    [] image.type \notin Supported \/ grid.type \notin Supported -> "type"
    [] (~Interleaved(grid) /\ grid.dims[2] # 2) \/ grid.dims[1] # image.dims[1] -> "grid"
    [] mode \notin {"", "bilinear", "linear"} -> "mode"
    [] padding \notin {"", "zeros"} -> "padding"
    [] OTHER -> ""

\* A normalised coordinate num/den as four times a pixel position, rounded down
\* to a quarter.
PixelPosition(num, den, extent, align) ==
  IF align THEN (2 * (num + den) * (extent - 1)) \div den
  ELSE (2 * ((num + den) * extent - den)) \div den

gridSample(image, grid, den, align) ==
  LET nhwc == image.fmt = "NHWC"
      n == image.dims[1]
      c == IF nhwc THEN image.dims[4] ELSE image.dims[2]
      h == IF nhwc THEN image.dims[2] ELSE image.dims[3]
      w == IF nhwc THEN image.dims[3] ELSE image.dims[4]
      plane == IF Interleaved(grid) THEN grid.dims[2] * grid.dims[3]
               ELSE grid.dims[3] * grid.dims[4]
      gridAt(b, p, k) ==
        grid.data[b * plane * 2 + (IF Interleaved(grid) THEN 2 * p + k ELSE k * plane + p)]
      pixel(b, ch, y, x) ==
        IF x \notin 0..w - 1 \/ y \notin 0..h - 1 THEN 0
        ELSE image.data[b * h * w * c + (IF nhwc THEN (y * w + x) * c + ch
                                         ELSE ch * h * w + y * w + x)]
      sample(b, ch, p) ==
        LET x == PixelPosition(gridAt(b, p, 0), den, w, align)
            y == PixelPosition(gridAt(b, p, 1), den, h, align)
            x0 == x \div 4
            y0 == y \div 4
            fx == x % 4
            fy == y % 4
        IN  (4 - fx) * (4 - fy) * pixel(b, ch, y0, x0)
            + fx * (4 - fy) * pixel(b, ch, y0, x0 + 1)
            + (4 - fx) * fy * pixel(b, ch, y0 + 1, x0)
            + fx * fy * pixel(b, ch, y0 + 1, x0 + 1)
      \* the output has the image's format
      place(i) == LET r == i % (plane * c)
                  IN  IF nhwc THEN [ch |-> r % c, p |-> r \div c]
                      ELSE [ch |-> r \div plane, p |-> r % plane]
  IN  [i \in 0..n * plane * c - 1 |->
         sample(i \div (plane * c), place(i).ch, place(i).p)]

(***************************************************************************)
(* Reference definitions.                                                  *)
(***************************************************************************)
\* Where the device keeps the k-th element of the packed tensor, by its
\* coordinates: only the width is padded.
DeviceIndex(a, k) ==
  IF IsNHWC(a)
  THEN LET c == k % a.dims[4]
           x == (k \div a.dims[4]) % a.dims[3]
           y == k \div (a.dims[4] * a.dims[3])
       IN  (y * widthStride(a) + x) * a.dims[4] + c
  ELSE (k \div widthOf(a)) * widthStride(a) + (k % widthOf(a))

\* A packed tensor handed to setInput() is, byte for byte, where the device
\* looks for it, whatever type the caller fills in and the model keeps, and the
\* padding is untouched.
RowsSurvive(a) ==
  LET size   == elementSize(inputType(a))
      bytes  == packedBytes(a, inputType(a))
      data   == [i \in 0..bytes - 1 |-> <<i \div size, i % size>>]
      device == setInput(a, data, bytes, [i \in 0..inputBytes(a) - 1 |-> <<>>])
  IN  /\ device # Refused
      /\ \A k \in 0..nElems(a) - 1, b \in 0..size - 1 :
           device[DeviceIndex(a, k) * size + b] = <<k, b>>
      /\ Cardinality({i \in DOMAIN device : device[i] # <<>>}) = bytes

\* What outputAsFloat() gives of the k-th element is the number its code stands
\* for, read in place or gathered: nought at the zero point and a step of the
\* tensor's scale for a step of the code, for the types that have one; and
\* codes may be compared for their numbers where quantParams() says so.
NumbersRead(a, codes, unit) ==
  LET size    == elementSize(a.type)
      held(e) == {k \in DOMAIN codes : DeviceIndex(a, k) = e}
      device  == [i \in 0..outputBytes(a) - 1 |->
                    IF held(i \div size) = {} THEN <<Torn, i % size>>
                    ELSE <<CHOOSE k \in held(i \div size) : TRUE, i % size>>]
      out     == outputAsFloat(a, device, codes, unit)
      scaled  == a.type \notin {"FLOAT32", "FLOAT16", "INT64", "BOOL"} /\ a.qnt # "NONE"
      step    == IF ~scaled THEN unit ELSE IF a.qnt = "AFFINE" THEN a.scale ELSE unit \div 2^a.fl
      nought  == IF scaled /\ a.qnt = "AFFINE" THEN a.zp ELSE 0
  IN  a.type \in Dequantized =>
        /\ \A k \in DOMAIN codes : codes[k] = nought => out[k] = 0
        /\ a.type # "BOOL" =>
             \A j, k \in DOMAIN codes : out[j] - out[k] = (codes[j] - codes[k]) * step
        /\ isAffine(a) => \A j, k \in DOMAIN codes : codes[j] < codes[k] <=> out[j] < out[k]

\* floatToHalf() inverts halfToFloat() ("this is the inverse of
\* halfToFloat()"), and between two neighbouring halves rounds to the nearer
\* one, to the even one half way; a NaN stays a NaN.
HalfRoundTrips(h) ==
  LET f == halfToFloat(h)
      magnitude == h % HalfSign
      isNaN == magnitude > HalfInf
      between(r) == [f EXCEPT !.m = @ + r]
  IN  /\ ~isNaN => floatToHalf(f) = h
      /\ isNaN => floatToHalf(f) % HalfSign > HalfInf
      /\ magnitude \in 1024..HalfInf - 1 =>
           /\ \A r \in {1, 4095} : floatToHalf(between(r)) = h
           /\ floatToHalf(between(4096)) = IF h % 2 = 0 THEN h ELSE h + 1
           /\ \A r \in {4097, 8191} : floatToHalf(between(r)) = h + 1

\* Bilinear sampling reproduces a plane a*x + b*y + ch exactly wherever all
\* four neighbours are in the image, for either channel order and either grid
\* layout, and is zero a whole pixel or more outside.
PlaneReproduced(nhwc, interleaved, align, w, h, coef, gx, gy, den) ==
  LET c == 2
      at(y, x, ch) == coef.a * x + coef.b * y + ch
      image == [dims |-> IF nhwc THEN <<1, h, w, c>> ELSE <<1, c, h, w>>,
                fmt  |-> IF nhwc THEN "NHWC" ELSE "NCHW", type |-> "FLOAT32",
                data |-> [i \in 0..w * h * c - 1 |->
                            IF nhwc THEN at(i \div (w * c), (i \div c) % w, i % c)
                            ELSE at((i \div w) % h, i % w, i \div (w * h))]]
      \* two grid points: the one asked for and the centre
      grid == [dims |-> IF interleaved THEN <<1, 1, 2, 2>> ELSE <<1, 2, 1, 3>>,
               type |-> "FLOAT16",
               data |-> IF interleaved THEN [i \in 0..3 |-> <<gx, gy, 0, 0>>[i + 1]]
                        ELSE [i \in 0..5 |-> <<gx, 0, 0, gy, 0, 0>>[i + 1]]]
      points == IF interleaved THEN 2 ELSE 3
      out == gridSample(image, grid, den, align)
      x4  == PixelPosition(gx, den, w, align)
      y4  == PixelPosition(gy, den, h, align)
      outAt(ch) == out[IF nhwc THEN ch ELSE ch * points]
  IN  gridSampleRefuses(image, grid, "bilinear", "zeros") = "" =>
        /\ x4 \in 0..4 * (w - 1) /\ y4 \in 0..4 * (h - 1) =>
             \A ch \in 0..c - 1 :
               outAt(ch) = 4 * coef.a * x4 + 4 * coef.b * y4 + 16 * ch
        /\ x4 <= -4 \/ y4 <= -4 \/ x4 >= 4 * w \/ y4 >= 4 * h =>
             \A ch \in 0..c - 1 : outAt(ch) = 0
=============================================================================

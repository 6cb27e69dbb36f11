---------------------------- MODULE VideoEncoder ----------------------------
(***************************************************************************)
(* rcdl::VideoEncoder (src/src/media/video_encoder.cc): a feeder that      *)
(* queues frames, re-programming the input layout when a dma-buf comes     *)
(* with another one, and a drainer that collects packets; either may       *)
(* signal the end of the stream.  MPP's encoder is external.               *)
(***************************************************************************)
EXTENDS MppFormats

CONSTANTS EncConfigs,   \* VideoEncConfigs
          Views,        \* images to feed: [fd, hor, ver, bytes], hor in bytes
          EncQueueMax,  \* MPP's input queue
          MaxFed,       \* bound: frames fed
          MaxEncFaults  \* bound: calls MPP refuses

ASSUME EncoderAssumption ==
  /\ \A c \in EncConfigs : c.width \in Int /\ c.height \in Int
  /\ Views \subseteq [fd : BOOLEAN, hor : Int, ver : Int, bytes : Int]

MaxInt == 2147483647

alignUp(v, a) == ((v + a - 1) \div a) * a

\* The VEPU's input layout: a pitch in units of 16 bytes, rows in units of 16.
horStrideBytes(width, f) ==
  alignUp(width, 16) * (IF bytesPerPixel(f) > 0 THEN bytesPerPixel(f) ELSE 1)
verStrideRows(height) == alignUp(height, 16)

isPlanarYuv(f) == f \in {"NV12", "NV21", "YUV420P"}

\* What the public constructor lets through.
ValidConfig(c) ==
  /\ c.codec \in {"H264", "H265", "MJPEG"}
  /\ c.width \in 16..8192 /\ c.height \in 16..8192
  /\ isPlanarYuv(c.format) => c.width % 2 = 0 /\ c.height % 2 = 0
  /\ c.fps \in 1..240 /\ c.bitrate_kbps \in 1..200000
  /\ c.gop >= 0 /\ c.qp \in 0..99

\* bps * num / 16 with int arithmetic: the product of 17 wraps at 2^32 (written
\* so that no intermediate value leaves TLC's own 32 bits).
Sixteenths(bps, num) ==
  IF bps <= MaxInt \div num THEN (bps * num) \div 16
  ELSE -((MaxInt - 8 * bps + MaxInt - 8 * bps + 2 - (num - 16) * bps) \div 16)

\* configure(): the rate control and codec keys of the MppEncCfg.
bpsTarget(c) == c.bitrate_kbps * 1000

Bounds(c) ==
  [bps_target |-> bpsTarget(c),
   bps_max |-> IF c.rc = "FixQp" THEN bpsTarget(c) ELSE Sixteenths(bpsTarget(c), 17),
   bps_min |-> CASE c.rc = "FixQp" -> bpsTarget(c)
                 [] c.rc = "Cbr"   -> Sixteenths(bpsTarget(c), 15)
                 [] OTHER          -> Sixteenths(bpsTarget(c), 1),
   gop |-> IF c.gop > 0 THEN c.gop ELSE 2 * c.fps]

Quality(c) ==
  IF c.codec = "MJPEG"
  THEN LET q == IF c.qp = 0 THEN 80 ELSE c.qp
       IN  [init |-> q, max |-> IF c.rc = "FixQp" THEN q ELSE 99,
            min |-> IF c.rc = "FixQp" THEN q ELSE 1]
  ELSE LET q == IF c.qp = 0 THEN 26 ELSE c.qp
       IN  IF c.rc = "FixQp" THEN [init |-> q, max |-> q, min |-> q]
           ELSE [init |-> -1, max |-> 51, min |-> 10]

Coding(c) ==
  LET large == c.width * c.height > 1920 * 1088
  IN  CASE c.codec = "H264" ->
             LET profile == IF c.profile > 0 THEN c.profile ELSE 100
             IN  [profile |-> profile, level |-> IF large THEN 51 ELSE 40,
                  cabac |-> profile >= 77, trans8x8 |-> profile >= 100]
        [] c.codec = "H265" -> [profile |-> 1, level |-> IF large THEN 153 ELSE 120]
        [] OTHER -> [profile |-> 0]

configure(c) == [rc |-> Bounds(c), quality |-> Quality(c), coding |-> Coding(c)]

VARIABLES
  enc_cfg,          \* the configuration, and what configure() made of it
  prep,             \* the layout MPP has been told: <<hor, ver>>
  hor_stride, ver_stride,   \* the Impl's two atomics
  header_pending, last_keyframe, eos_received, enc_eos_fed, enc_frames,
  emits_header,     \* the keyframes MPP repeats the codec header in all the same
  enc_inq, enc_outq, keyed,   \* MPP: queues; the first frame has been coded
  enc_pc,           \* thread -> "idle", or where its call is
  feeding,          \* the feeder's frame on its way into the queue
  marker,           \* thread -> the stride it has read for its marker
  file,             \* the packets drained, back to back
  enc_faults

encVars == <<enc_cfg, prep, hor_stride, ver_stride, header_pending, last_keyframe,
             eos_received, enc_eos_fed, enc_frames, emits_header, enc_inq, enc_outq,
             keyed, enc_pc, feeding, marker, file, enc_faults>>

EncThreads == {"feeder", "drainer"}
Keyframes == {"first", "later"}
NoLayout == <<0, 0>>
Layout == <<hor_stride, ver_stride>>

\* captureExtraData(): H.264 and H.265 have a header, unless the runtime hands
\* none out.
HasHeader == enc_cfg.extra

EncInit ==
  /\ \E c \in {k \in EncConfigs : ValidConfig(k)}, extra \in BOOLEAN :
       /\ extra => c.codec # "MJPEG"
       /\ enc_cfg = [codec |-> c.codec, format |-> c.format, height |-> c.height,
                     extra |-> extra, set |-> configure(c)]
       /\ hor_stride = horStrideBytes(c.width, c.format)
       /\ ver_stride = verStrideRows(c.height)
       /\ header_pending = extra
  /\ prep = Layout
  /\ last_keyframe = FALSE /\ eos_received = FALSE /\ enc_eos_fed = FALSE
  /\ enc_frames = 0 /\ emits_header \in SUBSET Keyframes
  /\ enc_inq = <<>> /\ enc_outq = <<>> /\ keyed = FALSE
  /\ enc_pc = [t \in EncThreads |-> "idle"]
  /\ feeding = NoLayout /\ marker = [t \in EncThreads |-> 0]
  /\ file = <<>> /\ enc_faults = 0

EncGoto(t, where) == enc_pc' = [enc_pc EXCEPT ![t] = where]
EncFault == enc_faults < MaxEncFaults /\ enc_faults' = enc_faults + 1

configVars == <<enc_cfg, emits_header>>
layoutVars == <<prep, hor_stride, ver_stride>>
recvVars == <<header_pending, last_keyframe, eos_received, file>>

(***************************************************************************)
(* feedFrame().  A view the RCDL_REQUIREs refuse throws and changes        *)
(* nothing, so there is no step for it.                                    *)
(***************************************************************************)
Accepted(v) ==
  v.fd => /\ v.hor % 16 = 0
          /\ v.ver >= enc_cfg.height /\ v.ver % 2 = 0
          /\ v.bytes >= frameBufferBytes(frameFormat[enc_cfg.format], v.hor, v.ver)

\* A mutant: both strides must differ.
RestridesBoth(v) == v.fd /\ v.hor # hor_stride /\ v.ver # ver_stride

\* The mutex of the JpegEncoder apart, frames are fed by one thread.
Restrides(v) == v.fd /\ (v.hor # hor_stride \/ v.ver # ver_stride)

\* applyStrides(): the control, which may be refused, then the two atomics.
FeedRestriding(v) ==
  /\ enc_pc["feeder"] = "idle" /\ enc_frames < MaxFed
  /\ Accepted(v) /\ Restrides(v)
  /\ \/ /\ prep' = <<v.hor, v.ver>>
        /\ hor_stride' = v.hor
        /\ feeding' = <<v.hor, v.ver>>
        /\ EncGoto("feeder", "ver_stride")
        /\ UNCHANGED enc_faults
     \/ EncFault /\ UNCHANGED <<prep, hor_stride, feeding, enc_pc>>
  /\ UNCHANGED <<configVars, ver_stride, recvVars, enc_eos_fed, enc_frames, enc_inq,
                 enc_outq, keyed, marker>>

StoreVerStride ==
  /\ enc_pc["feeder"] = "ver_stride"
  /\ ver_stride' = feeding[2]
  /\ EncGoto("feeder", "put")
  /\ UNCHANGED <<configVars, prep, hor_stride, recvVars, enc_eos_fed, enc_frames,
                 enc_inq, enc_outq, keyed, feeding, marker, enc_faults>>

\* A dma-buf in the layout already programmed, read in place; or a host image,
\* copied into a staging buffer in the encoder's own layout.
FeedInLayout(v) ==
  /\ enc_pc["feeder"] = "idle" /\ enc_frames < MaxFed
  /\ Accepted(v) /\ ~Restrides(v)
  /\ feeding' = IF v.fd THEN <<v.hor, v.ver>> ELSE Layout
  /\ EncGoto("feeder", "put")
  /\ UNCHANGED <<configVars, layoutVars, recvVars, enc_eos_fed, enc_frames, enc_inq,
                 enc_outq, keyed, marker, enc_faults>>

\* encode_put_frame(): queued; full for the whole timeout (feed() returns
\* false); or an exception, there or from the import or the staging pool.
PutFrame ==
  /\ enc_pc["feeder"] = "put"
  /\ \/ /\ Len(enc_inq) < EncQueueMax
        /\ enc_inq' = Append(enc_inq, [kind |-> "frame", stamp |-> Layout,
                                       buffer |-> feeding, prep |-> prep])
        /\ enc_frames' = enc_frames + 1 /\ UNCHANGED enc_faults
     \/ /\ Len(enc_inq) = EncQueueMax
        /\ UNCHANGED <<enc_inq, enc_frames, enc_faults>>
     \/ EncFault /\ UNCHANGED <<enc_inq, enc_frames>>
  /\ feeding' = NoLayout
  /\ EncGoto("feeder", "idle")
  /\ UNCHANGED <<configVars, layoutVars, recvVars, enc_eos_fed, enc_outq, keyed,
                 marker>>

(***************************************************************************)
(* feedEos(): the flag under its mutex; then the marker, stamped with the  *)
(* two strides, queued if there is room.                                   *)
(***************************************************************************)
\* A mutant: the flag is set without looking at it.
ClaimMarkerAgain(t) ==
  /\ enc_pc[t] = "idle" /\ enc_eos_fed' = TRUE
  /\ EncGoto(t, "marker")
  /\ UNCHANGED <<configVars, layoutVars, recvVars, enc_frames, enc_inq, enc_outq,
                 keyed, feeding, marker, enc_faults>>

ClaimMarker(t) ==
  /\ enc_pc[t] = "idle" /\ ~enc_eos_fed
  /\ enc_eos_fed' = TRUE
  /\ EncGoto(t, "marker")
  /\ UNCHANGED <<configVars, layoutVars, recvVars, enc_frames, enc_inq, enc_outq,
                 keyed, feeding, marker, enc_faults>>

StampMarker(t) ==
  /\ enc_pc[t] = "marker"
  /\ marker' = [marker EXCEPT ![t] = hor_stride]
  /\ EncGoto(t, "put_marker")
  /\ UNCHANGED <<configVars, layoutVars, recvVars, enc_eos_fed, enc_frames, enc_inq,
                 enc_outq, keyed, feeding, enc_faults>>

PutEosMarker(t) ==
  /\ enc_pc[t] = "put_marker"
  /\ enc_inq' = IF Len(enc_inq) < EncQueueMax
                THEN Append(enc_inq, [kind |-> "eos", stamp |-> <<marker[t], ver_stride>>])
                ELSE enc_inq   \* "best effort"
  /\ marker' = [marker EXCEPT ![t] = 0]
  /\ EncGoto(t, "idle")
  /\ UNCHANGED <<configVars, layoutVars, recvVars, enc_eos_fed, enc_frames, enc_outq,
                 keyed, feeding, enc_faults>>

(***************************************************************************)
(* MPP's encoder (external): the first frame is intra, later ones may be;  *)
(* the header is in front of the keyframes the runtime repeats it on.      *)
(***************************************************************************)
EmitsHere == HasHeader /\ (IF keyed THEN "later" ELSE "first") \in emits_header

EncodeStep ==
  /\ enc_inq # <<>>
  /\ enc_inq' = Tail(enc_inq)
  /\ IF Head(enc_inq).kind = "eos"
     THEN /\ enc_outq' = Append(enc_outq, [kind |-> "eos", header |-> FALSE])
          /\ UNCHANGED keyed
     ELSE /\ \E kind \in IF keyed THEN {"key", "delta"} ELSE {"key"} :
               enc_outq' = Append(enc_outq,
                             [kind |-> kind, header |-> kind = "key" /\ EmitsHere])
          /\ keyed' = TRUE
  /\ UNCHANGED <<configVars, layoutVars, recvVars, enc_eos_fed, enc_frames, enc_pc,
                 feeding, marker, enc_faults>>

(***************************************************************************)
(* recv(), of the drainer: nothing it touches is the feeder's.             *)
(***************************************************************************)
\* The packet as MPP emits it.
Written(p) == IF p.header THEN <<"header", p.kind>> ELSE <<p.kind>>

\* A mutant: prepended whatever the runtime has emitted.
WithHeaderTwice(p) ==
  IF p.kind = "key" /\ header_pending THEN <<"header">> \o Written(p) ELSE Written(p)

\* ... and as recv() hands it out: the header goes in front of the first
\* keyframe unless the packet starts with it.
WithHeader(p) ==
  IF p.kind = "key" /\ header_pending /\ ~p.header
  THEN <<"header">> \o Written(p) ELSE Written(p)

EncReceive ==
  /\ enc_pc["drainer"] = "idle" /\ ~eos_received /\ enc_outq # <<>>
  /\ enc_outq' = Tail(enc_outq)
  /\ LET p == Head(enc_outq)
     IN IF p.kind = "eos"
        THEN eos_received' = TRUE
             /\ UNCHANGED <<last_keyframe, header_pending, file>>
        ELSE /\ last_keyframe' = (p.kind = "key")
             /\ header_pending' = (header_pending /\ p.kind # "key")
             /\ file' = file \o WithHeader(p)
             /\ UNCHANGED eos_received
  /\ UNCHANGED <<configVars, layoutVars, enc_eos_fed, enc_frames, enc_inq, keyed,
                 enc_pc, feeding, marker, enc_faults>>

\* mpp::check() throws on encode_get_packet(); no packet was taken.
EncReceiveThrows ==
  /\ enc_pc["drainer"] = "idle" /\ ~eos_received
  /\ EncFault
  /\ UNCHANGED <<configVars, layoutVars, recvVars, enc_eos_fed, enc_frames, enc_inq,
                 enc_outq, keyed, enc_pc, feeding, marker>>

EncNext ==
  \/ \E v \in Views : FeedRestriding(v) \/ FeedInLayout(v)
  \/ StoreVerStride \/ PutFrame
  \/ \E t \in EncThreads : ClaimMarker(t) \/ StampMarker(t) \/ PutEosMarker(t)
  \/ EncodeStep \/ EncReceive \/ EncReceiveThrows

EncSpec == EncInit /\ [][EncNext]_encVars

(***************************************************************************)
(* Properties.                                                             *)
(***************************************************************************)
\* "Writing packets back to back yields a playable file" (video_codec.h): with
\* a codec header, the file begins with it and its first keyframe, whether or
\* not the runtime emits the header itself and receive() fails on the way; a
\* further header is the runtime's own, in front of a later keyframe.
PlayableFile ==
  HasHeader /\ file # <<>> =>
    /\ file[1] = "header" /\ file[2] = "key"
    /\ \A i \in 3..Len(file) :
         file[i] = "header" =>
           "later" \in emits_header /\ i < Len(file) /\ file[i + 1] = "key"

\* "Encoding a buffer with someone else's strides shears the chroma"
\* (applyStrides()): every queued frame is stamped with the layout of its own
\* buffer, dma-buf or staging copy, and MPP had been told that layout.
LayoutMatchesBuffer ==
  \A i \in DOMAIN enc_inq :
    enc_inq[i].kind = "frame" =>
      enc_inq[i].stamp = enc_inq[i].buffer /\ enc_inq[i].prep = enc_inq[i].buffer

\* However the feeder's feedEndOfStream() and the drainer's flush() interleave,
\* one marker at most is queued, and nothing comes after the one drained.
OneEosMarker ==
  LET eos(seq) == Cardinality({i \in DOMAIN seq : seq[i].kind = "eos"})
      claims == Cardinality({t \in EncThreads : enc_pc[t] \in {"marker", "put_marker"}})
  IN  eos(enc_inq) + eos(enc_outq) + claims + (IF eos_received THEN 1 ELSE 0) <= 1

\* "CBR gets a narrow +/- 1/16 corridor around the target" (configure()), for
\* every bit rate the constructor accepts.
BitrateCorridor ==
  LET rc == enc_cfg.set.rc
  IN  rc.bps_min <= rc.bps_target /\ rc.bps_target <= rc.bps_max
=============================================================================

------------------------------ MODULE MCMedia ------------------------------
(* Small values for VideoDecoder, VideoEncoder and JpegCodec, and one run for *)
(* the three: the codec objects share nothing, so in a behaviour `subject`    *)
(* acts and the others stay as constructed.                                   *)
EXTENDS VideoDecoder, VideoEncoder, JpegCodec

VARIABLE subject

MediaInit ==
  /\ subject \in {"decoder", "encoder", "jpeg"}
  /\ Init /\ EncInit /\ JpegInit
  /\ subject # "decoder" => cfg = CHOOSE c \in Configs : TRUE
  /\ subject # "encoder" => enc_cfg.codec = "MJPEG" /\ emits_header = {}

MediaNext ==
  \/ subject = "decoder" /\ Next /\ UNCHANGED <<encVars, jpegVars, subject>>
  \/ subject = "encoder" /\ EncNext /\ UNCHANGED <<vars, jpegVars, subject>>
  \/ subject = "jpeg" /\ JpegNext /\ UNCHANGED <<vars, encVars, subject>>

MediaSpec == MediaInit /\ [][MediaNext]_<<vars, encVars, jpegVars, subject>>

MCConfigs ==
  {[external_buffers |-> TRUE, pool_heap |-> "SystemDma32", buffer_count |-> 0, extra_buffers |-> 2],
   [external_buffers |-> FALSE, pool_heap |-> "System", buffer_count |-> 2, extra_buffers |-> 0]}

\* Deep is Small with bigger slots and more references; Empty is a header whose
\* frames have no size.
Small == [w |-> 15, h |-> 8, hs |-> 16, vs |-> 8, fmt |-> "YUV420SP", buf_size |-> 0, used |-> 0]
Deep  == [w |-> 15, h |-> 8, hs |-> 16, vs |-> 8, fmt |-> "YUV420SP", buf_size |-> 256, used |-> 9]
Empty == [w |-> 15, h |-> 8, hs |-> 0, vs |-> 8, fmt |-> "fbc", buf_size |-> 0, used |-> 0]
MCHeaders == {Small, Deep, Empty}

Base == [codec |-> "H264", width |-> 16, height |-> 18, format |-> "NV12", fps |-> 30,
         bitrate_kbps |-> 4000, gop |-> 0, rc |-> "Cbr", qp |-> 0, profile |-> 0]
MCEncConfigs == {Base, [Base EXCEPT !.codec = "MJPEG", !.rc = "FixQp"],
                 [Base EXCEPT !.bitrate_kbps = 150000]}

\* A host image, and dma-bufs in the encoder's layout and in another.
MCViews == {[fd |-> FALSE, hor |-> 16, ver |-> 18, bytes |-> 432],
            [fd |-> TRUE, hor |-> 16, ver |-> 18, bytes |-> 432],
            [fd |-> TRUE, hor |-> 32, ver |-> 32, bytes |-> 1536]}

\* Baseline, progressive, scan data before the frame header, no frame header,
\* not a JPEG, nothing.
MCFiles == {<<"SOI", "other", "SOF0", "SOS">>, <<"SOI", "SOF1", "SOS">>,
            <<"SOI", "SOF2", "SOS">>, <<"SOI", "SOS", "SOF0">>, <<"SOI", "other">>,
            <<"other">>, <<>>}

Symmetry == Permutations(Holders)
=============================================================================

----------------------------- MODULE JpegCodec -----------------------------
(***************************************************************************)
(* rcdl::JpegEncoder and rcdl::JpegDecoder (src/src/media/jpeg_codec.cc):  *)
(* each call is a feed and a drain under the object's mutex, so one call   *)
(* at a time is modelled.  MPP keeps what a call that gave up has left in  *)
(* it; the decoder resets it, the encoder does not.                        *)
(***************************************************************************)
EXTENDS Integers, SequencesExt

CONSTANTS Files,       \* files to decode: sequences of marker segments
          Images,      \* images to encode
          NoCall,
          MaxJpegCalls \* bound: calls of each object

ASSUME JpegAssumption == NoCall \notin Files \cup Images

\* SOFn markers by what codes them; "cut" is a segment whose length field is
\* broken, or the end of the data inside one; "other" any other segment.
FrameHeaders == {"SOF0", "SOF1", "SOF2", "SOF3", "SOF9"}
isVpuDecodable(marker) == marker \in {"SOF0", "SOF1"}

\* scanJpegHeader(): the first frame header, if no scan data comes before it.
scanJpegHeader(segments) ==
  LET stops == {i \in 2..Len(segments) :
                  segments[i] \in FrameHeaders \cup {"SOS", "cut"}}
      first == CHOOSE i \in stops : \A j \in stops : i <= j
  IN  IF segments = <<>> \/ segments[1] # "SOI" \/ stops = {} THEN "none"
      ELSE IF segments[first] \in FrameHeaders THEN segments[first] ELSE "none"

VARIABLES
  enc_call,      \* the image encode() is on, or NoCall
  enc_asked,     \* history: the images given to encode(), in order
  enc_inside,    \* images MPP's encoder has and no packet has been drained for
  enc_answers,   \* history: of each encode() that returned, [asked, got]
  enc_late,      \* how many times encode() has given up
  dec_call,      \* the file decode() is on: [file, fed], or NoCall
  dec_inside,    \* files MPP's decoder has put and not yet answered
  dec_answer,    \* of the last decode() that returned: [asked, got, error]
  stream_ended,
  dec_calls

jpegEncVars == <<enc_call, enc_asked, enc_inside, enc_answers, enc_late>>
jpegDecVars == <<dec_call, dec_inside, dec_answer, stream_ended, dec_calls>>
jpegVars == <<jpegEncVars, jpegDecVars>>

JpegInit ==
  /\ enc_call = NoCall /\ enc_asked = <<>> /\ enc_inside = <<>>
  /\ enc_answers = <<>> /\ enc_late = 0
  /\ dec_call = NoCall /\ dec_inside = <<>> /\ dec_answer = NoCall
  /\ stream_ended = FALSE /\ dec_calls = 0

(***************************************************************************)
(* JpegEncoder::encode().                                                  *)
(***************************************************************************)
\* The lock and the feed; a feed MPP does not take in time throws and leaves
\* nothing behind.
EncodeFeed(image) ==
  /\ enc_call = NoCall /\ Len(enc_asked) < MaxJpegCalls
  /\ enc_call' = image
  /\ enc_asked' = Append(enc_asked, image)
  /\ enc_inside' = Append(enc_inside, image)
  /\ UNCHANGED <<enc_answers, enc_late, jpegDecVars>>

\* The first packet that comes is the answer.
EncodeReturn ==
  /\ enc_call # NoCall /\ enc_inside # <<>>
  /\ enc_answers' = Append(enc_answers, [asked |-> enc_call, got |-> Head(enc_inside)])
  /\ enc_inside' = Tail(enc_inside)
  /\ enc_call' = NoCall
  /\ UNCHANGED <<enc_asked, enc_late, jpegDecVars>>

\* kEncodeTotalMs have passed, or receive() throws: an exception.
EncodeTimeout ==
  /\ enc_call # NoCall
  /\ enc_call' = NoCall /\ enc_late' = enc_late + 1
  /\ UNCHANGED <<enc_asked, enc_inside, enc_answers, jpegDecVars>>

(***************************************************************************)
(* JpegDecoder::decodeOne().                                               *)
(***************************************************************************)
NoError == "none"   \* lastError() is empty

Answer(file, got, error) ==
  /\ dec_answer' = [asked |-> file, got |-> got, error |-> error]
  /\ dec_call' = NoCall

\* The scan, which alone may answer; then the reset of a context that has had
\* an end of stream, the destination buffer and the packet, all of which may
\* throw.
ResetNever == dec_inside' = dec_inside   \* a mutant

ResetEnded ==
  dec_inside' = IF stream_ended THEN <<>> ELSE dec_inside

DecodeCall(file) ==
  /\ dec_call = NoCall /\ dec_calls < MaxJpegCalls
  /\ dec_calls' = dec_calls + 1
  /\ \/ /\ scanJpegHeader(file) = "none"
        /\ Answer(file, NoCall, "not a JPEG")
        /\ UNCHANGED <<dec_inside, stream_ended>>
     \/ /\ scanJpegHeader(file) # "none" /\ ~isVpuDecodable(scanJpegHeader(file))
        /\ Answer(file, NoCall, "not for the VPU")
        /\ UNCHANGED <<dec_inside, stream_ended>>
     \/ /\ isVpuDecodable(scanJpegHeader(file))
        /\ ResetEnded
        /\ \/ /\ dec_call' = [file |-> file, fed |-> FALSE]
              /\ stream_ended' = TRUE
           \/ /\ stream_ended' \in BOOLEAN    \* throws, before the packet has
              /\ UNCHANGED dec_call          \* its EOS flag or after
        /\ UNCHANGED dec_answer
  /\ UNCHANGED jpegEncVars

DecodePut ==
  /\ dec_call # NoCall /\ ~dec_call.fed
  /\ dec_call' = [dec_call EXCEPT !.fed = TRUE]
  /\ dec_inside' = Append(dec_inside, dec_call.file)
  /\ UNCHANGED <<dec_answer, stream_ended, dec_calls, jpegEncVars>>

\* decode_get_frame() has a picture, good or bad.  (The loop asks for one
\* before the put has succeeded too.)
DecodeGet ==
  /\ dec_call # NoCall /\ dec_inside # <<>>
  /\ \/ Answer(dec_call.file, Head(dec_inside), NoError)
     \/ Answer(dec_call.file, NoCall, "decode error")
  /\ dec_inside' = Tail(dec_inside)
  /\ UNCHANGED <<stream_ended, dec_calls, jpegEncVars>>

DecodeTimeout ==
  /\ dec_call # NoCall
  /\ Answer(dec_call.file, NoCall, IF dec_call.fed THEN "no picture" ELSE "never accepted")
  /\ UNCHANGED <<dec_inside, stream_ended, dec_calls, jpegEncVars>>

JpegNext ==
  \/ \E image \in Images : EncodeFeed(image)
  \/ EncodeReturn \/ EncodeTimeout
  \/ \E file \in Files : DecodeCall(file)
  \/ DecodePut \/ DecodeGet \/ DecodeTimeout

JpegSpec == JpegInit /\ [][JpegNext]_jpegVars

(***************************************************************************)
(* Properties.                                                             *)
(***************************************************************************)
\* "encode() is a feed AND a drain, so it is one transaction: two threads
\* sharing the encoder would otherwise collect each other's images": the JPEG
\* returned is of the image given.
EncodeAnswersItsImage ==
  \A k \in DOMAIN enc_answers : enc_answers[k].got = enc_answers[k].asked

\* decode() returns the picture of the file it was given, however many calls
\* before it gave up on a file MPP still had; lastError() is empty after a
\* success and says something after a failure.  encode() returns the JPEGs in
\* the order of the images, none twice and none left out: until a call gives
\* up each is of the call's own image, and after that each is of the image
\* given as many calls earlier as calls have given up.
AnswersMatchCalls ==
  /\ dec_answer # NoCall =>
       /\ dec_answer.got \in {NoCall, dec_answer.asked}
       /\ (dec_answer.got = NoCall) = (dec_answer.error # NoError)
  /\ \A k \in DOMAIN enc_answers : enc_answers[k].got = enc_asked[k]
  /\ Len(enc_asked) =
       Len(enc_answers) + enc_late + (IF enc_call = NoCall THEN 0 ELSE 1)
  /\ enc_late = 0 => EncodeAnswersItsImage
=============================================================================

---------------------------- MODULE MediaProofs ----------------------------
(***************************************************************************)
(* The codec objects for every set of streams, frames and images, every    *)
(* depth of MPP's queues and every budget of calls and errors.             *)
(***************************************************************************)
EXTENDS VideoEncoder, JpegCodec, SequenceTheorems, FiniteSetTheorems,
        WellFoundedInduction, TLAPS

-----------------------------------------------------------------------------
(* JpegEncoder and JpegDecoder.                                            *)

\* MPP has the last images given, one for each call that gave up and one for
\* the call under way, and those before them are answered, in order.
EncoderInStep ==
  /\ enc_asked \in Seq(Images) /\ enc_inside \in Seq(Images)
  /\ enc_answers \in Seq([asked : Images, got : Images])
  /\ enc_late \in Nat /\ enc_call \in Images \cup {NoCall}
  /\ Len(enc_asked) = Len(enc_answers) + Len(enc_inside)
  /\ Len(enc_inside) = enc_late + (IF enc_call = NoCall THEN 0 ELSE 1)
  /\ \A k \in 1..Len(enc_answers) : enc_answers[k].got = enc_asked[k]
  /\ \A k \in 1..Len(enc_inside) :
       enc_inside[k] = enc_asked[Len(enc_answers) + k]
  /\ enc_call # NoCall => enc_asked[Len(enc_asked)] = enc_call
  /\ enc_late = 0 => EncodeAnswersItsImage

\* What a decode() finds inside is what it put there: stale files only wait
\* in a context that is reset first.
DecoderInStep ==
  /\ dec_call # NoCall =>
       /\ dec_call \in [file : Files, fed : BOOLEAN]
       /\ stream_ended
       /\ dec_call.fed => dec_inside = <<dec_call.file>>
       /\ ~dec_call.fed => dec_inside = <<>>
  /\ stream_ended \in BOOLEAN
  /\ ~stream_ended => dec_inside = <<>>

DecoderAnswersFit ==
  dec_answer # NoCall =>
    /\ dec_answer.got \in {NoCall, dec_answer.asked}
    /\ dec_answer.got = NoCall <=> dec_answer.error # NoError

LEMMA OneElement ==
  ASSUME NEW x
  PROVE  /\ <<x>> # <<>> /\ Head(<<x>>) = x /\ Tail(<<x>>) = <<>>
         /\ Append(<<>>, x) = <<x>>
<1>1. <<x>> \in Seq({x}) /\ Len(<<x>>) = 1 /\ <<x>>[1] = x
  OBVIOUS
<1>2. <<x>> # <<>> /\ Head(<<x>>) = x
  BY <1>1, EmptySeq, HeadTailProperties
<1>3. Tail(<<x>>) \in Seq({x}) /\ Len(Tail(<<x>>)) = 0
  BY <1>1, <1>2, HeadTailProperties
<1>. QED
  BY <1>2, <1>3, EmptySeq

LEMMA Appended ==
  ASSUME NEW S, NEW s \in Seq(S), NEW e \in S
  PROVE  /\ Append(s, e) \in Seq(S)
         /\ Len(Append(s, e)) = Len(s) + 1
         /\ Append(s, e)[Len(s) + 1] = e
         /\ \A k \in 1..Len(s) : Append(s, e)[k] = s[k]
  BY AppendProperties

LEMMA EncodeFeedStep ==
  ASSUME EncoderInStep, NEW image \in Images, EncodeFeed(image)
  PROVE  EncoderInStep'
<1>0. /\ enc_asked \in Seq(Images) /\ enc_inside \in Seq(Images)
      /\ enc_answers \in Seq([asked : Images, got : Images])
      /\ Len(enc_asked) = Len(enc_answers) + Len(enc_inside)
  BY DEF EncoderInStep
<1>1. /\ enc_call = NoCall /\ enc_call' = image /\ image # NoCall
      /\ enc_asked' = Append(enc_asked, image)
      /\ enc_inside' = Append(enc_inside, image)
      /\ enc_answers' = enc_answers /\ enc_late' = enc_late
  BY JpegAssumption DEF EncodeFeed
<1>2. /\ enc_asked' \in Seq(Images) /\ enc_inside' \in Seq(Images)
      /\ Len(enc_asked') = Len(enc_asked) + 1
      /\ Len(enc_inside') = Len(enc_inside) + 1
      /\ enc_asked'[Len(enc_asked')] = image
      /\ enc_inside'[Len(enc_inside')] = image
      /\ \A k \in 1..Len(enc_asked) : enc_asked'[k] = enc_asked[k]
      /\ \A k \in 1..Len(enc_inside) : enc_inside'[k] = enc_inside[k]
  <2>1. /\ enc_asked' \in Seq(Images)
        /\ Len(enc_asked') = Len(enc_asked) + 1
        /\ enc_asked'[Len(enc_asked) + 1] = image
        /\ \A k \in 1..Len(enc_asked) : enc_asked'[k] = enc_asked[k]
    <3>1. /\ Append(enc_asked, image) \in Seq(Images)
          /\ Len(Append(enc_asked, image)) = Len(enc_asked) + 1
          /\ Append(enc_asked, image)[Len(enc_asked) + 1] = image
          /\ \A k \in 1..Len(enc_asked) : Append(enc_asked, image)[k] = enc_asked[k]
      BY <1>0, Appended
    <3>. QED
      BY <1>1, <3>1
  <2>2. /\ enc_inside' \in Seq(Images)
        /\ Len(enc_inside') = Len(enc_inside) + 1
        /\ enc_inside'[Len(enc_inside) + 1] = image
        /\ \A k \in 1..Len(enc_inside) : enc_inside'[k] = enc_inside[k]
    <3>1. /\ Append(enc_inside, image) \in Seq(Images)
          /\ Len(Append(enc_inside, image)) = Len(enc_inside) + 1
          /\ Append(enc_inside, image)[Len(enc_inside) + 1] = image
          /\ \A k \in 1..Len(enc_inside) : Append(enc_inside, image)[k] = enc_inside[k]
      BY <1>0, Appended
    <3>. QED
      BY <1>1, <3>1
  <2>. QED
    BY <2>1, <2>2
<1>3. Len(enc_answers) \in Nat /\ Len(enc_inside) \in Nat
  BY <1>0, LenProperties
<1>4. \A k \in 1..Len(enc_inside') :
        enc_inside'[k] = enc_asked'[Len(enc_answers') + k]
  <2>. SUFFICES ASSUME NEW k \in 1..Len(enc_inside')
                PROVE  enc_inside'[k] = enc_asked'[Len(enc_answers) + k]
    BY <1>1
  <2>1. CASE k \in 1..Len(enc_inside)
    <3>1. Len(enc_answers) + k \in 1..Len(enc_asked)
      BY <1>0, <1>3, <2>1
    <3>. QED
      BY <1>2, <2>1, <3>1 DEF EncoderInStep
  <2>2. CASE k = Len(enc_inside) + 1
    BY <1>0, <1>2, <1>3, <2>2
  <2>. QED
    BY <1>2, <1>3, <2>1, <2>2
<1>5. \A k \in 1..Len(enc_answers') : enc_answers'[k].got = enc_asked'[k]
  <2>. SUFFICES ASSUME NEW k \in 1..Len(enc_answers)
                PROVE  enc_answers[k].got = enc_asked'[k]
    BY <1>1
  <2>1. k \in 1..Len(enc_asked)
    BY <1>0, <1>3
  <2>. QED
    BY <1>2, <2>1 DEF EncoderInStep
<1>6. EncodeAnswersItsImage' <=> EncodeAnswersItsImage
  BY <1>1 DEF EncodeAnswersItsImage
<1>7. Len(enc_inside') = enc_late' + (IF enc_call' = NoCall THEN 0 ELSE 1)
  <2>1. Len(enc_inside) = enc_late
    BY <1>1 DEF EncoderInStep
  <2>. QED
    BY <1>1, <1>2, <2>1
<1>8. Len(enc_asked') = Len(enc_answers') + Len(enc_inside')
  BY <1>0, <1>1, <1>2, <1>3
<1>9. /\ enc_answers' \in Seq([asked : Images, got : Images])
      /\ enc_late' \in Nat /\ enc_call' \in Images \cup {NoCall}
      /\ enc_call' # NoCall => enc_asked'[Len(enc_asked')] = enc_call'
      /\ enc_late' = 0 => EncodeAnswersItsImage'
  BY <1>1, <1>2, <1>6 DEF EncoderInStep
<1>. QED
  BY <1>2, <1>4, <1>5, <1>7, <1>8, <1>9 DEF EncoderInStep

LEMMA EncodeReturnStep ==
  ASSUME EncoderInStep, EncodeReturn
  PROVE  EncoderInStep'
<1>. USE DEF EncoderInStep
<1>. DEFINE new == [asked |-> enc_call, got |-> Head(enc_inside)]
<1>1. /\ enc_call \in Images /\ enc_call' = NoCall /\ enc_inside # <<>>
      /\ enc_answers' = Append(enc_answers, new)
      /\ enc_inside' = Tail(enc_inside)
      /\ enc_asked' = enc_asked /\ enc_late' = enc_late
  BY DEF EncodeReturn
<1>2. /\ enc_inside' \in Seq(Images) /\ Len(enc_inside) >= 1
      /\ Head(enc_inside) = enc_inside[1] /\ Head(enc_inside) \in Images
      /\ Len(enc_inside') = Len(enc_inside) - 1
      /\ \A k \in 1..Len(enc_inside') : enc_inside'[k] = enc_inside[k + 1]
  BY <1>1, HeadTailProperties, EmptySeq, LenProperties
<1>3. new \in [asked : Images, got : Images]
  BY <1>1, <1>2
<1>4. /\ enc_answers' \in Seq([asked : Images, got : Images])
      /\ Len(enc_answers') = Len(enc_answers) + 1
      /\ enc_answers'[Len(enc_answers')] = new
      /\ \A k \in 1..Len(enc_answers) : enc_answers'[k] = enc_answers[k]
  BY <1>1, <1>3, AppendProperties
<1>5. Len(enc_answers) \in Nat /\ Len(enc_inside) \in Nat
  BY LenProperties
<1>6. \A k \in 1..Len(enc_answers') : enc_answers'[k].got = enc_asked'[k]
  <2>. SUFFICES ASSUME NEW k \in 1..Len(enc_answers')
                PROVE  enc_answers'[k].got = enc_asked[k]
    BY <1>1
  <2>1. CASE k \in 1..Len(enc_answers)
    BY <1>4, <2>1
  <2>2. CASE k = Len(enc_answers) + 1
    <3>1. enc_inside[1] = enc_asked[Len(enc_answers) + 1]
      BY <1>2, <1>5
    <3>. QED
      BY <1>2, <1>4, <2>2, <3>1
  <2>. QED
    BY <1>4, <1>5, <2>1, <2>2
<1>7. \A k \in 1..Len(enc_inside') :
        enc_inside'[k] = enc_asked'[Len(enc_answers') + k]
  <2>. SUFFICES ASSUME NEW k \in 1..Len(enc_inside')
                PROVE  enc_inside'[k] = enc_asked[Len(enc_answers) + 1 + k]
    BY <1>1, <1>4
  <2>1. /\ k + 1 \in 1..Len(enc_inside)
        /\ Len(enc_answers) + (k + 1) = Len(enc_answers) + 1 + k
    BY <1>2, <1>5
  <2>. QED
    BY <1>2, <2>1
<1>8. enc_late' = 0 => EncodeAnswersItsImage'
  <2>. SUFFICES ASSUME enc_late = 0
                PROVE  EncodeAnswersItsImage'
    BY <1>1
  <2>1. enc_call # NoCall
    BY <1>1, JpegAssumption
  <2>2. Len(enc_inside) = 1 /\ Len(enc_asked) = Len(enc_answers) + 1
    BY <1>5, <2>1
  <2>3. enc_inside[1] = enc_call
    BY <1>5, <2>1, <2>2
  <2>4. new.got = new.asked
    BY <1>2, <2>3
  <2>5. \A k \in 1..Len(enc_answers) : enc_answers[k].got = enc_answers[k].asked
    BY DEF EncodeAnswersItsImage
  <2>6. \A k \in 1..Len(enc_answers') : enc_answers'[k].got = enc_answers'[k].asked
    <3>. SUFFICES ASSUME NEW k \in 1..Len(enc_answers')
                  PROVE  enc_answers'[k].got = enc_answers'[k].asked
      OBVIOUS
    <3>1. k \in 1..Len(enc_answers) \/ k = Len(enc_answers')
      BY <1>4, <1>5
    <3>2. CASE k \in 1..Len(enc_answers)
      BY <1>4, <2>5, <3>2
    <3>3. CASE k = Len(enc_answers')
      BY <1>4, <2>4, <3>3
    <3>. QED
      BY <3>1, <3>2, <3>3
  <2>. QED
    BY <1>4, <2>6 DEF EncodeAnswersItsImage
<1>9. Len(enc_inside') = enc_late' + (IF enc_call' = NoCall THEN 0 ELSE 1)
  BY <1>1, <1>2, <1>5, JpegAssumption
<1>10. Len(enc_asked') = Len(enc_answers') + Len(enc_inside')
  <2>1. Len(enc_asked) = Len(enc_answers) + Len(enc_inside)
    OBVIOUS
  <2>. QED
    BY <1>1, <1>2, <1>4, <1>5, <2>1
<1>. QED
  BY <1>1, <1>2, <1>4, <1>6, <1>7, <1>8, <1>9, <1>10

LEMMA EncoderKeepsStep ==
  ASSUME EncoderInStep, [JpegNext]_jpegVars
  PROVE  EncoderInStep'
<1>1. ASSUME NEW image \in Images, EncodeFeed(image)
      PROVE  EncoderInStep'
  BY <1>1, EncodeFeedStep
<1>2. CASE EncodeReturn
  BY <1>2, EncodeReturnStep
<1>3. CASE EncodeTimeout
  <2>1. /\ enc_call # NoCall /\ enc_call' = NoCall /\ enc_late' = enc_late + 1
        /\ UNCHANGED <<enc_asked, enc_inside, enc_answers>>
    BY <1>3 DEF EncodeTimeout
  <2>2. Len(enc_inside) = enc_late + 1 /\ enc_late \in Nat
    BY <2>1 DEF EncoderInStep
  <2>3. /\ Len(enc_inside') = enc_late' + (IF enc_call' = NoCall THEN 0 ELSE 1)
        /\ enc_late' \in Nat /\ enc_late' # 0
    BY <2>1, <2>2
  <2>. QED
    BY <2>1, <2>3 DEF EncoderInStep
<1>4. UNCHANGED jpegEncVars => EncoderInStep'
  BY DEF jpegEncVars, EncoderInStep, EncodeAnswersItsImage
<1>5. ASSUME NEW f \in Files, DecodeCall(f)
      PROVE  UNCHANGED jpegEncVars
  BY <1>5 DEF DecodeCall
<1>6. CASE DecodePut \/ DecodeGet \/ DecodeTimeout \/ UNCHANGED jpegVars
  <2>1. UNCHANGED jpegEncVars
    BY <1>6 DEF DecodePut, DecodeGet, DecodeTimeout, jpegVars
  <2>. QED
    BY <1>4, <2>1
<1>. QED
  BY <1>1, <1>2, <1>3, <1>4, <1>5, <1>6 DEF JpegNext

LEMMA DecoderKeepsStep ==
  ASSUME DecoderInStep, DecoderAnswersFit, [JpegNext]_jpegVars
  PROVE  DecoderInStep' /\ DecoderAnswersFit'
<1>. USE DEF DecoderInStep
<1>1. ASSUME NEW asked, NEW got \in {NoCall, asked}, NEW error,
             got = NoCall <=> error # NoError, Answer(asked, got, error)
      PROVE  DecoderAnswersFit' /\ dec_call' = NoCall
  BY <1>1 DEF Answer, DecoderAnswersFit, NoError
<1>2. UNCHANGED dec_answer => DecoderAnswersFit'
  BY DEF DecoderAnswersFit, NoError
<1>3. ASSUME NEW f \in Files, DecodeCall(f)
      PROVE  DecoderInStep' /\ DecoderAnswersFit'
  <2>1. dec_call = NoCall
    BY <1>3 DEF DecodeCall
  <2>2. CASE UNCHANGED <<dec_inside, stream_ended>>
             /\ \E e \in {"not a JPEG", "not for the VPU"} :
                  Answer(f, NoCall, e)
    <3>1. PICK e \in {"not a JPEG", "not for the VPU"} : Answer(f, NoCall, e)
      BY <2>2
    <3>2. e # NoError
      BY DEF NoError
    <3>3. DecoderAnswersFit' /\ dec_call' = NoCall
      BY <1>1, <3>1, <3>2
    <3>. QED
      BY <2>1, <2>2, <3>3
  <2>3. CASE /\ ResetEnded /\ UNCHANGED dec_answer
             /\ \/ /\ dec_call' = [file |-> f, fed |-> FALSE]
                   /\ stream_ended' = TRUE
                \/ /\ stream_ended' \in BOOLEAN
                   /\ UNCHANGED dec_call
    <3>1. dec_inside' = <<>>
      BY <2>3 DEF ResetEnded
    <3>2. CASE /\ dec_call' = [file |-> f, fed |-> FALSE]
               /\ stream_ended' = TRUE
      BY <1>2, <2>3, <3>1, <3>2
    <3>3. CASE stream_ended' \in BOOLEAN /\ UNCHANGED dec_call
      BY <1>2, <2>1, <2>3, <3>1, <3>3
    <3>. QED
      BY <2>3, <3>2, <3>3
  <2>. QED
    BY <1>3, <2>2, <2>3 DEF DecodeCall
<1>4. CASE DecodePut
  BY <1>2, <1>4, OneElement DEF DecodePut
<1>5. CASE DecodeGet
  <2>1. /\ dec_call # NoCall /\ dec_inside # <<>>
        /\ dec_inside' = Tail(dec_inside) /\ UNCHANGED stream_ended
    BY <1>5 DEF DecodeGet
  <2>2. /\ dec_inside = <<dec_call.file>> /\ dec_call.file \in Files
        /\ Head(dec_inside) = dec_call.file
    BY <2>1, OneElement
  <2>3. dec_call.file # NoCall
    BY <2>2, JpegAssumption
  <2>4. \E e \in {NoError, "decode error"} :
          \E got \in {NoCall, dec_call.file} :
             /\ got = NoCall <=> e # NoError
             /\ Answer(dec_call.file, got, e)
    BY <1>5, <2>2, <2>3 DEF DecodeGet, NoError
  <2>5. DecoderAnswersFit' /\ dec_call' = NoCall
    BY <1>1, <2>4
  <2>. QED
    BY <2>1, <2>5
<1>6. CASE DecodeTimeout
  <2>1. \E e \in {"no picture", "never accepted"} :
          Answer(dec_call.file, NoCall, e)
    BY <1>6 DEF DecodeTimeout
  <2>2. \A e \in {"no picture", "never accepted"} : e # NoError
    BY DEF NoError
  <2>3. DecoderAnswersFit' /\ dec_call' = NoCall
    BY <1>1, <2>1, <2>2
  <2>. QED
    BY <1>6, <2>3 DEF DecodeTimeout
<1>7. UNCHANGED jpegDecVars => DecoderInStep' /\ DecoderAnswersFit'
  BY <1>2 DEF jpegDecVars
<1>8. ASSUME \/ \E image \in Images : EncodeFeed(image)
             \/ EncodeReturn \/ EncodeTimeout \/ UNCHANGED jpegVars
      PROVE  UNCHANGED jpegDecVars
  BY <1>8 DEF EncodeFeed, EncodeReturn, EncodeTimeout, jpegVars
<1>. HIDE DEF DecoderInStep
<1>. QED
  BY <1>3, <1>4, <1>5, <1>6, <1>7, <1>8 DEF JpegNext

\* decode() answers for the file it was given, whatever earlier calls left
\* behind.  encode() answers for its image until a call has given up; from then
\* on for the image given as many calls earlier as calls have given up, with no
\* image answered twice or left out.
THEOREM JpegCallsAreAnswered == JpegSpec => []AnswersMatchCalls
<1>1. JpegInit => EncoderInStep /\ DecoderInStep /\ DecoderAnswersFit
  <2>. SUFFICES ASSUME JpegInit
                PROVE  EncoderInStep /\ DecoderInStep /\ DecoderAnswersFit
    OBVIOUS
  <2>1. \A S : <<>> \in Seq(S)
    OBVIOUS
  <2>2. Len(<<>>) = 0 /\ \A k : k \notin 1..0 /\ k \notin DOMAIN <<>>
    OBVIOUS
  <2>3. EncoderInStep
    BY <2>1, <2>2 DEF JpegInit, EncoderInStep, EncodeAnswersItsImage
  <2>. QED
    BY <2>3 DEF JpegInit, DecoderInStep, DecoderAnswersFit
<1>2. EncoderInStep /\ DecoderAnswersFit => AnswersMatchCalls
  <2>. SUFFICES ASSUME EncoderInStep, DecoderAnswersFit
                PROVE  AnswersMatchCalls
    OBVIOUS
  <2>1. DOMAIN enc_answers = 1..Len(enc_answers) /\ Len(enc_answers) \in Nat
    BY LenProperties DEF EncoderInStep
  <2>2. \A k \in DOMAIN enc_answers : enc_answers[k].got = enc_asked[k]
    BY <2>1 DEF EncoderInStep
  <2>3. Len(enc_asked) =
          Len(enc_answers) + enc_late + (IF enc_call = NoCall THEN 0 ELSE 1)
    <3>. DEFINE busy == IF enc_call = NoCall THEN 0 ELSE 1
    <3>1. /\ Len(enc_asked) = Len(enc_answers) + Len(enc_inside)
          /\ Len(enc_inside) = enc_late + busy /\ enc_late \in Nat
      BY DEF EncoderInStep
    <3>2. busy \in {0, 1}
      OBVIOUS
    <3>. HIDE DEF busy
    <3>3. Len(enc_asked) = Len(enc_answers) + enc_late + busy
      BY <2>1, <3>1, <3>2
    <3>. QED
      BY <3>3 DEF busy
  <2>4. enc_late = 0 => EncodeAnswersItsImage
    BY DEF EncoderInStep
  <2>. QED
    BY <2>2, <2>3, <2>4 DEF DecoderAnswersFit, AnswersMatchCalls
<1>. QED
  BY <1>1, <1>2, EncoderKeepsStep, DecoderKeepsStep, PTL DEF JpegSpec

-----------------------------------------------------------------------------
(* Counting the end-of-stream markers of a queue.                          *)

EosAt(seq) == {i \in DOMAIN seq : seq[i].kind = "eos"}

LEMMA EosAtIsFinite ==
  ASSUME NEW T, NEW s \in Seq(T)
  PROVE  /\ IsFiniteSet(EosAt(s)) /\ EosAt(s) \subseteq 1 .. Len(s)
         /\ Cardinality(EosAt(s)) \in Nat
<1>1. EosAt(s) \subseteq 1 .. Len(s) /\ Len(s) \in Nat
  BY LenProperties DEF EosAt
<1>2. IsFiniteSet(1 .. Len(s))
  BY <1>1, FS_Interval
<1>3. IsFiniteSet(EosAt(s))
  BY <1>1, <1>2, FS_Subset
<1>. QED
  BY <1>1, <1>3, FS_CardinalityType

LEMMA NoEosInEmpty == EosAt(<<>>) = {} /\ Cardinality(EosAt(<<>>)) = 0
<1>1. EosAt(<<>>) = {}
  BY EmptySeq, LenProperties DEF EosAt
<1>. QED
  BY <1>1, FS_EmptySet

LEMMA EosAppend ==
  ASSUME NEW T, NEW s \in Seq(T), NEW x \in T
  PROVE  Cardinality(EosAt(Append(s, x))) =
           Cardinality(EosAt(s)) + IF x.kind = "eos" THEN 1 ELSE 0
<1>1. /\ DOMAIN s = 1 .. Len(s) /\ Len(s) \in Nat
      /\ DOMAIN Append(s, x) = 1 .. (Len(s) + 1)
      /\ Append(s, x)[Len(s) + 1] = x
      /\ \A i \in 1 .. Len(s) : Append(s, x)[i] = s[i]
  <2>1. Append(s, x) \in Seq(T) /\ Len(Append(s, x)) = Len(s) + 1
    BY AppendProperties
  <2>. QED
    BY <2>1, LenProperties, AppendProperties
<1>2. IsFiniteSet(EosAt(s)) /\ Cardinality(EosAt(s)) \in Nat
      /\ Len(s) + 1 \notin EosAt(s)
  BY <1>1, EosAtIsFinite
<1>3. \A i \in 1 .. (Len(s) + 1) : i = Len(s) + 1 \/ i \in 1 .. Len(s)
  BY <1>1
<1>4. CASE x.kind = "eos"
  <2>1. EosAt(Append(s, x)) = EosAt(s) \cup {Len(s) + 1}
    BY <1>1, <1>3, <1>4 DEF EosAt
  <2>. QED
    BY <1>2, <1>4, <2>1, FS_AddElement
<1>5. CASE x.kind # "eos"
  <2>1. EosAt(Append(s, x)) = EosAt(s)
    BY <1>1, <1>3, <1>5 DEF EosAt
  <2>. QED
    BY <1>2, <1>5, <2>1
<1>. QED
  BY <1>4, <1>5

LEMMA EosTail ==
  ASSUME NEW T, NEW s \in Seq(T), s # <<>>
  PROVE  Cardinality(EosAt(s)) =
           Cardinality(EosAt(Tail(s))) + IF Head(s).kind = "eos" THEN 1 ELSE 0
<1>. DEFINE A == EosAt(Tail(s))
            B == EosAt(s) \ {1}
            f == [i \in A |-> i + 1]
<1>1. /\ Len(s) \in Nat /\ Len(s) >= 1 /\ Len(Tail(s)) = Len(s) - 1
      /\ DOMAIN s = 1 .. Len(s) /\ DOMAIN Tail(s) = 1 .. Len(Tail(s))
      /\ \A i \in 1 .. Len(Tail(s)) : Tail(s)[i] = s[i + 1]
      /\ Tail(s) \in Seq(T) /\ Head(s) = s[1]
  BY EmptySeq, HeadTailProperties, LenProperties
<1>2. /\ IsFiniteSet(A) /\ IsFiniteSet(EosAt(s))
      /\ Cardinality(A) \in Nat /\ Cardinality(EosAt(s)) \in Nat
      /\ A \subseteq 1 .. Len(Tail(s)) /\ EosAt(s) \subseteq 1 .. Len(s)
  BY <1>1, EosAtIsFinite
<1>3. \A i \in 1 .. Len(Tail(s)) : i \in A <=> i + 1 \in B
  BY <1>1 DEF EosAt
<1>4. \A j \in B : j - 1 \in 1 .. Len(Tail(s)) /\ (j - 1) + 1 = j
  BY <1>1, <1>2
<1>5. f \in Bijection(A, B)
  <2>1. \A i \in A : f[i] \in B /\ f[i] = i + 1
    BY <1>2, <1>3
  <2>2. f \in [A -> B]
    BY <2>1
  <2>3. \A i, j \in A : f[i] = f[j] => i = j
    BY <1>2, <2>1
  <2>4. \A j \in B : \E i \in A : f[i] = j
    BY <1>3, <1>4, <2>1
  <2>. HIDE DEF f, A, B
  <2>. QED
    BY <2>2, <2>3, <2>4 DEF Bijection, Injection, Surjection, IsInjective
<1>6. Cardinality(B) = Cardinality(A)
  <2>. HIDE DEF f, A, B
  <2>1. ExistsBijection(A, B)
    BY <1>5 DEF ExistsBijection
  <2>. QED
    BY <1>2, <2>1, FS_Bijection
<1>7. Cardinality(B) = IF 1 \in EosAt(s) THEN Cardinality(EosAt(s)) - 1
                       ELSE Cardinality(EosAt(s))
  BY <1>2, FS_RemoveElement
<1>8. 1 \in EosAt(s) <=> Head(s).kind = "eos"
  BY <1>1 DEF EosAt
<1>. HIDE DEF f, A, B
<1>. QED
  BY <1>2, <1>6, <1>7, <1>8 DEF A


-----------------------------------------------------------------------------
(* VideoEncoder.                                                           *)

Strides == Int \X Int

EncItems ==
  [kind : {"frame"}, stamp : Strides, buffer : Strides, prep : Strides]
    \cup [kind : {"eos"}, stamp : Strides]

EncPackets == [kind : {"eos", "key", "delta"}, header : BOOLEAN]

EncPlaces == {"idle", "ver_stride", "put", "marker", "put_marker"}

LayoutOK ==
  /\ hor_stride \in Int /\ ver_stride \in Int /\ prep \in Strides
  /\ feeding \in Strides /\ marker \in [EncThreads -> Int]

EncQueuesOK ==
  /\ enc_inq \in Seq(EncItems) /\ enc_outq \in Seq(EncPackets)
  /\ file \in Seq({"header", "key", "delta"})

EncFlagsOK ==
  /\ header_pending \in BOOLEAN /\ eos_received \in BOOLEAN
  /\ enc_eos_fed \in BOOLEAN /\ keyed \in BOOLEAN
  /\ emits_header \in SUBSET Keyframes /\ HasHeader \in BOOLEAN

EncTypes ==
  /\ LayoutOK /\ EncQueuesOK /\ EncFlagsOK
  /\ enc_pc \in [EncThreads -> EncPlaces]

LEMMA InitEncTypes == EncInit => EncTypes
<1>. SUFFICES ASSUME EncInit PROVE EncTypes
  OBVIOUS
<1>1. hor_stride \in Int /\ ver_stride \in Int
  <2>1. PICK c \in {k \in EncConfigs : ValidConfig(k)} :
          /\ hor_stride = horStrideBytes(c.width, c.format)
          /\ ver_stride = verStrideRows(c.height)
    BY DEF EncInit
  <2>2. c.width \in Int /\ c.height \in Int
    BY EncoderAssumption
  <2>3. \A v \in Int : alignUp(v, 16) \in Int
    BY DEF alignUp
  <2>4. bytesPerPixel(c.format) \in Int
    BY DEF bytesPerPixel
  <2>. QED
    BY <2>1, <2>2, <2>3, <2>4 DEF horStrideBytes, verStrideRows
<1>2. LayoutOK
  BY <1>1 DEF EncInit, LayoutOK, Layout, NoLayout, Strides
<1>3. EncQueuesOK
  BY EmptySeq DEF EncInit, EncQueuesOK
<1>4. EncFlagsOK
  <2>1. PICK c \in {k \in EncConfigs : ValidConfig(k)}, extra \in BOOLEAN :
          /\ enc_cfg = [codec |-> c.codec, format |-> c.format, height |-> c.height,
                        extra |-> extra, set |-> configure(c)]
          /\ header_pending = extra
    BY DEF EncInit
  <2>2. HasHeader \in BOOLEAN /\ header_pending \in BOOLEAN
    BY <2>1 DEF HasHeader
  <2>. QED
    BY <2>2 DEF EncInit, EncFlagsOK
<1>. QED
  BY <1>2, <1>3, <1>4 DEF EncInit, EncTypes, EncPlaces

LEMMA EncKept ==
  /\ LayoutOK /\ UNCHANGED <<layoutVars, feeding, marker>> => LayoutOK'
  /\ EncQueuesOK /\ UNCHANGED <<enc_inq, enc_outq, file>> => EncQueuesOK'
  /\ EncFlagsOK /\ UNCHANGED <<header_pending, eos_received, enc_eos_fed,
                               keyed, configVars>> => EncFlagsOK'
<1>1. LayoutOK /\ UNCHANGED <<layoutVars, feeding, marker>> => LayoutOK'
  BY DEF LayoutOK, layoutVars
<1>2. EncQueuesOK /\ UNCHANGED <<enc_inq, enc_outq, file>> => EncQueuesOK'
  BY DEF EncQueuesOK
<1>3. EncFlagsOK /\ UNCHANGED <<header_pending, eos_received, enc_eos_fed,
                                keyed, configVars>> => EncFlagsOK'
  BY DEF EncFlagsOK, configVars, HasHeader
<1>. QED
  BY <1>1, <1>2, <1>3

LEMMA EncGotoTypes ==
  ASSUME EncTypes, NEW t \in EncThreads, NEW where \in EncPlaces,
         EncGoto(t, where)
  PROVE  /\ enc_pc' \in [EncThreads -> EncPlaces]
         /\ enc_pc'[t] = where
         /\ \A u \in EncThreads : u # t => enc_pc'[u] = enc_pc[u]
  BY DEF EncTypes, EncGoto

LEMMA FeederEncTypes ==
  ASSUME EncTypes,
         \/ \E v \in Views : FeedRestriding(v) \/ FeedInLayout(v)
         \/ StoreVerStride \/ PutFrame
  PROVE  EncTypes'
<1>. USE EncKept DEF EncTypes, layoutVars, configVars, recvVars
<1>0. "feeder" \in EncThreads /\ EncPlaces = {"idle", "ver_stride", "put", "marker", "put_marker"}
  BY DEF EncThreads, EncPlaces
<1>1. ASSUME NEW v \in Views, FeedRestriding(v) PROVE EncTypes'
  <2>1. v.hor \in Int /\ v.ver \in Int
    BY EncoderAssumption
  <2>2. LayoutOK'
    BY <1>1, <2>1 DEF FeedRestriding, LayoutOK, Strides
  <2>3. enc_pc' \in [EncThreads -> EncPlaces]
    BY <1>0, <1>1, EncGotoTypes DEF FeedRestriding
  <2>. QED
    BY <1>1, <2>2, <2>3 DEF FeedRestriding
<1>2. ASSUME NEW v \in Views, FeedInLayout(v) PROVE EncTypes'
  <2>1. v.hor \in Int /\ v.ver \in Int
    BY EncoderAssumption
  <2>2. LayoutOK'
    BY <1>2, <2>1 DEF FeedInLayout, LayoutOK, Strides, Layout
  <2>3. enc_pc' \in [EncThreads -> EncPlaces]
    BY <1>0, <1>2, EncGotoTypes DEF FeedInLayout
  <2>. QED
    BY <1>2, <2>2, <2>3 DEF FeedInLayout
<1>3. CASE StoreVerStride
  <2>1. LayoutOK'
    BY <1>3 DEF StoreVerStride, LayoutOK, Strides
  <2>2. enc_pc' \in [EncThreads -> EncPlaces]
    BY <1>0, <1>3, EncGotoTypes DEF StoreVerStride
  <2>. QED
    BY <1>3, <2>1, <2>2 DEF StoreVerStride
<1>4. CASE PutFrame
  <2>1. [kind |-> "frame", stamp |-> Layout, buffer |-> feeding, prep |-> prep]
          \in EncItems
    BY DEF LayoutOK, Layout, EncItems, Strides
  <2>2. EncQueuesOK'
    <3>1. \/ UNCHANGED enc_inq
          \/ enc_inq' = Append(enc_inq, [kind |-> "frame", stamp |-> Layout,
                                         buffer |-> feeding, prep |-> prep])
      BY <1>4, Zenon DEF PutFrame
    <3>2. enc_inq' \in Seq(EncItems)
      BY <2>1, <3>1, AppendProperties DEF EncQueuesOK
    <3>. QED
      BY <1>4, <3>2 DEF PutFrame, EncQueuesOK
  <2>3. LayoutOK'
    BY <1>4 DEF PutFrame, LayoutOK, Strides, NoLayout
  <2>4. enc_pc' \in [EncThreads -> EncPlaces]
    BY <1>0, <1>4, EncGotoTypes DEF PutFrame
  <2>. QED
    BY <1>4, <2>2, <2>3, <2>4 DEF PutFrame
<1>. HIDE DEF EncTypes
<1>. QED
  BY <1>1, <1>2, <1>3, <1>4

LEMMA MarkerEncTypes ==
  ASSUME EncTypes, NEW t \in EncThreads,
         ClaimMarker(t) \/ StampMarker(t) \/ PutEosMarker(t)
  PROVE  EncTypes'
<1>. USE EncKept DEF EncTypes, layoutVars, configVars, recvVars
<1>0. EncPlaces = {"idle", "ver_stride", "put", "marker", "put_marker"}
  BY DEF EncPlaces
<1>1. CASE ClaimMarker(t)
  <2>1. EncFlagsOK'
    BY <1>1 DEF ClaimMarker, EncFlagsOK, HasHeader
  <2>2. enc_pc' \in [EncThreads -> EncPlaces]
    BY <1>0, <1>1, EncGotoTypes DEF ClaimMarker
  <2>. QED
    BY <1>1, <2>1, <2>2 DEF ClaimMarker
<1>2. CASE StampMarker(t)
  <2>1. LayoutOK'
    BY <1>2 DEF StampMarker, LayoutOK
  <2>2. enc_pc' \in [EncThreads -> EncPlaces]
    BY <1>0, <1>2, EncGotoTypes DEF StampMarker
  <2>. QED
    BY <1>2, <2>1, <2>2 DEF StampMarker
<1>3. CASE PutEosMarker(t)
  <2>1. [kind |-> "eos", stamp |-> <<marker[t], ver_stride>>] \in EncItems
    BY DEF LayoutOK, EncItems, Strides
  <2>2. EncQueuesOK'
    BY <1>3, <2>1, AppendProperties DEF PutEosMarker, EncQueuesOK
  <2>3. LayoutOK'
    BY <1>3 DEF PutEosMarker, LayoutOK
  <2>4. enc_pc' \in [EncThreads -> EncPlaces]
    BY <1>0, <1>3, EncGotoTypes DEF PutEosMarker
  <2>. QED
    BY <1>3, <2>2, <2>3, <2>4 DEF PutEosMarker
<1>. HIDE DEF EncTypes
<1>. QED
  BY <1>1, <1>2, <1>3

\* What the coder makes of the head of its queue.
LEMMA CodedPacket ==
  ASSUME EncodeStep, EncTypes
  PROVE  \E p \in EncPackets :
           /\ enc_outq' = Append(enc_outq, p)
           /\ p.kind = "eos" <=> Head(enc_inq).kind = "eos"
           /\ p.header =>
                p.kind = "key" /\ HasHeader /\ (~keyed \/ "later" \in emits_header)
           /\ p.kind # "eos" /\ ~keyed => p.kind = "key"
           /\ keyed' <=> (keyed \/ p.kind # "eos")
<1>1. CASE Head(enc_inq).kind = "eos"
  <2>. DEFINE p == [kind |-> "eos", header |-> FALSE]
  <2>1. p \in EncPackets /\ p.kind = "eos" /\ ~p.header
    BY DEF EncPackets
  <2>2. enc_outq' = Append(enc_outq, p) /\ keyed' = keyed
    BY <1>1 DEF EncodeStep
  <2>. HIDE DEF p
  <2>. QED
    BY <1>1, <2>1, <2>2
<1>2. CASE Head(enc_inq).kind # "eos"
  <2>1. PICK kind \in IF keyed THEN {"key", "delta"} ELSE {"key"} :
          enc_outq' = Append(enc_outq,
                        [kind |-> kind, header |-> kind = "key" /\ EmitsHere])
    BY <1>2 DEF EncodeStep
  <2>. DEFINE h == kind = "key" /\ EmitsHere
              p == [kind |-> kind, header |-> h]
  <2>2. h \in BOOLEAN
    OBVIOUS
  <2>3. h => kind = "key" /\ HasHeader /\ (~keyed \/ "later" \in emits_header)
    BY DEF EmitsHere
  <2>4. keyed' = TRUE /\ keyed \in BOOLEAN /\ enc_outq' = Append(enc_outq, p)
    BY <1>2, <2>1 DEF EncodeStep, EncTypes, EncFlagsOK
  <2>. HIDE DEF h
  <2>5. p \in EncPackets /\ p.kind = kind /\ p.header = h
    BY <2>1, <2>2 DEF EncPackets
  <2>6. kind \in {"key", "delta"} /\ (~keyed => kind = "key")
    BY <2>1
  <2>. HIDE DEF p
  <2>. QED
    BY <1>2, <2>3, <2>4, <2>5, <2>6
<1>. QED
  BY <1>1, <1>2

\* What the decoder of packets gets: a frame's packet, or the marker's.
LEMMA CodingTypes ==
  ASSUME EncTypes,
         EncodeStep \/ EncReceive \/ EncReceiveThrows \/ UNCHANGED encVars
  PROVE  EncTypes'
<1>. USE EncKept DEF EncTypes, layoutVars, configVars, recvVars
<1>1. CASE EncodeStep
  <2>1. enc_inq' \in Seq(EncItems)
    BY <1>1, HeadTailProperties DEF EncodeStep, EncQueuesOK
  <2>2. \E p \in EncPackets : enc_outq' = Append(enc_outq, p)
    BY <1>1, CodedPacket
  <2>3. EncQueuesOK'
    BY <1>1, <2>1, <2>2, AppendProperties DEF EncodeStep, EncQueuesOK
  <2>4. EncFlagsOK'
    BY <1>1 DEF EncodeStep, EncFlagsOK, HasHeader
  <2>. QED
    BY <1>1, <2>3, <2>4 DEF EncodeStep
<1>2. CASE EncReceive
  <2>1. Head(enc_outq) \in EncPackets /\ enc_outq' \in Seq(EncPackets)
    BY <1>2, HeadTailProperties DEF EncReceive, EncQueuesOK
  <2>2. \A p \in EncPackets : p.kind # "eos" =>
          WithHeader(p) \in Seq({"header", "key", "delta"})
    <3>. DEFINE Words == {"header", "key", "delta"}
    <3>1. TAKE p \in EncPackets
    <3>2. HAVE p.kind # "eos"
    <3>3. p.kind \in {"key", "delta"}
      BY <3>2 DEF EncPackets
    <3>4. /\ <<"header">> \in Seq(Words) /\ <<p.kind>> \in Seq(Words)
          /\ <<"header", p.kind>> \in Seq(Words)
      BY <3>3
    <3>5. Written(p) \in Seq(Words)
      BY <3>4 DEF Written
    <3>. QED
      BY <3>4, <3>5, ConcatProperties DEF WithHeader
  <2>3. file' \in Seq({"header", "key", "delta"})
    BY <1>2, <2>1, <2>2, ConcatProperties DEF EncReceive, EncQueuesOK
  <2>4. EncQueuesOK'
    BY <1>2, <2>1, <2>3 DEF EncReceive, EncQueuesOK
  <2>5. EncFlagsOK'
    BY <1>2 DEF EncReceive, EncFlagsOK, HasHeader
  <2>. QED
    BY <1>2, <2>4, <2>5 DEF EncReceive
<1>3. CASE EncReceiveThrows \/ UNCHANGED encVars
  BY <1>3 DEF EncReceiveThrows, encVars
<1>. HIDE DEF EncTypes
<1>. QED
  BY <1>1, <1>2, <1>3

LEMMA EncTypesStep == EncTypes /\ [EncNext]_encVars => EncTypes'
  BY FeederEncTypes, MarkerEncTypes, CodingTypes DEF EncNext

(***************************************************************************)
(* LayoutMatchesBuffer.  Between applyStrides()'s control and the second   *)
(* atomic the programmed layout is the frame's own and only its row pitch  *)
(* has been stored; everywhere else the atomics are what MPP was told.     *)
(***************************************************************************)
LayoutInv ==
  /\ enc_pc["feeder"] = "ver_stride" => feeding = prep /\ hor_stride = feeding[1]
  /\ enc_pc["feeder"] # "ver_stride" => prep = Layout
  /\ enc_pc["feeder"] = "put" => feeding = Layout
  /\ LayoutMatchesBuffer

OwnLayout(x) == x.kind = "frame" => x.stamp = x.buffer /\ x.prep = x.buffer

LEMMA LayoutOfAppended ==
  ASSUME EncTypes, LayoutMatchesBuffer, NEW x \in EncItems, OwnLayout(x),
         enc_inq' = Append(enc_inq, x)
  PROVE  LayoutMatchesBuffer'
<1>1. /\ Len(enc_inq') = Len(enc_inq) + 1 /\ Len(enc_inq) \in Nat
      /\ DOMAIN enc_inq = 1 .. Len(enc_inq) /\ DOMAIN enc_inq' = 1 .. Len(enc_inq')
      /\ \A i \in 1 .. Len(enc_inq) : enc_inq'[i] = enc_inq[i]
      /\ enc_inq'[Len(enc_inq) + 1] = x
  BY AppendProperties, LenProperties DEF EncTypes, EncQueuesOK
<1>2. ASSUME NEW i \in DOMAIN enc_inq' PROVE OwnLayout(enc_inq'[i])
  <2>1. CASE i \in 1 .. Len(enc_inq)
    BY <1>1, <2>1 DEF LayoutMatchesBuffer, OwnLayout
  <2>2. CASE i = Len(enc_inq) + 1
    BY <1>1, <2>2
  <2>. QED
    BY <1>1, <1>2, <2>1, <2>2
<1>. QED
  BY <1>2 DEF LayoutMatchesBuffer, OwnLayout

LEMMA LayoutInvStep ==
  EncTypes /\ LayoutInv /\ [EncNext]_encVars => LayoutInv'
<1>. SUFFICES ASSUME EncTypes, LayoutInv, [EncNext]_encVars PROVE LayoutInv'
  OBVIOUS
<1>. USE DEF EncTypes, LayoutInv, layoutVars, configVars, recvVars
<1>0. "feeder" \in EncThreads /\ EncThreads = {"feeder", "drainer"}
  BY DEF EncThreads
<1>1. ASSUME prep' = prep, hor_stride' = hor_stride, ver_stride' = ver_stride,
             feeding' = feeding, enc_inq' = enc_inq,
             \/ enc_pc'["feeder"] = enc_pc["feeder"]
             \/ /\ enc_pc["feeder"] \in {"idle", "marker", "put_marker"}
                /\ enc_pc'["feeder"] \in {"idle", "marker", "put_marker"}
      PROVE  LayoutInv'
  BY <1>1 DEF Layout, LayoutMatchesBuffer
<1>2. ASSUME NEW v \in Views, FeedRestriding(v) PROVE LayoutInv'
  <2>1. UNCHANGED enc_inq /\ enc_pc["feeder"] = "idle"
    BY <1>2 DEF FeedRestriding
  <2>2. LayoutMatchesBuffer'
    BY <2>1 DEF LayoutMatchesBuffer
  <2>3. CASE /\ prep' = <<v.hor, v.ver>> /\ hor_stride' = v.hor
             /\ feeding' = <<v.hor, v.ver>> /\ EncGoto("feeder", "ver_stride")
    <3>1. enc_pc'["feeder"] = "ver_stride"
      BY <1>0, <2>3 DEF EncGoto
    <3>. QED
      BY <2>2, <2>3, <3>1
  <2>4. CASE UNCHANGED <<prep, hor_stride, feeding, enc_pc>>
    BY <1>2, <2>1, <2>4, <1>1 DEF FeedRestriding
  <2>. QED
    BY <1>2, <2>3, <2>4 DEF FeedRestriding
<1>3. ASSUME NEW v \in Views, FeedInLayout(v) PROVE LayoutInv'
  <2>1. UNCHANGED <<layoutVars, enc_inq>> /\ enc_pc["feeder"] = "idle"
    BY <1>3 DEF FeedInLayout
  <2>2. enc_pc'["feeder"] = "put"
    BY <1>0, <1>3 DEF FeedInLayout, EncGoto
  <2>3. v.fd \in BOOLEAN
    BY EncoderAssumption
  <2>4. feeding' = Layout
    BY <1>3, <2>3 DEF FeedInLayout, Restrides, Layout
  <2>. QED
    BY <2>1, <2>2, <2>4 DEF Layout, LayoutMatchesBuffer
<1>4. CASE StoreVerStride
  <2>1. /\ enc_pc["feeder"] = "ver_stride" /\ UNCHANGED <<prep, hor_stride, feeding, enc_inq>>
        /\ ver_stride' = feeding[2]
    BY <1>4 DEF StoreVerStride
  <2>2. enc_pc'["feeder"] = "put"
    BY <1>0, <1>4 DEF StoreVerStride, EncGoto
  <2>3. feeding = <<feeding[1], feeding[2]>>
    BY DEF LayoutOK, Strides
  <2>. QED
    BY <2>1, <2>2, <2>3 DEF Layout, LayoutMatchesBuffer
<1>5. CASE PutFrame
  <2>1. enc_pc["feeder"] = "put" /\ UNCHANGED layoutVars
    BY <1>5 DEF PutFrame
  <2>2. enc_pc'["feeder"] = "idle"
    BY <1>0, <1>5 DEF PutFrame, EncGoto
  <2>3. \/ UNCHANGED enc_inq
        \/ enc_inq' = Append(enc_inq, [kind |-> "frame", stamp |-> Layout,
                                       buffer |-> feeding, prep |-> prep])
    BY <1>5, Zenon DEF PutFrame
  <2>4. LayoutMatchesBuffer'
    <3>. DEFINE x == [kind |-> "frame", stamp |-> Layout, buffer |-> feeding,
                      prep |-> prep]
    <3>1. x \in EncItems
      BY DEF EncItems, LayoutOK, Layout, Strides
    <3>2. OwnLayout(x)
      BY <1>0, <2>1 DEF OwnLayout
    <3>3. CASE UNCHANGED enc_inq
      BY <3>3 DEF LayoutMatchesBuffer
    <3>4. CASE enc_inq' = Append(enc_inq, x)
      <4>. HIDE DEF x
      <4>. QED
        BY <3>1, <3>2, <3>4, LayoutOfAppended
    <3>. QED
      BY <2>3, <3>3, <3>4
  <2>. QED
    BY <2>1, <2>2, <2>4 DEF Layout
<1>6. ASSUME NEW t \in EncThreads, ClaimMarker(t) \/ StampMarker(t)
      PROVE  LayoutInv'
  <2>1. /\ prep' = prep /\ hor_stride' = hor_stride /\ ver_stride' = ver_stride
        /\ feeding' = feeding /\ enc_inq' = enc_inq
    BY <1>6 DEF ClaimMarker, StampMarker
  <2>2. /\ enc_pc[t] \in {"idle", "marker"}
        /\ \E w \in {"marker", "put_marker"} : enc_pc' = [enc_pc EXCEPT ![t] = w]
    BY <1>6 DEF ClaimMarker, StampMarker, EncGoto
  <2>3. \/ enc_pc'["feeder"] = enc_pc["feeder"]
        \/ enc_pc["feeder"] \in {"idle", "marker"}
           /\ enc_pc'["feeder"] \in {"marker", "put_marker"}
    BY <1>0, <2>2
  <2>. QED
    BY <1>1, <2>1, <2>3
<1>7. ASSUME NEW t \in EncThreads, PutEosMarker(t) PROVE LayoutInv'
  <2>1. UNCHANGED <<layoutVars, feeding>>
    BY <1>7 DEF PutEosMarker
  <2>2. \/ enc_pc'["feeder"] = enc_pc["feeder"]
        \/ enc_pc["feeder"] = "put_marker" /\ enc_pc'["feeder"] = "idle"
    BY <1>0, <1>7 DEF PutEosMarker, EncGoto
  <2>3. LayoutMatchesBuffer'
    BY <1>7, AppendProperties, LenProperties
       DEF PutEosMarker, LayoutMatchesBuffer, EncQueuesOK
  <2>. QED
    BY <2>1, <2>2, <2>3 DEF Layout
<1>8. CASE EncodeStep
  <2>1. UNCHANGED <<layoutVars, feeding, enc_pc>>
    BY <1>8 DEF EncodeStep
  <2>2. LayoutMatchesBuffer'
    BY <1>8, HeadTailProperties, LenProperties, EmptySeq
       DEF EncodeStep, LayoutMatchesBuffer, EncQueuesOK
  <2>. QED
    BY <2>1, <2>2 DEF Layout
<1>9. CASE EncReceive \/ EncReceiveThrows \/ UNCHANGED encVars
  <2>1. /\ prep' = prep /\ hor_stride' = hor_stride /\ ver_stride' = ver_stride
        /\ feeding' = feeding /\ enc_inq' = enc_inq /\ enc_pc' = enc_pc
    BY <1>9 DEF EncReceive, EncReceiveThrows, encVars
  <2>. QED
    BY <1>1, <2>1
<1>. HIDE DEF EncTypes, LayoutInv
<1>. QED
  BY <1>2, <1>3, <1>4, <1>5, <1>6, <1>7, <1>8, <1>9 DEF EncNext

LEMMA InitLayoutInv == EncInit => LayoutInv
<1>. SUFFICES ASSUME EncInit PROVE LayoutInv
  OBVIOUS
<1>1. enc_pc["feeder"] = "idle" /\ prep = Layout /\ enc_inq = <<>>
  BY DEF EncInit, EncThreads
<1>2. DOMAIN enc_inq = {}
  BY <1>1
<1>. QED
  BY <1>1, <1>2 DEF LayoutInv, LayoutMatchesBuffer

\* "Encoding a buffer with someone else's strides shears the chroma"
\* (applyStrides()): every queued frame is stamped with its own buffer's layout.
THEOREM FramesKeepTheirLayout == EncSpec => []LayoutMatchesBuffer
<1>1. EncInit => EncTypes /\ LayoutInv
  BY InitEncTypes, InitLayoutInv
<1>2. EncTypes /\ LayoutInv /\ [EncNext]_encVars => (EncTypes /\ LayoutInv)'
  BY EncTypesStep, LayoutInvStep
<1>3. LayoutInv => LayoutMatchesBuffer
  BY DEF LayoutInv
<1>. QED
  BY <1>1, <1>2, <1>3, PTL DEF EncSpec

(***************************************************************************)
(* OneEosMarker.  Whoever sets the flag claims the marker; the claim goes  *)
(* with it from the caller to the input queue, to the output queue and to  *)
(* eos_received, and is nowhere twice.                                     *)
(***************************************************************************)
Claimants == {t \in EncThreads : enc_pc[t] \in {"marker", "put_marker"}}

One(b) == IF b THEN 1 ELSE 0

EosInv ==
  Cardinality(EosAt(enc_inq)) + Cardinality(EosAt(enc_outq))
    + Cardinality(Claimants) + One(eos_received) <= One(enc_eos_fed)

LEMMA EosCounts ==
  ASSUME EncTypes
  PROVE  /\ Cardinality(EosAt(enc_inq)) \in Nat
         /\ Cardinality(EosAt(enc_outq)) \in Nat
         /\ Cardinality(Claimants) \in Nat /\ IsFiniteSet(Claimants)
         /\ One(eos_received) \in {0, 1} /\ One(enc_eos_fed) \in {0, 1}
<1>1. IsFiniteSet(EncThreads)
  <2>1. EncThreads = ({} \cup {"feeder"}) \cup {"drainer"}
    BY DEF EncThreads
  <2>. QED
    BY <2>1, FS_EmptySet, FS_AddElement
<1>2. IsFiniteSet(Claimants) /\ Cardinality(Claimants) \in Nat
  <2>1. Claimants \subseteq EncThreads
    BY DEF Claimants
  <2>. QED
    BY <1>1, <2>1, FS_Subset, FS_CardinalityType
<1>3. /\ Cardinality(EosAt(enc_inq)) \in Nat
      /\ Cardinality(EosAt(enc_outq)) \in Nat
  BY EosAtIsFinite DEF EncTypes, EncQueuesOK
<1>. QED
  BY <1>2, <1>3 DEF One

LEMMA EosInvStep == EncTypes /\ EosInv /\ [EncNext]_encVars => EosInv'
<1>. SUFFICES ASSUME EncTypes, EosInv, [EncNext]_encVars PROVE EosInv'
  OBVIOUS
<1>. USE DEF EosInv
<1>0. /\ enc_inq \in Seq(EncItems) /\ enc_outq \in Seq(EncPackets)
      /\ EncTypes' /\ enc_pc \in [EncThreads -> EncPlaces]
  BY EncTypesStep DEF EncTypes, EncQueuesOK
<1>c. /\ Cardinality(EosAt(enc_inq)) \in Nat
      /\ Cardinality(EosAt(enc_outq)) \in Nat
      /\ Cardinality(Claimants) \in Nat /\ IsFiniteSet(Claimants)
      /\ One(eos_received) \in {0, 1} /\ One(enc_eos_fed) \in {0, 1}
  BY EosCounts
<1>d. /\ Cardinality(EosAt(enc_inq')) \in Nat
      /\ Cardinality(EosAt(enc_outq')) \in Nat
  BY <1>0, EosAtIsFinite DEF EncTypes, EncQueuesOK
<1>1. ASSUME NEW t \in EncThreads, NEW w \in EncPlaces, EncGoto(t, w),
             enc_pc[t] \notin {"marker", "put_marker"},
             w \notin {"marker", "put_marker"}
      PROVE  Claimants' = Claimants
  BY <1>0, <1>1 DEF Claimants, EncGoto
<1>2. ASSUME enc_outq' = enc_outq, eos_received' = eos_received,
             enc_eos_fed' = enc_eos_fed, Claimants' = Claimants, enc_inq' = enc_inq
      PROVE  EosInv'
  BY <1>2 DEF One
<1>3. ASSUME NEW v \in Views, FeedRestriding(v) PROVE EosInv'
  <2>1. Claimants' = Claimants
    <3>1. CASE EncGoto("feeder", "ver_stride")
      BY <1>1, <1>3, <3>1 DEF FeedRestriding, EncThreads, EncPlaces
    <3>2. CASE enc_pc' = enc_pc
      BY <3>2 DEF Claimants
    <3>. QED
      BY <1>3, <3>1, <3>2 DEF FeedRestriding
  <2>. QED
    BY <1>2, <1>3, <2>1 DEF FeedRestriding, recvVars
<1>4. ASSUME NEW v \in Views, FeedInLayout(v) PROVE EosInv'
  <2>1. Claimants' = Claimants
    BY <1>1, <1>4 DEF FeedInLayout, EncThreads, EncPlaces
  <2>. QED
    BY <1>2, <1>4, <2>1 DEF FeedInLayout, recvVars
<1>5. CASE StoreVerStride
  <2>1. Claimants' = Claimants
    BY <1>1, <1>5 DEF StoreVerStride, EncThreads, EncPlaces
  <2>. QED
    BY <1>2, <1>5, <2>1 DEF StoreVerStride, recvVars
<1>6. CASE PutFrame
  <2>1. Claimants' = Claimants
    BY <1>1, <1>6 DEF PutFrame, EncThreads, EncPlaces
  <2>2. /\ enc_outq' = enc_outq /\ eos_received' = eos_received
        /\ enc_eos_fed' = enc_eos_fed
    BY <1>6 DEF PutFrame, recvVars
  <2>3. CASE enc_inq' = enc_inq
    BY <1>2, <2>1, <2>2, <2>3
  <2>4. CASE enc_inq' = Append(enc_inq, [kind |-> "frame", stamp |-> Layout,
                                         buffer |-> feeding, prep |-> prep])
    <3>. DEFINE x == [kind |-> "frame", stamp |-> Layout, buffer |-> feeding,
                      prep |-> prep]
    <3>1. x \in EncItems /\ x.kind # "eos"
      BY DEF EncTypes, LayoutOK, Layout, EncItems, Strides
    <3>. HIDE DEF x
    <3>2. Cardinality(EosAt(enc_inq')) = Cardinality(EosAt(enc_inq))
      BY <1>0, <1>c, <2>4, <3>1, EosAppend DEF x
    <3>. QED
      BY <2>1, <2>2, <3>2 DEF One
  <2>. QED
    BY <1>6, <2>3, <2>4 DEF PutFrame
<1>7. ASSUME NEW t \in EncThreads, ClaimMarker(t) PROVE EosInv'
  <2>1. Claimants' = Claimants \cup {t} /\ t \notin Claimants
    BY <1>0, <1>7 DEF ClaimMarker, EncGoto, Claimants
  <2>2. Cardinality(Claimants') = Cardinality(Claimants) + 1
    BY <1>c, <2>1, FS_AddElement
  <2>3. /\ enc_inq' = enc_inq /\ enc_outq' = enc_outq
        /\ eos_received' = eos_received /\ enc_eos_fed' = TRUE /\ ~enc_eos_fed
    BY <1>7 DEF ClaimMarker, recvVars
  <2>. QED
    BY <1>c, <2>2, <2>3 DEF One
<1>8. ASSUME NEW t \in EncThreads, StampMarker(t) PROVE EosInv'
  <2>1. Claimants' = Claimants
    BY <1>0, <1>8 DEF StampMarker, EncGoto, Claimants
  <2>. QED
    BY <1>2, <1>8, <2>1 DEF StampMarker, recvVars
<1>9. ASSUME NEW t \in EncThreads, PutEosMarker(t) PROVE EosInv'
  <2>1. Claimants' = Claimants \ {t} /\ t \in Claimants
    BY <1>0, <1>9 DEF PutEosMarker, EncGoto, Claimants
  <2>2. Cardinality(Claimants') = Cardinality(Claimants) - 1
    BY <1>c, <2>1, FS_RemoveElement
  <2>3. /\ enc_outq' = enc_outq
        /\ eos_received' = eos_received /\ enc_eos_fed' = enc_eos_fed
    BY <1>9 DEF PutEosMarker, recvVars
  <2>4. Cardinality(EosAt(enc_inq')) <= Cardinality(EosAt(enc_inq)) + 1
    <3>. DEFINE x == [kind |-> "eos", stamp |-> <<marker[t], ver_stride>>]
    <3>1. x \in EncItems /\ x.kind = "eos"
      BY DEF EncTypes, LayoutOK, EncItems, Strides
    <3>2. enc_inq' = enc_inq \/ enc_inq' = Append(enc_inq, x)
      BY <1>9, Zenon DEF PutEosMarker
    <3>. HIDE DEF x
    <3>3. CASE enc_inq' = Append(enc_inq, x)
      BY <1>0, <1>c, <3>1, <3>3, EosAppend
    <3>4. CASE enc_inq' = enc_inq
      BY <1>c, <3>4
    <3>. QED
      BY <3>2, <3>3, <3>4
  <2>. QED
    BY <1>c, <1>d, <2>2, <2>3, <2>4 DEF One
<1>10. CASE EncodeStep
  <2>1. Claimants' = Claimants
    BY <1>10 DEF EncodeStep, Claimants
  <2>2. /\ enc_inq # <<>> /\ enc_inq' = Tail(enc_inq)
        /\ eos_received' = eos_received /\ enc_eos_fed' = enc_eos_fed
    BY <1>10 DEF EncodeStep, recvVars
  <2>3. Cardinality(EosAt(enc_inq)) =
          Cardinality(EosAt(enc_inq')) + One(Head(enc_inq).kind = "eos")
    BY <1>0, <2>2, EosTail DEF One
  <2>4. PICK p \in EncPackets : /\ enc_outq' = Append(enc_outq, p)
                                /\ p.kind = "eos" <=> Head(enc_inq).kind = "eos"
    BY <1>10, CodedPacket
  <2>5. Cardinality(EosAt(enc_outq')) =
          Cardinality(EosAt(enc_outq)) + One(Head(enc_inq).kind = "eos")
    BY <1>0, <2>4, EosAppend DEF One
  <2>. QED
    BY <1>c, <1>d, <2>1, <2>2, <2>3, <2>5 DEF One
<1>11. CASE EncReceive
  <2>1. Claimants' = Claimants
    BY <1>11 DEF EncReceive, Claimants
  <2>2. /\ enc_outq # <<>> /\ enc_outq' = Tail(enc_outq) /\ ~eos_received
        /\ enc_inq' = enc_inq /\ enc_eos_fed' = enc_eos_fed
    BY <1>11 DEF EncReceive
  <2>4. One(eos_received') = One(Head(enc_outq).kind = "eos")
    BY <1>11 DEF EncReceive, One
  <2>3. Cardinality(EosAt(enc_outq)) =
          Cardinality(EosAt(enc_outq')) + One(Head(enc_outq).kind = "eos")
    BY <1>0, <2>2, EosTail DEF One
  <2>. QED
    BY <1>c, <1>d, <2>1, <2>2, <2>3, <2>4 DEF One
<1>12. CASE EncReceiveThrows \/ UNCHANGED encVars
  <2>1. Claimants' = Claimants
    BY <1>12 DEF EncReceiveThrows, encVars, Claimants
  <2>. QED
    BY <1>2, <1>12, <2>1 DEF EncReceiveThrows, recvVars, encVars
<1>. HIDE DEF EosInv
<1>. QED
  BY <1>3, <1>4, <1>5, <1>6, <1>7, <1>8, <1>9, <1>10, <1>11, <1>12 DEF EncNext

LEMMA InitEosInv == EncInit => EosInv
<1>. SUFFICES ASSUME EncInit PROVE EosInv
  OBVIOUS
<1>1. Claimants = {}
  BY DEF EncInit, Claimants
<1>2. EosAt(enc_inq) = {} /\ EosAt(enc_outq) = {}
  BY NoEosInEmpty DEF EncInit
<1>. QED
  <2>1. ~eos_received /\ ~enc_eos_fed
    BY DEF EncInit
  <2>2. Cardinality(Claimants) = 0 /\ Cardinality(EosAt(enc_inq)) = 0
        /\ Cardinality(EosAt(enc_outq)) = 0
    BY <1>1, <1>2, FS_EmptySet
  <2>. QED
    BY <2>1, <2>2 DEF EosInv, One

\* However the feeder's feedEndOfStream() and the drainer's flush() interleave,
\* one end-of-stream marker at most is queued.
THEOREM TheMarkerIsQueuedOnce == EncSpec => []OneEosMarker
<1>1. EncInit => EncTypes /\ EosInv
  BY InitEncTypes, InitEosInv
<1>2. EncTypes /\ EosInv /\ [EncNext]_encVars => (EncTypes /\ EosInv)'
  BY EncTypesStep, EosInvStep
<1>3. EncTypes /\ EosInv => OneEosMarker
  <2>. SUFFICES ASSUME EncTypes, EosInv PROVE OneEosMarker
    OBVIOUS
  <2>. QED
    BY EosCounts DEF EosInv, OneEosMarker, EosAt, Claimants, One
<1>. QED
  BY <1>1, <1>2, <1>3, PTL DEF EncSpec

(***************************************************************************)
(* PlayableFile.  The first frame's packet is a keyframe; until it is      *)
(* written nothing is, and the header is pending exactly until then.       *)
(* Behind it only a runtime that repeats the header carries one.           *)
(***************************************************************************)
OnlyMarkers(q, n) == \A j \in 1 .. n : q[j].kind = "eos"

\* What is still in the queue, from the first frame's packet on.
QueueInv ==
  \A i \in 1 .. Len(enc_outq) :
    /\ enc_outq[i].header =>
         /\ enc_outq[i].kind = "key" /\ HasHeader
         /\ \/ file = <<>> /\ OnlyMarkers(enc_outq, i - 1)
            \/ "later" \in emits_header
    /\ enc_outq[i].kind # "eos" /\ file = <<>> /\ OnlyMarkers(enc_outq, i - 1) =>
         enc_outq[i].kind = "key"

FileInv ==
  /\ QueueInv
  /\ ~keyed <=> file = <<>> /\ OnlyMarkers(enc_outq, Len(enc_outq))
  /\ HasHeader => (header_pending <=> file = <<>>)
  /\ HasHeader /\ file # <<>> => Len(file) >= 2
  /\ PlayableFile

LEMMA InitFileInv == EncInit => FileInv
<1>. SUFFICES ASSUME EncInit PROVE FileInv
  OBVIOUS
<1>1. enc_outq = <<>> /\ file = <<>> /\ keyed = FALSE
  BY DEF EncInit
<1>2. 1 .. Len(enc_outq) = {}
  BY <1>1
<1>3. HasHeader => header_pending
  BY DEF EncInit, HasHeader
<1>. QED
  BY <1>1, <1>2, <1>3 DEF FileInv, QueueInv, OnlyMarkers, PlayableFile

\* The coder's side: the packet it appends.
LEMMA FileInvEncode == EncTypes /\ FileInv /\ EncodeStep => FileInv'
<1>. SUFFICES ASSUME EncTypes, FileInv, EncodeStep PROVE FileInv'
  OBVIOUS
<1>0. /\ file' = file /\ header_pending' = header_pending /\ enc_cfg' = enc_cfg
      /\ emits_header' = emits_header /\ HasHeader' = HasHeader
      /\ enc_outq \in Seq(EncPackets) /\ keyed \in BOOLEAN
      /\ HasHeader \in BOOLEAN
  BY DEF EncodeStep, recvVars, configVars, EncTypes, EncQueuesOK, EncFlagsOK,
     HasHeader
<1>1. PICK p \in EncPackets :
        /\ enc_outq' = Append(enc_outq, p)
        /\ p.header =>
             p.kind = "key" /\ HasHeader /\ (~keyed \/ "later" \in emits_header)
        /\ p.kind # "eos" /\ ~keyed => p.kind = "key"
        /\ keyed' <=> (keyed \/ p.kind # "eos")
  BY CodedPacket
<1>2. /\ Len(enc_outq) \in Nat /\ Len(enc_outq') = Len(enc_outq) + 1
      /\ \A i \in 1 .. Len(enc_outq) : enc_outq'[i] = enc_outq[i]
      /\ enc_outq'[Len(enc_outq) + 1] = p
  BY <1>0, <1>1, AppendProperties, LenProperties
<1>3. \A n \in 0 .. Len(enc_outq) : OnlyMarkers(enc_outq', n) <=> OnlyMarkers(enc_outq, n)
  BY <1>2 DEF OnlyMarkers
<1>4. OnlyMarkers(enc_outq', Len(enc_outq')) <=>
        OnlyMarkers(enc_outq, Len(enc_outq)) /\ p.kind = "eos"
  BY <1>2 DEF OnlyMarkers
<1>5. QueueInv'
  <2>1. ASSUME NEW i \in 1 .. Len(enc_outq')
        PROVE  /\ enc_outq'[i].header =>
                    /\ enc_outq'[i].kind = "key" /\ HasHeader
                    /\ \/ file = <<>> /\ OnlyMarkers(enc_outq', i - 1)
                       \/ "later" \in emits_header
               /\ enc_outq'[i].kind # "eos" /\ file = <<>>
                    /\ OnlyMarkers(enc_outq', i - 1) => enc_outq'[i].kind = "key"
    <3>1. i - 1 \in 0 .. Len(enc_outq)
      BY <1>2, <2>1
    <3>2. CASE i \in 1 .. Len(enc_outq)
      BY <1>0, <1>2, <1>3, <3>1, <3>2 DEF FileInv, QueueInv
    <3>3. CASE i = Len(enc_outq) + 1
      BY <1>0, <1>1, <1>2, <1>3, <3>1, <3>3 DEF FileInv
    <3>. QED
      BY <1>2, <2>1, <3>2, <3>3
  <2>. QED
    BY <1>0, <2>1 DEF QueueInv
<1>6. PlayableFile'
  BY <1>0 DEF FileInv, PlayableFile
<1>. QED
  BY <1>0, <1>1, <1>4, <1>5, <1>6 DEF FileInv

LEMMA WrittenPackets ==
  ASSUME NEW p \in EncPackets, p.kind \in {"key", "delta"}
  PROVE  /\ ~p.header /\ ~(p.kind = "key" /\ header_pending) => WithHeader(p) = <<p.kind>>
         /\ p.header => WithHeader(p) = <<"header", p.kind>>
         /\ ~p.header /\ p.kind = "key" /\ header_pending =>
              WithHeader(p) = <<"header", "key">>
<1>1. <<"header">> \o <<"key">> = <<"header", "key">>
  <2>. DEFINE a == <<"header">>
              b == <<"key">>
              c == <<"header", "key">>
  <2>1. /\ a \in Seq({"header", "key"}) /\ Len(a) = 1 /\ a[1] = "header"
        /\ b \in Seq({"header", "key"}) /\ Len(b) = 1 /\ b[1] = "key"
        /\ c \in Seq({"header", "key"}) /\ Len(c) = 2 /\ c[1] = "header" /\ c[2] = "key"
    OBVIOUS
  <2>. HIDE DEF a, b, c
  <2>2. a \o b \in Seq({"header", "key"}) /\ Len(a \o b) = 2
        /\ \A i \in 1 .. 2 : (a \o b)[i] = IF i <= 1 THEN a[i] ELSE b[i - 1]
    BY <2>1, ConcatProperties
  <2>3. \A i \in 1 .. 2 : (a \o b)[i] = c[i]
    BY <2>1, <2>2
  <2>4. a \o b = c
    BY <2>1, <2>2, <2>3, SeqEqual
  <2>. QED
    BY <2>4 DEF a, b, c
<1>. QED
  BY <1>1 DEF WithHeader, Written

\* recv()'s side: the packet it writes.
LEMMA FileInvReceive == EncTypes /\ FileInv /\ EncReceive => FileInv'
<1>. SUFFICES ASSUME EncTypes, FileInv, EncReceive PROVE FileInv'
  OBVIOUS
<1>. DEFINE p == Head(enc_outq)
<1>0. /\ enc_outq \in Seq(EncPackets) /\ file \in Seq({"header", "key", "delta"})
      /\ enc_outq # <<>> /\ enc_outq' = Tail(enc_outq)
      /\ keyed' = keyed /\ enc_cfg' = enc_cfg /\ keyed \in BOOLEAN
      /\ emits_header' = emits_header /\ header_pending \in BOOLEAN
  BY DEF EncReceive, configVars, EncTypes, EncQueuesOK, EncFlagsOK
<1>1. /\ Len(enc_outq) \in Nat /\ Len(enc_outq) >= 1
      /\ Len(enc_outq') = Len(enc_outq) - 1
      /\ \A i \in 1 .. Len(enc_outq') : enc_outq'[i] = enc_outq[i + 1]
      /\ enc_outq[1] = p /\ p \in EncPackets
  BY <1>0, HeadTailProperties, LenProperties, EmptySeq
<1>2. \A n \in 0 .. Len(enc_outq') :
        OnlyMarkers(enc_outq, n + 1) <=> p.kind = "eos" /\ OnlyMarkers(enc_outq', n)
  <2>. HIDE DEF p
  <2>1. ASSUME NEW n \in 0 .. Len(enc_outq')
        PROVE  OnlyMarkers(enc_outq, n + 1) <=> p.kind = "eos" /\ OnlyMarkers(enc_outq', n)
    <3>1. ASSUME OnlyMarkers(enc_outq, n + 1)
          PROVE  p.kind = "eos" /\ OnlyMarkers(enc_outq', n)
      <4>1. 1 \in 1 .. (n + 1) /\ \A j \in 1 .. n : j + 1 \in 1 .. (n + 1)
        BY <2>1
      <4>. QED
        BY <1>1, <3>1, <4>1 DEF OnlyMarkers
    <3>2. ASSUME p.kind = "eos", OnlyMarkers(enc_outq', n)
          PROVE  OnlyMarkers(enc_outq, n + 1)
      <4>1. ASSUME NEW j \in 1 .. (n + 1) PROVE enc_outq[j].kind = "eos"
        <5>1. CASE j = 1
          BY <1>1, <3>2, <5>1
        <5>2. CASE j # 1
          <6>1. j - 1 \in 1 .. n /\ (j - 1) + 1 = j /\ j - 1 \in 1 .. Len(enc_outq')
            BY <1>1, <2>1, <4>1, <5>2
          <6>. QED
            BY <1>1, <3>2, <6>1 DEF OnlyMarkers
        <5>. QED
          BY <5>1, <5>2
      <4>. QED
        BY <4>1 DEF OnlyMarkers
    <3>. QED
      BY <3>1, <3>2
  <2>. QED
    BY <2>1
<1>3. OnlyMarkers(enc_outq, Len(enc_outq)) <=>
        p.kind = "eos" /\ OnlyMarkers(enc_outq', Len(enc_outq'))
  <2>1. Len(enc_outq') \in 0 .. Len(enc_outq') /\ Len(enc_outq') + 1 = Len(enc_outq)
    BY <1>1
  <2>. QED
    BY <1>2, <2>1
<1>4. HasHeader' = HasHeader
  BY <1>0 DEF HasHeader
<1>5. OnlyMarkers(enc_outq, 0)
  BY DEF OnlyMarkers
<1>6. CASE p.kind = "eos"
  <2>1. file' = file /\ header_pending' = header_pending
    BY <1>6 DEF EncReceive
  <2>2. QueueInv'
    <3>1. ASSUME NEW i \in 1 .. Len(enc_outq')
          PROVE  /\ i + 1 \in 1 .. Len(enc_outq) /\ enc_outq'[i] = enc_outq[i + 1]
                 /\ OnlyMarkers(enc_outq, i) <=> OnlyMarkers(enc_outq', i - 1)
      <4>1. i - 1 \in 0 .. Len(enc_outq') /\ (i - 1) + 1 = i
            /\ i + 1 \in 1 .. Len(enc_outq)
        BY <1>1, <3>1
      <4>2. OnlyMarkers(enc_outq, (i - 1) + 1) <=>
              p.kind = "eos" /\ OnlyMarkers(enc_outq', i - 1)
        BY <1>2, <4>1
      <4>. QED
        BY <1>1, <1>6, <3>1, <4>1, <4>2
    <3>2. ASSUME NEW i \in 1 .. Len(enc_outq')
          PROVE  /\ enc_outq'[i].header =>
                      /\ enc_outq'[i].kind = "key" /\ HasHeader
                      /\ \/ file = <<>> /\ OnlyMarkers(enc_outq', i - 1)
                         \/ "later" \in emits_header
                 /\ enc_outq'[i].kind # "eos" /\ file = <<>>
                      /\ OnlyMarkers(enc_outq', i - 1) => enc_outq'[i].kind = "key"
      <4>1. (i + 1) - 1 = i
        BY <3>2, <1>1
      <4>. QED
        BY <3>1, <4>1 DEF FileInv, QueueInv
    <3>. QED
      BY <1>0, <1>4, <2>1, <3>2 DEF QueueInv
  <2>. QED
    BY <1>0, <1>3, <1>4, <1>6, <2>1, <2>2 DEF FileInv, PlayableFile
<1>7. CASE p.kind # "eos"
  <2>1. /\ header_pending' = (header_pending /\ p.kind # "key")
        /\ file' = file \o WithHeader(p)
    BY <1>7 DEF EncReceive
  <2>2. p.kind \in {"key", "delta"}
    BY <1>1, <1>7 DEF EncPackets
  <2>3. /\ p.header => /\ p.kind = "key" /\ HasHeader
                       /\ file = <<>> \/ "later" \in emits_header
        /\ file = <<>> => p.kind = "key"
    <3>1. 1 \in 1 .. Len(enc_outq) /\ 1 - 1 = 0
      BY <1>1
    <3>. HIDE DEF p
    <3>. QED
      BY <1>1, <1>5, <1>7, <3>1 DEF FileInv, QueueInv
  <2>4. keyed
    BY <1>3, <1>7 DEF FileInv
  <2>. DEFINE Done == /\ file' # <<>> /\ PlayableFile'
                      /\ HasHeader' => ~header_pending' /\ Len(file') >= 2
  <2>5. ASSUME file = <<>> PROVE Done
    <3>1. p.kind = "key" /\ ~header_pending'
      BY <2>1, <2>3, <2>5
    <3>2. /\ WithHeader(p) \in {<<"key">>, <<"header", "key">>}
          /\ header_pending => WithHeader(p) = <<"header", "key">>
      BY <1>1, <2>2, <3>1, WrittenPackets
    <3>3. file' = WithHeader(p)
      BY <2>1, <2>5, <3>2
    <3>4. file' # <<>>
      BY <3>2, <3>3
    <3>5. HasHeader => file' = <<"header", "key">>
      BY <2>5, <3>2, <3>3 DEF FileInv
    <3>6. ASSUME HasHeader
          PROVE  file'[1] = "header" /\ file'[2] = "key" /\ Len(file') = 2
      <4>1. file' = <<"header", "key">>
        BY <3>5, <3>6
      <4>. QED
        BY <4>1
    <3>7. HasHeader => \A i \in 3 .. Len(file') : FALSE
      <4>1. \A i \in 3 .. 2 : FALSE
        OBVIOUS
      <4>. QED
        BY <3>6, <4>1
    <3>. QED
      BY <1>4, <3>1, <3>4, <3>6, <3>7 DEF PlayableFile
  <2>6. ASSUME file # <<>> PROVE Done
    <3>. DEFINE w == WithHeader(p)
                Words == {"header", "key", "delta"}
    <3>1. w \in {<<p.kind>>, <<"header", p.kind>>, <<"header", "key">>}
      BY <1>1, <2>2, WrittenPackets
    <3>2. /\ w \in Seq(Words) /\ Len(w) \in {1, 2}
          /\ Len(w) = 1 => w[1] # "header"
          /\ Len(w) = 2 => w[1] = "header"
      <4>1. /\ <<p.kind>> \in Seq(Words) /\ <<"header", p.kind>> \in Seq(Words)
            /\ <<"header", "key">> \in Seq(Words)
            /\ Len(<<p.kind>>) = 1 /\ <<p.kind>>[1] = p.kind
            /\ Len(<<"header", p.kind>>) = 2 /\ <<"header", p.kind>>[1] = "header"
            /\ Len(<<"header", "key">>) = 2 /\ <<"header", "key">>[1] = "header"
        BY <2>2
      <4>. HIDE DEF w
      <4>2. CASE w = <<p.kind>>
        BY <2>2, <4>1, <4>2
      <4>3. CASE w = <<"header", p.kind>>
        BY <4>1, <4>3
      <4>4. CASE w = <<"header", "key">>
        BY <4>1, <4>4
      <4>. QED
        BY <3>1, <4>2, <4>3, <4>4
    <3>3. ASSUME HasHeader, Len(w) = 2
          PROVE  w[2] = "key" /\ "later" \in emits_header
      <4>1. ~header_pending
        BY <2>6, <3>3 DEF FileInv
      <4>2. p.header
        <5>1. ~p.header => w = <<p.kind>>
          BY <1>1, <2>2, <4>1, WrittenPackets
        <5>. QED
          BY <3>3, <5>1
      <4>3. w = <<"header", p.kind>>
        BY <1>1, <2>2, <4>2, WrittenPackets
      <4>4. w[2] = p.kind
        BY <4>3
      <4>. QED
        BY <2>3, <2>6, <4>2, <4>4
    <3>. HIDE DEF w
    <3>4. Len(file) \in Nat /\ Len(file) > 0
      BY <1>0, <2>6, EmptySeq, LenProperties
    <3>5. /\ Len(file') = Len(file) + Len(w)
          /\ \A i \in 1 .. Len(file') :
               file'[i] = IF i <= Len(file) THEN file[i] ELSE w[i - Len(file)]
      <4>1. file' = file \o w
        BY <2>1 DEF w
      <4>2. /\ Len(file \o w) = Len(file) + Len(w)
            /\ \A i \in 1 .. Len(file) + Len(w) :
                 (file \o w)[i] = IF i <= Len(file) THEN file[i] ELSE w[i - Len(file)]
        BY <1>0, <3>2, ConcatProperties
      <4>. QED
        BY <4>1, <4>2
    <3>6. file' # <<>>
      <4>1. Len(file') > 0
        BY <3>2, <3>4, <3>5
      <4>. QED
        BY <4>1, EmptySeq
    <3>7. ASSUME HasHeader
          PROVE  /\ file'[1] = "header" /\ file'[2] = "key" /\ Len(file') >= 2
                 /\ \A i \in 3 .. Len(file') :
                      file'[i] = "header" => /\ "later" \in emits_header
                                             /\ i < Len(file') /\ file'[i + 1] = "key"
      <4>1. /\ file[1] = "header" /\ file[2] = "key" /\ Len(file) >= 2
            /\ \A i \in 3 .. Len(file) :
                 file[i] = "header" => /\ "later" \in emits_header
                                       /\ i < Len(file) /\ file[i + 1] = "key"
        BY <2>6, <3>7 DEF FileInv, PlayableFile
      <4>2. ASSUME NEW i \in 3 .. Len(file'), file'[i] = "header"
            PROVE  /\ "later" \in emits_header
                   /\ i < Len(file') /\ file'[i + 1] = "key"
        <5>1. CASE i <= Len(file)
          <6>1. file[i] = "header" /\ i \in 3 .. Len(file)
            BY <3>2, <3>4, <3>5, <4>2, <5>1
          <6>2. i + 1 <= Len(file) /\ i + 1 \in 1 .. Len(file') /\ i < Len(file')
            BY <3>2, <3>4, <3>5, <4>1, <6>1
          <6>3. file'[i + 1] = file[i + 1]
            BY <3>5, <6>2
          <6>. QED
            BY <4>1, <6>1, <6>2, <6>3
        <5>2. CASE ~(i <= Len(file))
          <6>1. /\ i - Len(file) \in 1 .. Len(w) /\ w[i - Len(file)] = "header"
                /\ i \in 1 .. Len(file')
            BY <3>2, <3>4, <3>5, <4>2, <5>2
          <6>2. Len(w) = 2 /\ i = Len(file) + 1
            <7>1. Len(w) # 1
              BY <3>2, <6>1
            <7>2. Len(w) = 2
              BY <3>2, <7>1
            <7>3. w[2] # "header"
              BY <3>3, <3>7, <7>2
            <7>4. i - Len(file) # 2
              BY <6>1, <7>3
            <7>. QED
              BY <3>4, <6>1, <7>2, <7>4
          <6>3. i < Len(file') /\ i + 1 \in 1 .. Len(file') /\ (i + 1) - Len(file) = 2
                /\ ~(i + 1 <= Len(file))
            BY <3>4, <3>5, <6>2
          <6>4. file'[i + 1] = w[2]
            BY <3>5, <6>3
          <6>. QED
            BY <3>3, <3>7, <6>2, <6>3, <6>4
        <5>. QED
          BY <5>1, <5>2
      <4>3. 1 \in 1 .. Len(file') /\ 2 \in 1 .. Len(file') /\ Len(file') >= 2
        BY <3>2, <3>4, <3>5, <4>1
      <4>4. file'[1] = file[1] /\ file'[2] = file[2]
        BY <3>4, <3>5, <4>1, <4>3
      <4>. QED
        BY <4>1, <4>2, <4>3, <4>4
    <3>8. HasHeader => ~header_pending'
      BY <2>1, <2>6 DEF FileInv
    <3>. QED
      BY <1>0, <1>4, <3>6, <3>7, <3>8 DEF PlayableFile
  <2>7. /\ file' # <<>> /\ PlayableFile'
        /\ HasHeader' => ~header_pending' /\ Len(file') >= 2
    BY <2>5, <2>6
  <2>8. QueueInv'
    <3>1. ASSUME NEW i \in 1 .. Len(enc_outq'), enc_outq'[i].header
          PROVE  /\ enc_outq'[i].kind = "key" /\ HasHeader
                 /\ "later" \in emits_header
      <4>1. /\ i + 1 \in 1 .. Len(enc_outq) /\ (i + 1) - 1 = i /\ 1 \in 1 .. i
            /\ enc_outq'[i] = enc_outq[i + 1]
        BY <1>1, <3>1
      <4>2. ~OnlyMarkers(enc_outq, i)
        BY <1>1, <1>7, <4>1 DEF OnlyMarkers
      <4>. QED
        BY <3>1, <4>1, <4>2 DEF FileInv, QueueInv
    <3>. QED
      BY <1>0, <1>4, <2>7, <3>1 DEF QueueInv
  <2>. QED
    BY <1>0, <2>4, <2>7, <2>8 DEF FileInv
<1>. QED
  BY <1>6, <1>7

LEMMA FileInvStep == EncTypes /\ FileInv /\ [EncNext]_encVars => FileInv'
<1>. SUFFICES ASSUME EncTypes, FileInv, [EncNext]_encVars PROVE FileInv'
  OBVIOUS
<1>1. ASSUME enc_outq' = enc_outq, file' = file, keyed' = keyed,
             header_pending' = header_pending, enc_cfg' = enc_cfg,
             emits_header' = emits_header
      PROVE  FileInv'
  BY <1>1 DEF FileInv, QueueInv, OnlyMarkers, PlayableFile, HasHeader
<1>2. \/ EncodeStep \/ EncReceive
      \/ /\ enc_outq' = enc_outq /\ file' = file /\ keyed' = keyed
         /\ header_pending' = header_pending /\ UNCHANGED configVars
  <2>1. ASSUME NEW v \in Views, FeedRestriding(v) \/ FeedInLayout(v)
        PROVE  /\ enc_outq' = enc_outq /\ file' = file /\ keyed' = keyed
               /\ header_pending' = header_pending /\ UNCHANGED configVars
    BY <2>1 DEF FeedRestriding, FeedInLayout, recvVars, configVars
  <2>2. ASSUME NEW t \in EncThreads, ClaimMarker(t) \/ StampMarker(t) \/ PutEosMarker(t)
        PROVE  /\ enc_outq' = enc_outq /\ file' = file /\ keyed' = keyed
               /\ header_pending' = header_pending /\ UNCHANGED configVars
    BY <2>2 DEF ClaimMarker, StampMarker, PutEosMarker, recvVars, configVars
  <2>3. CASE \/ StoreVerStride \/ PutFrame \/ EncReceiveThrows
            \/ UNCHANGED encVars
    BY <2>3 DEF StoreVerStride, PutFrame, EncReceiveThrows, recvVars,
       configVars, encVars
  <2>. QED
    BY <2>1, <2>2, <2>3 DEF EncNext
<1>. QED
  BY <1>1, <1>2, FileInvEncode, FileInvReceive DEF configVars

\* "Writing packets back to back yields a playable file" (video_codec.h),
\* on whichever keyframes the runtime repeats the codec header itself.
THEOREM TheFileIsPlayable == EncSpec => []PlayableFile
<1>1. EncInit => EncTypes /\ FileInv
  BY InitEncTypes, InitFileInv
<1>2. EncTypes /\ FileInv /\ [EncNext]_encVars => (EncTypes /\ FileInv)'
  BY EncTypesStep, FileInvStep
<1>3. FileInv => PlayableFile
  BY DEF FileInv
<1>. QED
  BY <1>1, <1>2, <1>3, PTL DEF EncSpec

=============================================================================

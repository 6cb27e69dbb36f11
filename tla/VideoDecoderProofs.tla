------------------------- MODULE VideoDecoderProofs -------------------------
(***************************************************************************)
(* The decoder for every set of headers, configurations and frame          *)
(* variables, every depth of MPP's queue and every budget of calls and     *)
(* errors.  The lemmas that count markers are those of MediaProofs.        *)
(***************************************************************************)
EXTENDS VideoDecoder, MediaProofs

(* Types.                                                                  *)

Chunks == [kind : {"header"}, header : Headers]
            \cup [kind : {"picture", "corrupt", "eos"}]

HasSlot(f) == "slot" \in DOMAIN f

DecPoolsOK ==
  /\ pool_ \in FramePools \cup {NoPool} /\ retired_ \in Seq(FramePools)
  /\ built \in Nat /\ cfg \in Configs

DecHeldOK == held \in [Holders -> VideoFrames \cup {NoFrame}]

DecQueuesOK == inq \in Seq(Chunks) /\ outq \in Seq(MppFrames)

DecHeadersOK ==
  /\ parser \in Headers \cup {NoGeometry} /\ latest \in Headers \cup {NoGeometry}
  /\ switches \in Nat

DecFlagsOK ==
  /\ eos_fed \in BOOLEAN /\ eos_seen \in BOOLEAN /\ parked \in BOOLEAN
  /\ overlap \in BOOLEAN /\ lost \in BOOLEAN /\ faults \in Nat
  /\ feeder \in {"idle", "put", "unset"} /\ resetter \in {"idle", "clear"}

\* receive() has a frame in hand only between taking and handling it.
DecDrainOK ==
  \/ drainer = "idle" /\ hand = NoFrame
  \/ drainer = "poll" /\ hand = NoFrame /\ target \in Holders
  \/ drainer = "have" /\ hand \in MppFrames /\ target \in Holders

DecTypes ==
  /\ DecPoolsOK /\ DecHeldOK /\ DecQueuesOK /\ DecHeadersOK /\ DecFlagsOK
  /\ DecDrainOK

\* The kinds of frame MPP hands out, told apart by their fields.
LEMMA FrameShapes ==
  ASSUME NEW f \in MppFrames
  PROVE  /\ f # NoFrame
         /\ f.kind \in {"info", "picture", "corrupt", "eos"}
         /\ f.kind = "info" => f.header \in Headers /\ ~HasSlot(f)
         /\ f.kind \in {"picture", "corrupt"} => HasSlot(f)
         /\ HasSlot(f) => f.slot \in Slots
<1>1. CASE f \in [kind : {"info"}, header : Headers]
  BY <1>1, DecoderAssumption DEF HasSlot
<1>2. CASE f \in [kind : {"eos"}]
  BY <1>2, DecoderAssumption DEF HasSlot
<1>3. CASE f \in [kind : {"picture", "corrupt", "eos"}, slot : Slots]
  BY <1>3, DecoderAssumption DEF HasSlot
<1>. QED
  BY <1>1, <1>2, <1>3 DEF MppFrames

LEMMA FramesMade ==
  /\ \A h \in Headers : [kind |-> "info", header |-> h] \in MppFrames
                        /\ ~HasSlot([kind |-> "info", header |-> h])
  /\ [kind |-> "eos"] \in MppFrames /\ ~HasSlot([kind |-> "eos"])
  /\ \A s \in Slots : \A k \in {"picture", "corrupt", "eos"} :
       [kind |-> k, slot |-> s] \in MppFrames /\ HasSlot([kind |-> k, slot |-> s])
  BY DEF MppFrames, HasSlot

LEMMA ChunkShapes ==
  ASSUME NEW c \in Chunks
  PROVE  /\ c.kind \in {"header", "picture", "corrupt", "eos"}
         /\ c.kind = "header" => c.header \in Headers
  BY DEF Chunks

(***************************************************************************)
(* The slot MPP decodes into.                                              *)
(***************************************************************************)
LEMMA LeastNatural ==
  ASSUME NEW S \in SUBSET Nat, S # {}
  PROVE  \E m \in S : \A k \in S : m <= k
<1>. DEFINE R == OpToRel(<, Nat)
<1>1. IsWellFoundedOn(R, Nat)
  BY NatLessThanWellFounded
<1>2. PICK m \in S : \A y \in S : <<y, m>> \notin R
  <2>. HIDE DEF R
  <2>. QED
    BY <1>1, WFMin
<1>3. \A x, y \in Nat : y < x => <<y, x>> \in R
  BY DEF OpToRel
<1>. HIDE DEF R
<1>4. ASSUME NEW k \in S PROVE m <= k
  <2>1. ~(k < m)
    BY <1>2, <1>3
  <2>. QED
    BY <2>1
<1>. QED
  BY <1>4

LEMMA ImageIsFinite ==
  ASSUME NEW S, IsFiniteSet(S), NEW f, DOMAIN f = S
  PROVE  IsFiniteSet({f[x] : x \in S})
<1>. DEFINE T == {f[x] : x \in S}
            g == [x \in S |-> f[x]]
<1>1. g \in [S -> T] /\ \A t \in T : \E x \in S : g[x] = t
  OBVIOUS
<1>2. g \in Surjection(S, T)
  <2>. HIDE DEF g, T
  <2>. QED
    BY <1>1 DEF Surjection
<1>. HIDE DEF g, T
<1>3. IsFiniteSet(T)
  BY <1>2, FS_Surjection
<1>. QED
  BY <1>3 DEF T

LEMMA PoolSizeIsNumber == DecTypes => PoolSize \in Int /\ PoolNumber \in Nat
<1>. SUFFICES ASSUME DecTypes PROVE PoolSize \in Int /\ PoolNumber \in Nat
  OBVIOUS
<1>1. IsFiniteSet(SlotsOf(outq))
  <2>. DEFINE D == {j \in DOMAIN outq : "slot" \in DOMAIN outq[j]}
              f == [i \in D |-> outq[i].slot]
  <2>1. IsFiniteSet(D)
    <3>1. D \subseteq 1 .. Len(outq) /\ Len(outq) \in Nat
      BY LenProperties DEF DecTypes, DecQueuesOK
    <3>2. IsFiniteSet(1 .. Len(outq))
      BY <3>1, FS_Interval
    <3>. QED
      BY <3>1, <3>2, FS_Subset
  <2>2. SlotsOf(outq) = {f[i] : i \in D} /\ DOMAIN f = D
    BY DEF SlotsOf
  <2>. HIDE DEF f, D
  <2>. QED
    BY <2>1, <2>2, ImageIsFinite
<1>2. IsFiniteSet(HeldSlots)
  <2>. DEFINE D == {k \in Holders : held[k] # NoFrame}
              f == [h \in D |-> held[h].slot]
  <2>1. IsFiniteSet(D)
    BY DecoderAssumption, FS_Subset
  <2>2. HeldSlots = {f[i] : i \in D} /\ DOMAIN f = D
    BY DEF HeldSlots
  <2>. HIDE DEF f, D
  <2>. QED
    BY <2>1, <2>2, ImageIsFinite
<1>3. IsFiniteSet(InHand)
  <2>1. InHand = {} \/ InHand = {} \cup {hand.slot}
    BY DEF InHand
  <2>. QED
    BY <2>1, FS_EmptySet, FS_AddElement
<1>4. Cardinality(BusySlots) \in Nat
  BY <1>1, <1>2, <1>3, FS_Union, FS_CardinalityType DEF BusySlots
<1>. QED
  BY <1>4 DEF PoolSize, PoolNumber, DecTypes, DecPoolsOK, FramePools

LEMMA NextSlotIsFree ==
  ASSUME DecTypes, FreeSlots # {}
  PROVE  /\ NextSlot \in Slots /\ NextSlot[1] = PoolNumber
         /\ NextSlot \notin BusySlots
<1>. DEFINE S == {s[2] : s \in FreeSlots}
<1>1. FreeSlots \subseteq {PoolNumber} \X Nat
  BY PoolSizeIsNumber DEF FreeSlots
<1>2. S \in SUBSET Nat /\ S # {}
  BY <1>1
<1>3. PICK m \in S : \A k \in S : m <= k
  <2>. HIDE DEF S
  <2>. QED
    BY <1>2, LeastNatural
<1>4. \E s \in FreeSlots : \A r \in FreeSlots : s[2] <= r[2]
  BY <1>3
<1>5. NextSlot \in FreeSlots
  BY <1>4 DEF NextSlot
<1>6. NextSlot \in {PoolNumber} \X Nat /\ NextSlot \notin BusySlots
  BY <1>1, <1>5, Zenon DEF FreeSlots
<1>. QED
  BY <1>6, PoolSizeIsNumber DEF Slots

(***************************************************************************)
(* Types.                                                                  *)
(***************************************************************************)
LEMMA InitDecTypes == Init => DecTypes
<1>. SUFFICES ASSUME Init PROVE DecTypes
  OBVIOUS
<1>1. DecPoolsOK /\ DecHeldOK
  BY EmptySeq DEF Init, DecPoolsOK, DecHeldOK
<1>2. DecQueuesOK /\ DecHeadersOK
  BY EmptySeq DEF Init, DecQueuesOK, DecHeadersOK
<1>3. DecFlagsOK /\ DecDrainOK
  BY DEF Init, DecFlagsOK, DecDrainOK
<1>. QED
  BY <1>1, <1>2, <1>3 DEF DecTypes

LEMMA DecKept ==
  /\ DecPoolsOK /\ pool_' = pool_ /\ retired_' = retired_ /\ built' = built
       /\ cfg' = cfg => DecPoolsOK'
  /\ DecHeldOK /\ held' = held => DecHeldOK'
  /\ DecQueuesOK /\ inq' = inq /\ outq' = outq => DecQueuesOK'
  /\ DecHeadersOK /\ parser' = parser /\ latest' = latest /\ switches' = switches
       => DecHeadersOK'
  /\ DecFlagsOK /\ eos_fed' = eos_fed /\ eos_seen' = eos_seen /\ parked' = parked
       /\ overlap' = overlap /\ lost' = lost /\ faults' = faults
       /\ feeder' = feeder /\ resetter' = resetter => DecFlagsOK'
  /\ DecDrainOK /\ drainer' = drainer /\ hand' = hand /\ target' = target
       => DecDrainOK'
<1>1. DecPoolsOK /\ pool_' = pool_ /\ retired_' = retired_ /\ built' = built
        /\ cfg' = cfg => DecPoolsOK'
  BY DEF DecPoolsOK
<1>2. DecHeldOK /\ held' = held => DecHeldOK'
  BY DEF DecHeldOK
<1>3. DecQueuesOK /\ inq' = inq /\ outq' = outq => DecQueuesOK'
  BY DEF DecQueuesOK
<1>4. DecHeadersOK /\ parser' = parser /\ latest' = latest /\ switches' = switches
        => DecHeadersOK'
  BY DEF DecHeadersOK
<1>5. DecFlagsOK /\ eos_fed' = eos_fed /\ eos_seen' = eos_seen /\ parked' = parked
        /\ overlap' = overlap /\ lost' = lost /\ faults' = faults
        /\ feeder' = feeder /\ resetter' = resetter => DecFlagsOK'
  BY DEF DecFlagsOK
<1>6. DecDrainOK /\ drainer' = drainer /\ hand' = hand /\ target' = target
        => DecDrainOK'
  BY DEF DecDrainOK
<1>. QED
  BY <1>1, <1>2, <1>3, <1>4, <1>5, <1>6

LEMMA FeedSideTypes ==
  ASSUME DecTypes, Feed \/ FeedEos \/ PutMarker \/ UnsetEosFed
  PROVE  DecTypes'
<1>. USE DecKept DEF DecTypes, poolVars, eosVars, mppVars, parserVars, frameVars,
                     drainVars, boundVars
<1>1. CASE Feed
  <2>1. PICK c \in Chunks : inq' = Append(inq, c)
    <3>1. PICK c \in [kind : {"header"}, header : Headers]
                       \cup [kind : {"picture", "corrupt"}] : inq' = Append(inq, c)
      BY <1>1 DEF Feed
    <3>2. c \in Chunks
      BY <3>1 DEF Chunks
    <3>. QED
      BY <3>1, <3>2
  <2>2. DecQueuesOK'
    BY <1>1, <2>1, AppendProperties DEF Feed, DecQueuesOK
  <2>. QED
    BY <1>1, <2>2 DEF Feed
<1>2. CASE FeedEos
  <2>1. DecFlagsOK'
    BY <1>2 DEF FeedEos, DecFlagsOK
  <2>. QED
    BY <1>2, <2>1 DEF FeedEos
<1>3. CASE PutMarker
  <2>1. inq' = inq \/ inq' = Append(inq, [kind |-> "eos"])
    BY <1>3, Zenon DEF PutMarker
  <2>2. [kind |-> "eos"] \in Chunks
    BY DEF Chunks
  <2>3. inq' \in Seq(Chunks)
    BY <2>1, <2>2, AppendProperties DEF DecQueuesOK
  <2>4. DecQueuesOK'
    BY <1>3, <2>3 DEF PutMarker, DecQueuesOK
  <2>5. DecFlagsOK'
    <3>1. /\ feeder' \in {"idle", "unset"}
          /\ \/ faults' = faults /\ lost' = lost
             \/ faults' = faults + 1 /\ lost' = TRUE
      BY <1>3 DEF PutMarker
    <3>2. /\ eos_fed' = eos_fed /\ eos_seen' = eos_seen /\ parked' = parked
          /\ overlap' = overlap /\ resetter' = resetter
      BY <1>3 DEF PutMarker
    <3>3. lost' \in BOOLEAN
      BY <3>1, Zenon DEF DecFlagsOK
    <3>4. faults' \in Nat
      <4>1. faults \in Nat /\ faults' \in {faults, faults + 1}
        BY <3>1 DEF DecFlagsOK
      <4>. QED
        BY <4>1
    <3>. QED
      BY <3>1, <3>2, <3>3, <3>4 DEF DecFlagsOK
  <2>. QED
    BY <1>3, <2>4, <2>5 DEF PutMarker
<1>4. CASE UnsetEosFed
  <2>1. DecFlagsOK'
    BY <1>4 DEF UnsetEosFed, DecFlagsOK
  <2>. QED
    BY <1>4, <2>1 DEF UnsetEosFed
<1>. HIDE DEF DecTypes
<1>. QED
  BY <1>1, <1>2, <1>3, <1>4

\* What the decode thread does with a chunk: nothing, or one frame that matches
\* it; a slot is a free one of the pool it decodes into.
Answers(c, f) ==
  /\ f.kind = "eos" <=> c.kind = "eos"
  /\ f.kind = "info" => /\ c.kind = "header" /\ f.header = c.header
                        /\ c.header # parser
  /\ HasSlot(f) => FreeSlots # {} /\ f.slot = NextSlot

LEMMA MppDecodes ==
  ASSUME DecTypes, MppDecode
  PROVE  \E c \in Chunks :
           /\ inq # <<>> /\ c = Head(inq) /\ inq' = Tail(inq) /\ ~parked
           /\ \/ /\ UNCHANGED <<outq, parked, parser, latest, switches>>
                 /\ c.kind # "eos"
              \/ \E f \in MppFrames :
                   /\ outq' = Append(outq, f) /\ Answers(c, f)
                   /\ f.kind # "info" =>
                        UNCHANGED <<parked, parser, latest, switches>>
                   /\ f.kind = "info" =>
                        /\ parked' = TRUE /\ parser' = f.header /\ latest' = f.header
                        /\ switches' = IF latest \in {NoGeometry, f.header}
                                       THEN switches ELSE switches + 1
<1>. DEFINE c == Head(inq)
<1>1. inq # <<>> /\ inq' = Tail(inq) /\ ~parked /\ c \in Chunks
  BY HeadTailProperties DEF MppDecode, DecTypes, DecQueuesOK
<1>2. c.kind = "header" => c.header \in Headers
  BY <1>1, ChunkShapes
<1>3. FreeSlots # {} => NextSlot \in Slots
  BY NextSlotIsFree
<1>a. CASE /\ c.kind = "header" /\ c.header # parser
           /\ parser' = c.header /\ latest' = c.header
           /\ switches' = IF latest \in {NoGeometry, c.header} THEN switches
                          ELSE switches + 1
           /\ parked' = TRUE
           /\ Emit([kind |-> "info", header |-> c.header])
  <2>. DEFINE f == [kind |-> "info", header |-> c.header]
  <2>1. f \in MppFrames /\ ~HasSlot(f) /\ f.kind = "info" /\ f.header = c.header
    BY <1>2, <1>a, FramesMade
  <2>2. outq' = Append(outq, f)
    BY <1>a DEF Emit
  <2>. HIDE DEF f
  <2>3. Answers(c, f)
    BY <1>a, <2>1 DEF Answers
  <2>. QED
    BY <1>1, <1>a, <2>1, <2>2, <2>3
<1>b. CASE /\ c.kind \in {"picture", "corrupt"} /\ FreeSlots # {}
           /\ Emit([kind |-> c.kind, slot |-> NextSlot])
           /\ UNCHANGED <<parked, parserVars>>
  <2>. DEFINE f == [kind |-> c.kind, slot |-> NextSlot]
  <2>1. f \in MppFrames /\ HasSlot(f) /\ f.kind = c.kind /\ f.slot = NextSlot
    BY <1>3, <1>b, FramesMade
  <2>2. outq' = Append(outq, f)
    BY <1>b DEF Emit
  <2>3. UNCHANGED <<parked, parser, latest, switches>>
    BY <1>b DEF parserVars
  <2>. HIDE DEF f
  <2>4. Answers(c, f)
    BY <1>b, <2>1 DEF Answers
  <2>. QED
    BY <1>1, <1>b, <2>1, <2>2, <2>3, <2>4
<1>c. CASE /\ c.kind = "eos" /\ Emit([kind |-> "eos"])
           /\ UNCHANGED <<parked, parserVars>>
  <2>. DEFINE f == [kind |-> "eos"]
  <2>1. f \in MppFrames /\ ~HasSlot(f) /\ f.kind = "eos"
    BY FramesMade
  <2>2. outq' = Append(outq, f)
    BY <1>c DEF Emit
  <2>3. UNCHANGED <<parked, parser, latest, switches>>
    BY <1>c DEF parserVars
  <2>. HIDE DEF f
  <2>4. Answers(c, f)
    BY <1>c, <2>1 DEF Answers
  <2>. QED
    BY <1>1, <1>c, <2>1, <2>2, <2>3, <2>4
<1>d. CASE /\ c.kind = "eos" /\ FreeSlots # {}
           /\ Emit([kind |-> "eos", slot |-> NextSlot])
           /\ UNCHANGED <<parked, parserVars>>
  <2>. DEFINE f == [kind |-> "eos", slot |-> NextSlot]
  <2>1. f \in MppFrames /\ HasSlot(f) /\ f.kind = "eos" /\ f.slot = NextSlot
    BY <1>3, <1>d, FramesMade
  <2>2. outq' = Append(outq, f)
    BY <1>d DEF Emit
  <2>3. UNCHANGED <<parked, parser, latest, switches>>
    BY <1>d DEF parserVars
  <2>. HIDE DEF f
  <2>4. Answers(c, f)
    BY <1>d, <2>1 DEF Answers
  <2>. QED
    BY <1>1, <1>d, <2>1, <2>2, <2>3, <2>4
<1>e. CASE c.kind # "eos" /\ UNCHANGED <<outq, parked, parserVars>>
  <2>1. UNCHANGED <<outq, parked, parser, latest, switches>>
    BY <1>e DEF parserVars
  <2>. QED
    BY <1>1, <1>e, <2>1
<1>. HIDE DEF c
<1>. QED
  BY <1>a, <1>b, <1>c, <1>d, <1>e DEF MppDecode, c

LEMMA MppTypes == DecTypes /\ MppDecode => DecTypes'
<1>. SUFFICES ASSUME DecTypes, MppDecode PROVE DecTypes'
  OBVIOUS
<1>1. inq' \in Seq(Chunks)
  BY MppDecodes, HeadTailProperties DEF DecTypes, DecQueuesOK
<1>2. DecQueuesOK' /\ DecHeadersOK' /\ parked' \in BOOLEAN
  <2>1. CASE UNCHANGED <<outq, parked, parser, latest, switches>>
    BY <1>1, <2>1 DEF DecTypes, DecQueuesOK, DecHeadersOK, DecFlagsOK
  <2>2. CASE \E f \in MppFrames :
               /\ outq' = Append(outq, f)
               /\ f.kind # "info" => UNCHANGED <<parked, parser, latest, switches>>
               /\ f.kind = "info" =>
                    /\ parked' = TRUE /\ parser' = f.header /\ latest' = f.header
                    /\ switches' = IF latest \in {NoGeometry, f.header}
                                   THEN switches ELSE switches + 1
    <3>1. PICK f \in MppFrames :
               /\ outq' = Append(outq, f)
               /\ f.kind # "info" => UNCHANGED <<parked, parser, latest, switches>>
               /\ f.kind = "info" =>
                    /\ parked' = TRUE /\ parser' = f.header /\ latest' = f.header
                    /\ switches' = IF latest \in {NoGeometry, f.header}
                                   THEN switches ELSE switches + 1
      BY <2>2
    <3>2. DecQueuesOK'
      BY <1>1, <3>1, AppendProperties DEF DecTypes, DecQueuesOK
    <3>3. f.kind = "info" => f.header \in Headers
      BY FrameShapes
    <3>4. CASE f.kind = "info"
      <4>1. switches' \in {switches, switches + 1}
        BY <3>1, <3>4
      <4>2. DecHeadersOK' /\ parked' = TRUE
        BY <3>1, <3>3, <3>4, <4>1 DEF DecTypes, DecHeadersOK
      <4>. QED
        BY <3>2, <4>2
    <3>5. CASE f.kind # "info"
      BY <3>1, <3>2, <3>5 DEF DecTypes, DecHeadersOK, DecFlagsOK
    <3>. QED
      BY <3>4, <3>5
  <2>. QED
    BY <2>1, <2>2, MppDecodes
<1>3. DecFlagsOK'
  BY <1>2 DEF MppDecode, DecTypes, DecFlagsOK, eosVars, boundVars
<1>. QED
  BY <1>2, <1>3, DecKept DEF MppDecode, DecTypes, poolVars, frameVars, drainVars

(***************************************************************************)
(* receive().                                                              *)
(***************************************************************************)
LEMMA SizesAreNumbers ==
  ASSUME NEW hdr \in Headers, cfg \in Configs
  PROVE  SlotBytes(hdr) \in Int /\ SlotCount(hdr) \in Int
<1>1. /\ hdr.hs \in Int /\ hdr.vs \in Int /\ hdr.buf_size \in Int /\ hdr.used \in Int
      /\ cfg.buffer_count \in Int /\ cfg.extra_buffers \in Int
  BY DecoderAssumption
<1>2. ASSUME NEW x, NEW a \in Int, NEW b \in Int PROVE frameBufferBytes(x, a, b) \in Int
  <2>1. a * b \in Int
    OBVIOUS
  <2>. DEFINE p == a * b
  <2>. HIDE DEF p
  <2>2. p \in Int => /\ 2 * p \in Int /\ 3 * p \in Int /\ p + p \div 2 \in Int
    OBVIOUS
  <2>. QED
    BY <2>1, <2>2 DEF frameBufferBytes, p
<1>3. SlotBytes(hdr) \in Int
  BY <1>1, <1>2 DEF SlotBytes
<1>4. SlotCount(hdr) \in Int
  BY <1>1 DEF SlotCount, kDefaultSlots, kMinSlots, kMaxSlots
<1>. QED
  BY <1>3, <1>4

\* The pools a negotiation may end with fit the header they are made for.
LEMMA NewPoolsFit ==
  ASSUME DecTypes, NEW hdr \in Headers, NEW p \in NewPools(hdr), p # NoPool
  PROVE  /\ p \in FramePools /\ p.number = built + 1
         /\ p.external => p.slot_bytes = SlotBytes(hdr) /\ p.count = SlotCount(hdr)
<1>. DEFINE made(ext, heap) == [number |-> built + 1, external |-> ext, heap |-> heap,
                                slot_bytes |-> IF ext THEN SlotBytes(hdr) ELSE 0,
                                count |-> IF ext THEN SlotCount(hdr) ELSE 0]
<1>1. /\ cfg.pool_heap \in Heaps /\ "System" \in Heaps
      /\ SlotBytes(hdr) \in Int /\ SlotCount(hdr) \in Int /\ built + 1 \in Nat
  BY SizesAreNumbers, DecoderAssumption DEF DecTypes, DecPoolsOK, Heaps
<1>2. PICK ext \in BOOLEAN, heap \in Heaps : p = made(ext, heap)
  <2>1. \/ \E heap \in {cfg.pool_heap, "System"} : p = made(TRUE, heap)
        \/ p = made(FALSE, "System")
    BY DEF NewPools
  <2>. QED
    BY <1>1, <2>1
<1>. QED
  BY <1>1, <1>2 DEF FramePools

\* What handling an info change does: refuse a frame of no size; keep the pool
\* when it fits; or replace it, and retire the old one.
Replaces(hdr) ==
  /\ ~PoolFits(hdr)
  /\ retired_' = IF pool_ = NoPool THEN retired_ ELSE Append(retired_, pool_)
  /\ pool_' \in NewPools(hdr) /\ built' = built + 1

LEMMA InfoChanges ==
  ASSUME DecTypes, RecvInfoChange
  PROVE  /\ drainer = "have" /\ hand \in MppFrames /\ hand.kind = "info"
         /\ hand.header \in Headers /\ hand' = NoFrame
         /\ \/ drainer' = "idle"
            \/ drainer' = "poll" /\ target' = target
         /\ \/ /\ pool_' = pool_ /\ retired_' = retired_ /\ built' = built
               /\ geometry' = geometry
            \/ Replaces(hand.header)
         /\ \/ faults' = faults /\ parked' = FALSE /\ geometry' = GeometryOf(hand.header)
            \/ faults' = faults + 1 /\ parked' = parked /\ geometry' = geometry
         /\ UNCHANGED <<cfg, eosVars, frameVars, inq, outq, parserVars, feeder,
                        resetter, fed, resets, overlap, lost>>
<1>1. drainer = "have" /\ hand.kind = "info" /\ hand' = NoFrame
  BY DEF RecvInfoChange
<1>2. hand \in MppFrames
  BY <1>1 DEF DecTypes, DecDrainOK
<1>3. hand.header \in Headers
  BY <1>1, <1>2, FrameShapes
<1>4. UNCHANGED <<cfg, eosVars, frameVars, inq, outq, parserVars, feeder,
                  resetter, fed, resets, overlap, lost>>
  BY DEF RecvInfoChange
<1>5. handleInfoChange(hand.header)
  BY DEF RecvInfoChange
<1>. DEFINE Answered ==
       /\ \/ drainer' = "idle"
          \/ drainer' = "poll" /\ target' = target
       /\ \/ faults' = faults /\ parked' = FALSE /\ geometry' = GeometryOf(hand.header)
          \/ faults' = faults + 1 /\ parked' = parked /\ geometry' = geometry
<1>6. ASSUME InfoChangeReady(hand.header, TRUE)
             \/ InfoChangeReady(hand.header, pool_' # NoPool /\ pool_'.external)
      PROVE  Answered
  BY <1>6 DEF InfoChangeReady, publishGeometry, RecvGoesOn, RecvReturns
<1>7. Answered /\ (\/ /\ pool_' = pool_ /\ retired_' = retired_ /\ built' = built
                      /\ geometry' = geometry
                   \/ Replaces(hand.header))
  <2>1. CASE SlotBytes(hand.header) = 0
    <3>1. /\ faults' = faults + 1 /\ drainer' = "idle"
          /\ UNCHANGED <<pool_, retired_, built, geometry, parked>>
      BY <1>5, <2>1 DEF handleInfoChange, RecvReturns, poolVars
    <3>. QED
      BY <3>1
  <2>2. CASE SlotBytes(hand.header) # 0 /\ PoolFits(hand.header)
    <3>1. ReusePool(hand.header)
      BY <1>5, <2>2 DEF handleInfoChange
    <3>2. InfoChangeReady(hand.header, TRUE)
      BY <3>1 DEF ReusePool
    <3>3. geometry' = geometry
      BY <2>2, <3>2 DEF InfoChangeReady, publishGeometry, PoolFits
    <3>. HIDE DEF Answered
    <3>. QED
      BY <1>6, <3>1, <3>2, <3>3 DEF ReusePool
  <2>3. CASE SlotBytes(hand.header) # 0 /\ ~PoolFits(hand.header)
    <3>1. ReplacePool(hand.header)
      BY <1>5, <2>3 DEF handleInfoChange
    <3>2. InfoChangeReady(hand.header, pool_' # NoPool /\ pool_'.external)
      BY <3>1 DEF ReplacePool
    <3>3. Answered
      BY <1>6, <3>2
    <3>. HIDE DEF Answered
    <3>. QED
      BY <2>3, <3>1, <3>3 DEF ReplacePool, Replaces
  <2>. QED
    BY <2>1, <2>2, <2>3
<1>. QED
  BY <1>1, <1>2, <1>3, <1>4, <1>7

LEMMA ReplacedPools ==
  ASSUME DecTypes, NEW hdr \in Headers,
         \/ pool_' = pool_ /\ retired_' = retired_ /\ built' = built
         \/ Replaces(hdr),
         cfg' = cfg
  PROVE  DecPoolsOK'
<1>1. CASE pool_' = pool_ /\ retired_' = retired_ /\ built' = built
  BY <1>1, DecKept DEF DecTypes
<1>2. CASE Replaces(hdr)
  <2>1. pool_' \in FramePools \cup {NoPool}
    BY <1>2, NewPoolsFit DEF Replaces
  <2>2. retired_' \in Seq(FramePools)
    BY <1>2, AppendProperties DEF Replaces, DecTypes, DecPoolsOK
  <2>. QED
    BY <1>2, <2>1, <2>2 DEF Replaces, DecTypes, DecPoolsOK
<1>. QED
  BY <1>1, <1>2

LEMMA TakenFrame ==
  ASSUME DecTypes, RecvTake
  PROVE  /\ outq # <<>> /\ outq' = Tail(outq) /\ outq' \in Seq(MppFrames)
         /\ Head(outq) \in MppFrames /\ drainer = "poll" /\ hand = NoFrame
         /\ \/ /\ hand' = Head(outq) /\ drainer' = "have" /\ target' = target
               /\ faults' = faults /\ lost' = lost
            \/ /\ hand' = hand /\ drainer' = "idle" /\ faults' = faults + 1
               /\ lost' = (lost \/ Head(outq).kind = "eos")
         /\ UNCHANGED <<cfg, poolVars, eosVars, frameVars, inq, parked, parserVars,
                        feeder, resetter, overlap>>
<1>1. outq # <<>> /\ outq' = Tail(outq) /\ drainer = "poll"
  BY DEF RecvTake
<1>2. outq' \in Seq(MppFrames) /\ Head(outq) \in MppFrames
  BY <1>1, HeadTailProperties DEF DecTypes, DecQueuesOK
<1>3. hand = NoFrame
  BY <1>1 DEF DecTypes, DecDrainOK
<1>4. \/ /\ hand' = Head(outq) /\ drainer' = "have" /\ target' = target
         /\ faults' = faults /\ lost' = lost
      \/ /\ hand' = hand /\ drainer' = "idle" /\ faults' = faults + 1
         /\ lost' = (lost \/ Head(outq).kind = "eos")
  BY DEF RecvTake, RecvReturns
<1>5. UNCHANGED <<cfg, poolVars, eosVars, frameVars, inq, parked, parserVars,
                  feeder, resetter, overlap>>
  BY DEF RecvTake
<1>. QED
  BY <1>1, <1>2, <1>3, <1>4, <1>5

\* A picture that is delivered, or a frame that is not.
LEMMA HandledFrame ==
  ASSUME DecTypes, RecvFrame
  PROVE  /\ drainer = "have" /\ hand \in MppFrames /\ hand.kind # "info"
         /\ target \in Holders /\ hand' = NoFrame
         /\ \/ drainer' = "idle"
            \/ drainer' = "poll" /\ target' = target
         /\ eos_seen' = (eos_seen \/ hand.kind = "eos")
         /\ \/ UNCHANGED frameVars
            \/ HasSlot(hand) /\ hand.kind # "corrupt" /\ Deliver(target, hand.slot)
         /\ UNCHANGED <<cfg, poolVars, eos_fed, mppVars, feeder, resetter,
                        boundVars, overlap, lost>>
<1>1. drainer = "have" /\ hand.kind # "info" /\ hand' = NoFrame
      /\ eos_seen' = (eos_seen \/ hand.kind = "eos")
  BY DEF RecvFrame
<1>2. hand \in MppFrames /\ target \in Holders
  BY <1>1 DEF DecTypes, DecDrainOK
<1>3. /\ \/ drainer' = "idle"
         \/ drainer' = "poll" /\ target' = target
      /\ \/ UNCHANGED frameVars
         \/ HasSlot(hand) /\ hand.kind # "corrupt" /\ Deliver(target, hand.slot)
  BY DEF RecvFrame, RecvReturns, RecvGoesOn, HasSlot
<1>4. UNCHANGED <<cfg, poolVars, eos_fed, mppVars, feeder, resetter,
                  boundVars, overlap, lost>>
  BY DEF RecvFrame
<1>. QED
  BY <1>1, <1>2, <1>3, <1>4

LEMMA RecvTypes ==
  ASSUME DecTypes,
         \/ \E h \in Holders : Recv(h)
         \/ RecvTimeout \/ RecvTake \/ RecvInfoChange \/ RecvFrame
  PROVE  DecTypes'
<1>. USE DecKept DEF DecTypes, poolVars, eosVars, mppVars, parserVars, frameVars,
                     drainVars, boundVars
<1>1. ASSUME NEW h \in Holders, Recv(h) PROVE DecTypes'
  <2>1. hand = NoFrame
    BY <1>1 DEF Recv, DecDrainOK
  <2>2. DecDrainOK'
    BY <1>1, <2>1 DEF Recv, DecDrainOK
  <2>3. DecFlagsOK'
    <3>1. overlap' \in BOOLEAN
      BY <1>1 DEF Recv, DecFlagsOK
    <3>. QED
      BY <1>1, <3>1 DEF Recv, DecFlagsOK
  <2>. QED
    BY <1>1, <2>2, <2>3 DEF Recv
<1>2. CASE RecvTimeout
  <2>1. DecDrainOK'
    BY <1>2 DEF RecvTimeout, RecvReturns, DecDrainOK
  <2>. QED
    BY <1>2, <2>1 DEF RecvTimeout
<1>3. CASE RecvTake
  <2>0. /\ outq' \in Seq(MppFrames) /\ Head(outq) \in MppFrames /\ drainer = "poll"
        /\ hand = NoFrame
        /\ \/ /\ hand' = Head(outq) /\ drainer' = "have" /\ target' = target
              /\ faults' = faults /\ lost' = lost
           \/ /\ hand' = hand /\ drainer' = "idle" /\ faults' = faults + 1
              /\ lost' = (lost \/ Head(outq).kind = "eos")
    BY <1>3, TakenFrame
  <2>1. DecQueuesOK'
    BY <1>3, <2>0 DEF RecvTake, DecQueuesOK
  <2>2. DecDrainOK'
    BY <2>0 DEF DecDrainOK
  <2>3. DecFlagsOK'
    <3>1. lost' \in BOOLEAN
      BY <2>0, Zenon DEF DecFlagsOK
    <3>2. faults' \in Nat
      <4>1. faults \in Nat /\ faults' \in {faults, faults + 1}
        BY <2>0 DEF DecFlagsOK
      <4>. QED
        BY <4>1
    <3>. QED
      BY <1>3, <3>1, <3>2 DEF RecvTake, DecFlagsOK
  <2>. QED
    BY <1>3, <2>1, <2>2, <2>3 DEF RecvTake
<1>4. CASE RecvInfoChange
  <2>1. DecPoolsOK'
    BY <1>4, InfoChanges, ReplacedPools
  <2>2. DecDrainOK'
    BY <1>4, InfoChanges DEF DecDrainOK
  <2>3. parked' \in BOOLEAN /\ faults' \in Nat
    <3>1. parked' \in {parked, FALSE} /\ faults' \in {faults, faults + 1}
      BY <1>4, InfoChanges
    <3>2. parked \in BOOLEAN /\ faults \in Nat
      BY DEF DecFlagsOK
    <3>3. parked' \in BOOLEAN
      BY <3>1, <3>2, Zenon
    <3>. QED
      BY <3>1, <3>2, <3>3
  <2>4. /\ eos_fed' = eos_fed /\ eos_seen' = eos_seen /\ feeder' = feeder
        /\ resetter' = resetter /\ overlap' = overlap /\ lost' = lost
        /\ held' = held /\ inq' = inq /\ outq' = outq /\ parser' = parser
        /\ latest' = latest /\ switches' = switches
    BY <1>4 DEF RecvInfoChange
  <2>5. DecFlagsOK'
    BY <2>3, <2>4 DEF DecFlagsOK
  <2>. QED
    BY <2>1, <2>2, <2>4, <2>5
<1>5. CASE RecvFrame
  <2>1. DecHeldOK'
    <3>1. CASE UNCHANGED frameVars
      BY <3>1
    <3>2. CASE HasSlot(hand) /\ Deliver(target, hand.slot)
      <4>1. hand.slot \in Slots /\ Below4G \in BOOLEAN
        BY <1>5, <3>2, HandledFrame, FrameShapes
           DEF Below4G, DecPoolsOK, FramePools, heapBelow4G
      <4>2. [slot |-> hand.slot, below4g |-> Below4G, cpu_window |-> FALSE] \in VideoFrames
        BY <4>1 DEF VideoFrames
      <4>. QED
        BY <3>2, <4>2 DEF Deliver, DecHeldOK
    <3>. QED
      BY <1>5, <3>1, <3>2, HandledFrame
  <2>2. DecDrainOK'
    BY <1>5, HandledFrame DEF DecDrainOK
  <2>3. DecFlagsOK'
    <3>1. eos_seen' \in BOOLEAN
      BY <1>5, HandledFrame DEF DecFlagsOK
    <3>. QED
      BY <1>5, <3>1 DEF RecvFrame, DecFlagsOK
  <2>. QED
    BY <1>5, <2>1, <2>2, <2>3 DEF RecvFrame
<1>. HIDE DEF DecTypes
<1>. QED
  BY <1>1, <1>2, <1>3, <1>4, <1>5

(***************************************************************************)
(* reset(), and the callers' frames.                                       *)
(***************************************************************************)
FrameSteps ==
  \/ \E to, from \in Holders : MoveFrame(to, from)
  \/ \E h \in Holders : ResetFrame(h) \/ BeginCpuRead(h) \/ EndCpuRead(h)

LEMMA ResetTypes == DecTypes /\ (ResetMpp \/ ResetFlags) => DecTypes'
<1>. SUFFICES ASSUME DecTypes, ResetMpp \/ ResetFlags PROVE DecTypes'
  OBVIOUS
<1>. USE DecKept DEF DecTypes, poolVars, eosVars, mppVars, parserVars, frameVars,
                     drainVars, boundVars
<1>1. CASE ResetMpp
  <2>1. DecQueuesOK'
    BY <1>1, EmptySeq DEF ResetMpp, DecQueuesOK
  <2>2. DecHeadersOK'
    BY <1>1 DEF ResetMpp, DecHeadersOK
  <2>3. DecFlagsOK'
    <3>1. overlap' \in BOOLEAN
      BY <1>1 DEF ResetMpp, DecFlagsOK
    <3>. QED
      BY <1>1, <3>1 DEF ResetMpp, DecFlagsOK
  <2>. QED
    BY <1>1, <2>1, <2>2, <2>3 DEF ResetMpp
<1>2. CASE ResetFlags
  <2>1. DecFlagsOK'
    BY <1>2 DEF ResetFlags, DecFlagsOK
  <2>. QED
    BY <1>2, <2>1 DEF ResetFlags
<1>. HIDE DEF DecTypes
<1>. QED
  BY <1>1, <1>2

\* A caller's step moves the frames it holds, opens a window or closes one.
LEMMA FrameStepTypes == DecTypes /\ FrameSteps => DecTypes'
<1>. SUFFICES ASSUME DecTypes, FrameSteps PROVE DecTypes'
  OBVIOUS
<1>1. OnlyFramesChange
  BY DEF FrameSteps, MoveFrame, ResetFrame, BeginCpuRead, EndCpuRead
<1>2. DecHeldOK'
  <2>. USE DEF DecTypes, DecHeldOK
  <2>1. ASSUME NEW to \in Holders, NEW from \in Holders, MoveFrame(to, from)
        PROVE  DecHeldOK'
    BY <2>1 DEF MoveFrame
  <2>2. ASSUME NEW h \in Holders, ResetFrame(h) PROVE DecHeldOK'
    BY <2>2 DEF ResetFrame
  <2>3. ASSUME NEW h \in Holders, NEW b \in BOOLEAN, held[h] # NoFrame,
               held' = [held EXCEPT ![h].cpu_window = b]
        PROVE  DecHeldOK'
    <3>1. held[h] \in VideoFrames
      BY <2>3
    <3>2. [held[h] EXCEPT !.cpu_window = b] \in VideoFrames
      BY <3>1 DEF VideoFrames
    <3>. QED
      BY <2>3, <3>2
  <2>. HIDE DEF DecTypes, DecHeldOK
  <2>. QED
    BY <2>1, <2>2, <2>3 DEF FrameSteps, BeginCpuRead, EndCpuRead
<1>. QED
  BY <1>1, <1>2, DecKept DEF DecTypes, OnlyFramesChange, poolVars, eosVars, mppVars,
     parserVars, drainVars, boundVars

LEMMA DecTypesStep == DecTypes /\ [Next]_vars => DecTypes'
<1>. SUFFICES ASSUME DecTypes, [Next]_vars PROVE DecTypes'
  OBVIOUS
<1>1. CASE UNCHANGED vars
  BY <1>1, DecKept DEF DecTypes, vars, poolVars, eosVars, mppVars, parserVars,
     frameVars, drainVars, boundVars
<1>2. CASE Next
  BY <1>2, FeedSideTypes, MppTypes, RecvTypes, ResetTypes, FrameStepTypes
     DEF Next, FrameSteps
<1>. QED
  BY <1>1, <1>2

(***************************************************************************)
(* WindowsAreHeld.  A slot is in one place at a time: with one holder, in  *)
(* receive()'s hand, or once in the output queue.                          *)
(***************************************************************************)
Holds(h) == held[h] # NoFrame
Carries == hand # NoFrame /\ HasSlot(hand)

HeldApart == \A h, k \in Holders : Holds(h) /\ Holds(k) /\ h # k =>
               held[h].slot # held[k].slot

QueueApart ==
  \A i \in 1 .. Len(outq) : HasSlot(outq[i]) =>
    /\ \A j \in 1 .. Len(outq) : HasSlot(outq[j]) /\ i # j => outq[j].slot # outq[i].slot
    /\ \A h \in Holders : Holds(h) => held[h].slot # outq[i].slot
    /\ Carries => hand.slot # outq[i].slot

HandApart == Carries => \A h \in Holders : Holds(h) => held[h].slot # hand.slot

Windowed(h) == Holds(h) /\ held[h].cpu_window

SlotsInv == HeldApart /\ QueueApart /\ HandApart /\ WindowsAreHeld

LEMMA WindowsOf ==
  WindowsAreHeld <=>
    /\ \A s \in windows : \E h \in Holders : Windowed(h) /\ s = held[h].slot
    /\ \A h \in Holders : Windowed(h) => held[h].slot \in windows
  BY DEF WindowsAreHeld, Windowed, Holds

LEMMA SlotsKept ==
  ASSUME SlotsInv, outq' = outq, held' = held, windows' = windows,
         hand' = hand \/ ~Carries'
  PROVE  SlotsInv'
<1>1. HeldApart' /\ WindowsAreHeld'
  BY DEF SlotsInv, HeldApart, WindowsAreHeld, Holds
<1>2. QueueApart' /\ HandApart'
  BY DEF SlotsInv, QueueApart, HandApart, Holds, Carries, HasSlot
<1>. QED
  BY <1>1, <1>2 DEF SlotsInv

LEMMA SlotsDecode == DecTypes /\ SlotsInv /\ MppDecode => SlotsInv'
<1>. SUFFICES ASSUME DecTypes, SlotsInv, MppDecode PROVE SlotsInv'
  OBVIOUS
<1>1. held' = held /\ windows' = windows /\ hand' = hand
  BY DEF MppDecode, frameVars, drainVars
<1>2. CASE outq' = outq
  BY <1>1, <1>2, SlotsKept
<1>3. CASE \E f \in MppFrames : /\ outq' = Append(outq, f)
                                /\ HasSlot(f) => FreeSlots # {} /\ f.slot = NextSlot
  <2>1. PICK f \in MppFrames : /\ outq' = Append(outq, f)
                               /\ HasSlot(f) => FreeSlots # {} /\ f.slot = NextSlot
    BY <1>3
  <2>2. /\ Len(outq) \in Nat /\ Len(outq') = Len(outq) + 1
        /\ \A i \in 1 .. Len(outq) : outq'[i] = outq[i]
        /\ outq'[Len(outq) + 1] = f /\ DOMAIN outq = 1 .. Len(outq)
    BY <2>1, AppendProperties, LenProperties DEF DecTypes, DecQueuesOK
  <2>3. HasSlot(f) => f.slot \notin BusySlots
    BY <2>1, NextSlotIsFree
  <2>4. ASSUME HasSlot(f)
        PROVE  /\ \A i \in 1 .. Len(outq) : HasSlot(outq[i]) => outq[i].slot # f.slot
               /\ \A h \in Holders : Holds(h) => held[h].slot # f.slot
               /\ Carries => hand.slot # f.slot
    BY <2>2, <2>3, <2>4 DEF BusySlots, SlotsOf, HeldSlots, InHand, HasSlot, Holds, Carries
  <2>5. QueueApart'
    <3>1. ASSUME NEW i \in 1 .. Len(outq'), HasSlot(outq'[i])
          PROVE  /\ \A j \in 1 .. Len(outq') : HasSlot(outq'[j]) /\ i # j =>
                      outq'[j].slot # outq'[i].slot
                 /\ \A h \in Holders : Holds(h) => held[h].slot # outq'[i].slot
                 /\ Carries => hand.slot # outq'[i].slot
      <4>1. i \in 1 .. Len(outq) \/ i = Len(outq) + 1
        BY <2>2, <3>1
      <4>2. ASSUME NEW j \in 1 .. Len(outq'), HasSlot(outq'[j]), i # j
            PROVE  outq'[j].slot # outq'[i].slot
        <5>1. j \in 1 .. Len(outq) \/ j = Len(outq) + 1
          BY <2>2, <4>2
        <5>2. CASE i \in 1 .. Len(outq) /\ j \in 1 .. Len(outq)
          BY <2>2, <3>1, <4>2, <5>2 DEF SlotsInv, QueueApart
        <5>3. CASE i = Len(outq) + 1 /\ j \in 1 .. Len(outq)
          BY <2>2, <2>4, <3>1, <4>2, <5>3
        <5>4. CASE i \in 1 .. Len(outq) /\ j = Len(outq) + 1
          BY <2>2, <2>4, <3>1, <4>2, <5>4
        <5>. QED
          BY <2>2, <4>1, <4>2, <5>1, <5>2, <5>3, <5>4
      <4>3. CASE i \in 1 .. Len(outq)
        BY <2>2, <3>1, <4>2, <4>3 DEF SlotsInv, QueueApart
      <4>4. CASE i = Len(outq) + 1
        BY <2>2, <2>4, <3>1, <4>2, <4>4
      <4>. QED
        BY <4>1, <4>3, <4>4
    <3>2. (Carries' <=> Carries) /\ \A h \in Holders : Holds(h)' <=> Holds(h)
      BY <1>1 DEF Carries, Holds, HasSlot
    <3>3. \A i \in 1 .. Len(outq') : HasSlot(outq'[i]) <=> HasSlot(outq[i])'
      BY DEF HasSlot
    <3>. QED
      BY <1>1, <3>1, <3>2 DEF QueueApart, HasSlot
  <2>6. HeldApart' /\ HandApart' /\ WindowsAreHeld'
    BY <1>1 DEF SlotsInv, HeldApart, HandApart, WindowsAreHeld, Holds, Carries, HasSlot
  <2>. QED
    BY <2>5, <2>6 DEF SlotsInv
<1>. QED
  BY <1>2, <1>3, MppDecodes DEF Answers

LEMMA SlotsTake == DecTypes /\ SlotsInv /\ RecvTake => SlotsInv'
<1>. SUFFICES ASSUME DecTypes, SlotsInv, RecvTake PROVE SlotsInv'
  OBVIOUS
<1>1. held' = held /\ windows' = windows /\ outq # <<>> /\ outq' = Tail(outq)
      /\ hand = NoFrame /\ hand' \in {hand, Head(outq)}
  BY TakenFrame DEF frameVars
<1>2. /\ Len(outq) \in Nat /\ Len(outq) >= 1 /\ Len(outq') = Len(outq) - 1
      /\ \A i \in 1 .. Len(outq') : outq'[i] = outq[i + 1]
      /\ Head(outq) = outq[1]
  BY <1>1, HeadTailProperties, LenProperties, EmptySeq DEF DecTypes, DecQueuesOK
<1>3. \A i \in 1 .. Len(outq') : i + 1 \in 1 .. Len(outq) /\ i + 1 # 1
  BY <1>2
<1>4. 1 \in 1 .. Len(outq)
  BY <1>2
<1>5. HeldApart' /\ WindowsAreHeld'
  BY <1>1 DEF SlotsInv, HeldApart, WindowsAreHeld, Holds
<1>6. ASSUME NEW i \in 1 .. Len(outq'), HasSlot(outq'[i])
      PROVE  /\ \A j \in 1 .. Len(outq') : HasSlot(outq'[j]) /\ i # j =>
                  outq'[j].slot # outq'[i].slot
             /\ \A h \in Holders : Holds(h) => held[h].slot # outq'[i].slot
             /\ hand' # NoFrame /\ HasSlot(hand') => hand'.slot # outq'[i].slot
  <2>1. \A j \in 1 .. Len(outq') : i # j => i + 1 # j + 1
    BY <1>2, <1>6
  <2>. QED
    BY <1>1, <1>2, <1>3, <1>4, <1>6, <2>1 DEF SlotsInv, QueueApart
<1>7. QueueApart'
  BY <1>1, <1>6 DEF QueueApart, Holds, Carries, HasSlot
<1>8. HandApart'
  BY <1>1, <1>2, <1>4 DEF SlotsInv, QueueApart, HandApart, Holds, Carries, HasSlot
<1>. QED
  BY <1>5, <1>7, <1>8 DEF SlotsInv

LEMMA SlotsDeliver == DecTypes /\ SlotsInv /\ RecvFrame => SlotsInv'
<1>. SUFFICES ASSUME DecTypes, SlotsInv, RecvFrame PROVE SlotsInv'
  OBVIOUS
<1>1. /\ outq' = outq /\ hand' = NoFrame /\ hand # NoFrame /\ target \in Holders
      /\ \/ held' = held /\ windows' = windows
         \/ HasSlot(hand) /\ Deliver(target, hand.slot)
  BY HandledFrame, FrameShapes DEF frameVars, mppVars
<1>2. CASE held' = held /\ windows' = windows
  BY <1>1, <1>2, SlotsKept DEF Carries
<1>3. CASE HasSlot(hand) /\ Deliver(target, hand.slot)
  <2>0. PICK t \in Holders : t = target
    BY <1>1
  <2>. DEFINE f == [slot |-> hand.slot, below4g |-> Below4G, cpu_window |-> FALSE]
  <2>1. /\ \A h \in Holders : h # t => held'[h] = held[h]
        /\ held'[t] = f /\ f.slot = hand.slot /\ f.cpu_window = FALSE
        /\ windows' = WindowsWithout(t)
    BY <1>1, <1>3, <2>0 DEF Deliver, DecTypes, DecHeldOK
  <2>. HIDE DEF f
  <2>2. Carries /\ ~Carries'
    BY <1>1, <1>3 DEF Carries
  <2>3. HeldApart'
    BY <2>1, <2>2 DEF SlotsInv, HeldApart, HandApart, Holds
  <2>4. QueueApart' /\ HandApart'
    BY <1>1, <2>1, <2>2 DEF SlotsInv, QueueApart, HandApart, Holds, HasSlot
  <2>5. \A s : s \in windows' <=> s \in windows /\ ~(Windowed(t) /\ s = held[t].slot)
    BY <2>1 DEF WindowsWithout, Windowed, Holds
  <2>6. /\ \A h \in Holders : h # t => (Windowed(h)' <=> Windowed(h))
        /\ ~Windowed(t)'
    <3>1. ~f.cpu_window
      BY DEF f
    <3>2. ~Windowed(t)'
      BY <2>1, <3>1 DEF Windowed
    <3>3. ASSUME NEW h \in Holders, h # t PROVE Windowed(h)' <=> Windowed(h)
      <4>1. held'[h] = held[h]
        BY <2>1, <3>3
      <4>. QED
        BY <4>1 DEF Windowed, Holds
    <3>. QED
      BY <3>2, <3>3
  <2>7. \A s \in windows' : \E h \in Holders : Windowed(h)' /\ s = held'[h].slot
    BY <2>1, <2>5, <2>6, WindowsOf DEF SlotsInv
  <2>8. ASSUME NEW h \in Holders, Windowed(h)' PROVE held'[h].slot \in windows'
    <3>1. h # t /\ Windowed(h) /\ held'[h] = held[h]
      BY <2>1, <2>6, <2>8
    <3>2. held[h].slot \in windows
      BY <3>1, WindowsOf DEF SlotsInv
    <3>3. Windowed(t) => held[h].slot # held[t].slot
      BY <1>1, <3>1 DEF SlotsInv, HeldApart, Windowed
    <3>. QED
      BY <2>5, <3>1, <3>2, <3>3
  <2>9. WindowsAreHeld'
    BY <2>7, <2>8 DEF WindowsAreHeld, Windowed, Holds
  <2>. QED
    BY <2>3, <2>4, <2>9 DEF SlotsInv
<1>. QED
  BY <1>1, <1>2, <1>3

LEMMA SlotsOfFrames == DecTypes /\ SlotsInv /\ FrameSteps => SlotsInv'
<1>. SUFFICES ASSUME DecTypes, SlotsInv, FrameSteps PROVE SlotsInv'
  OBVIOUS
<1>1. outq' = outq /\ hand' = hand
  BY DEF FrameSteps, MoveFrame, ResetFrame, BeginCpuRead, EndCpuRead,
     OnlyFramesChange, mppVars, drainVars
<1>2. (Carries' <=> Carries) /\ (\A i \in 1 .. Len(outq) : HasSlot(outq'[i]) <=> HasSlot(outq[i]))
  BY <1>1 DEF Carries, HasSlot
\* Every frame held after a step was held before it, in a variable of its own.
<1>3. ASSUME NEW src \in [Holders -> Holders],
             \A h, k \in Holders : Holds(h)' /\ Holds(k)' /\ h # k => src[h] # src[k],
             \A h \in Holders : Holds(h)' =>
               Holds(src[h]) /\ held'[h].slot = held[src[h]].slot
      PROVE  HeldApart' /\ QueueApart' /\ HandApart'
  <2>1. HeldApart'
    BY <1>3 DEF SlotsInv, HeldApart
  <2>2. HandApart'
    BY <1>1, <1>2, <1>3 DEF SlotsInv, HandApart
  <2>3. QueueApart'
    BY <1>1, <1>2, <1>3 DEF SlotsInv, QueueApart, HasSlot
  <2>. QED
    BY <2>1, <2>2, <2>3
<1>4. ASSUME NEW to \in Holders, NEW from \in Holders, MoveFrame(to, from)
      PROVE  SlotsInv'
  <2>1. /\ to # from /\ Holds(from) /\ held'[to] = held[from] /\ held'[from] = NoFrame
        /\ \A h \in Holders : h \notin {to, from} => held'[h] = held[h]
        /\ windows' = WindowsWithout(to)
    BY <1>4 DEF MoveFrame, DecTypes, DecHeldOK, Holds
  <2>2. HeldApart' /\ QueueApart' /\ HandApart'
    <3>. DEFINE src == [h \in Holders |-> IF h = to THEN from ELSE h]
    <3>1. src \in [Holders -> Holders] /\ \A h \in Holders : src[h] = IF h = to THEN from ELSE h
      OBVIOUS
    <3>. HIDE DEF src
    <3>2. \A h \in Holders : Holds(h)' =>
            /\ h # from /\ held'[h] = held[src[h]] /\ Holds(src[h])
      BY <2>1, <3>1 DEF Holds
    <3>3. \A h, k \in Holders : Holds(h)' /\ Holds(k)' /\ h # k => src[h] # src[k]
      BY <3>1, <3>2
    <3>. QED
      BY <1>3, <3>1, <3>2, <3>3
  <2>3. \A s : s \in windows' <=> s \in windows /\ ~(Windowed(to) /\ s = held[to].slot)
    BY <2>1 DEF WindowsWithout, Windowed, Holds
  <2>4. ASSUME NEW s \in windows' PROVE \E h \in Holders : Windowed(h)' /\ s = held'[h].slot
    <3>1. PICK h \in Holders : Windowed(h) /\ s = held[h].slot
      BY <2>3, WindowsOf DEF SlotsInv
    <3>2. h # to
      BY <2>3, <3>1
    <3>3. PICK k \in Holders : held'[k] = held[h]
      BY <2>1, <3>2
    <3>. QED
      BY <3>1, <3>3 DEF Windowed, Holds
  <2>5. ASSUME NEW h \in Holders, Windowed(h)' PROVE held'[h].slot \in windows'
    <3>1. PICK k \in Holders : held'[h] = held[k] /\ k # to
      BY <2>1, <2>5 DEF Windowed, Holds
    <3>2. Windowed(k)
      BY <2>5, <3>1 DEF Windowed, Holds
    <3>3. held[k].slot \in windows
      BY <3>2, WindowsOf DEF SlotsInv
    <3>4. Windowed(to) => held[k].slot # held[to].slot
      BY <3>1, <3>2 DEF SlotsInv, HeldApart, Windowed
    <3>. QED
      BY <2>3, <3>1, <3>3, <3>4
  <2>6. WindowsAreHeld'
    BY <2>4, <2>5 DEF WindowsAreHeld, Windowed, Holds
  <2>. QED
    BY <2>2, <2>6 DEF SlotsInv
<1>5. ASSUME NEW x \in Holders, ResetFrame(x) \/ BeginCpuRead(x) \/ EndCpuRead(x)
      PROVE  HeldApart' /\ QueueApart' /\ HandApart'
  <2>1. \A h \in Holders : Holds(h)' => Holds(h) /\ held'[h].slot = held[h].slot
    <3>1. CASE ResetFrame(x)
      BY <3>1 DEF ResetFrame, DecTypes, DecHeldOK, Holds
    <3>2. CASE BeginCpuRead(x) \/ EndCpuRead(x)
      <4>1. PICK b \in BOOLEAN : held' = [held EXCEPT ![x] = [held[x] EXCEPT !.cpu_window = b]]
        BY <3>2 DEF BeginCpuRead, EndCpuRead
      <4>2. Holds(x) /\ held[x] \in VideoFrames
        BY <3>2 DEF BeginCpuRead, EndCpuRead, DecTypes, DecHeldOK, Holds
      <4>3. [held[x] EXCEPT !.cpu_window = b].slot = held[x].slot
        BY <4>2 DEF VideoFrames
      <4>. QED
        BY <4>1, <4>2, <4>3 DEF DecTypes, DecHeldOK, Holds
    <3>. QED
      BY <1>5, <3>1, <3>2
  <2>. DEFINE src == [h \in Holders |-> h]
  <2>2. src \in [Holders -> Holders] /\ \A h \in Holders : src[h] = h
    OBVIOUS
  <2>. HIDE DEF src
  <2>. QED
    BY <1>3, <2>1, <2>2
<1>6. ASSUME NEW x \in Holders, ResetFrame(x) \/ EndCpuRead(x) PROVE WindowsAreHeld'
  <2>1. /\ \A h \in Holders : h # x => held'[h] = held[h]
        /\ ~Windowed(x)' /\ windows' = WindowsWithout(x)
    <3>1. CASE ResetFrame(x)
      BY <3>1 DEF ResetFrame, DecTypes, DecHeldOK, Windowed, Holds
    <3>2. CASE EndCpuRead(x)
      <4>1. held' = [held EXCEPT ![x] = [held[x] EXCEPT !.cpu_window = FALSE]]
            /\ windows' = WindowsWithout(x) /\ held[x] # NoFrame
        BY <3>2 DEF EndCpuRead
      <4>2. held[x] \in VideoFrames
        BY <4>1 DEF DecTypes, DecHeldOK
      <4>3. ~[held[x] EXCEPT !.cpu_window = FALSE].cpu_window
        BY <4>2 DEF VideoFrames
      <4>4. held'[x] = [held[x] EXCEPT !.cpu_window = FALSE]
        BY <4>1 DEF DecTypes, DecHeldOK
      <4>5. ~Windowed(x)'
        BY <4>3, <4>4 DEF Windowed
      <4>. QED
        BY <4>1, <4>5 DEF DecTypes, DecHeldOK
    <3>. QED
      BY <1>6, <3>1, <3>2
  <2>2. \A s : s \in windows' <=> s \in windows /\ ~(Windowed(x) /\ s = held[x].slot)
    BY <2>1 DEF WindowsWithout, Windowed, Holds
  <2>3. ASSUME NEW s \in windows' PROVE \E h \in Holders : Windowed(h)' /\ s = held'[h].slot
    <3>1. PICK h \in Holders : Windowed(h) /\ s = held[h].slot
      BY <2>2, WindowsOf DEF SlotsInv
    <3>2. held'[h] = held[h]
      BY <2>1, <2>2, <3>1
    <3>. QED
      BY <3>1, <3>2 DEF Windowed, Holds
  <2>4. ASSUME NEW h \in Holders, Windowed(h)' PROVE held'[h].slot \in windows'
    <3>1. h # x /\ held'[h] = held[h]
      BY <2>1, <2>4
    <3>2. Windowed(h)
      BY <2>4, <3>1 DEF Windowed, Holds
    <3>3. held[h].slot \in windows
      BY <3>2, WindowsOf DEF SlotsInv
    <3>4. Windowed(x) => held[h].slot # held[x].slot
      BY <3>1, <3>2 DEF SlotsInv, HeldApart, Windowed
    <3>. QED
      BY <2>2, <3>1, <3>3, <3>4
  <2>. QED
    BY <2>3, <2>4 DEF WindowsAreHeld, Windowed, Holds
<1>7. ASSUME NEW x \in Holders, BeginCpuRead(x) PROVE WindowsAreHeld'
  <2>1. /\ held' = [held EXCEPT ![x] = [held[x] EXCEPT !.cpu_window = TRUE]]
        /\ windows' = windows \cup {held[x].slot} /\ held[x] # NoFrame
    BY <1>7 DEF BeginCpuRead
  <2>2. held[x] \in VideoFrames
    BY <2>1 DEF DecTypes, DecHeldOK
  <2>. DEFINE f == [held[x] EXCEPT !.cpu_window = TRUE]
  <2>3. f \in VideoFrames /\ f.cpu_window /\ f.slot = held[x].slot
    BY <2>2 DEF VideoFrames
  <2>4. held'[x] = f /\ \A h \in Holders : h # x => held'[h] = held[h]
    BY <2>1 DEF DecTypes, DecHeldOK
  <2>. HIDE DEF f
  <2>5. Windowed(x)' /\ held'[x].slot = held[x].slot
    BY <2>3, <2>4, DecoderAssumption DEF Windowed, Holds
  <2>6. ASSUME NEW s \in windows' PROVE \E h \in Holders : Windowed(h)' /\ s = held'[h].slot
    <3>1. CASE s = held[x].slot
      BY <2>5, <3>1
    <3>2. CASE s # held[x].slot
      <4>1. PICK h \in Holders : Windowed(h) /\ s = held[h].slot
        BY <2>1, <3>2, WindowsOf DEF SlotsInv
      <4>2. held'[h] = held[h]
        BY <2>4, <3>2, <4>1
      <4>. QED
        BY <4>1, <4>2 DEF Windowed, Holds
    <3>. QED
      BY <3>1, <3>2
  <2>7. ASSUME NEW h \in Holders, Windowed(h)' PROVE held'[h].slot \in windows'
    <3>1. CASE h = x
      BY <2>1, <2>5, <3>1
    <3>2. CASE h # x
      <4>1. held'[h] = held[h]
        BY <2>4, <3>2
      <4>2. Windowed(h)
        BY <2>7, <4>1 DEF Windowed, Holds
      <4>. QED
        BY <2>1, <4>1, <4>2, WindowsOf DEF SlotsInv
    <3>. QED
      BY <3>1, <3>2
  <2>. QED
    BY <2>6, <2>7 DEF WindowsAreHeld, Windowed, Holds
<1>. QED
  BY <1>4, <1>5, <1>6, <1>7 DEF FrameSteps, SlotsInv

LEMMA SlotsInvStep == DecTypes /\ SlotsInv /\ [Next]_vars => SlotsInv'
<1>. SUFFICES ASSUME DecTypes, SlotsInv, [Next]_vars PROVE SlotsInv'
  OBVIOUS
<1>1. CASE Feed \/ FeedEos \/ PutMarker \/ UnsetEosFed \/ ResetFlags \/ RecvTimeout
           \/ (\E h \in Holders : Recv(h)) \/ UNCHANGED vars
  <2>1. outq' = outq /\ held' = held /\ windows' = windows /\ hand' = hand
    BY <1>1 DEF Feed, FeedEos, PutMarker, UnsetEosFed, ResetFlags, RecvTimeout, Recv,
       vars, frameVars, mppVars, drainVars
  <2>. QED
    BY <2>1, SlotsKept
<1>2. CASE RecvInfoChange
  <2>1. outq' = outq /\ held' = held /\ windows' = windows /\ hand' = NoFrame
    BY <1>2 DEF RecvInfoChange, frameVars
  <2>. QED
    BY <2>1, SlotsKept DEF Carries
<1>3. CASE ResetMpp
  <2>1. outq' = <<>> /\ held' = held /\ windows' = windows /\ hand' = hand
    BY <1>3 DEF ResetMpp, frameVars, drainVars
  <2>2. QueueApart'
    <3>1. 1 .. Len(outq') = {}
      BY <2>1
    <3>. QED
      BY <3>1 DEF QueueApart
  <2>. QED
    BY <2>1, <2>2 DEF SlotsInv, HeldApart, HandApart, WindowsAreHeld, Holds, Carries, HasSlot
<1>. QED
  BY <1>1, <1>2, <1>3, SlotsDecode, SlotsTake, SlotsDeliver, SlotsOfFrames
     DEF Next, FrameSteps

LEMMA InitSlotsInv == Init => SlotsInv
<1>. SUFFICES ASSUME Init PROVE SlotsInv
  OBVIOUS
<1>1. outq = <<>> /\ hand = NoFrame /\ windows = {} /\ \A h \in Holders : ~Holds(h)
  BY DEF Init, Holds
<1>2. 1 .. Len(outq) = {}
  BY <1>1
<1>. QED
  BY <1>1, <1>2 DEF SlotsInv, HeldApart, QueueApart, HandApart, WindowsAreHeld, Carries, Holds

\* The kernel's CPU read windows are those of the frames the callers hold, and
\* a slot the VPU may write has none.
THEOREM WindowsCloseInTime == Spec => []WindowsAreHeld
<1>1. Init => DecTypes /\ SlotsInv
  BY InitDecTypes, InitSlotsInv
<1>2. DecTypes /\ SlotsInv /\ [Next]_vars => (DecTypes /\ SlotsInv)'
  BY DecTypesStep, SlotsInvStep
<1>3. SlotsInv => WindowsAreHeld
  BY DEF SlotsInv
<1>. QED
  BY <1>1, <1>2, <1>3, PTL DEF Spec

(***************************************************************************)
(* ParkedIsAnswered.                                                       *)
(***************************************************************************)
Asks(f) == f.kind = "info"
Asked == \/ \E i \in 1 .. Len(outq) : Asks(outq[i])
         \/ hand # NoFrame /\ Asks(hand)

LEMMA AskedIs ==
  DecTypes => (ParkedIsAnswered <=> (parked /\ faults = 0 => Asked))
<1>. SUFFICES ASSUME DecTypes
              PROVE  ParkedIsAnswered <=> (parked /\ faults = 0 => Asked)
  OBVIOUS
<1>1. DOMAIN outq = 1 .. Len(outq)
  BY LenProperties DEF DecTypes, DecQueuesOK
<1>. QED
  BY <1>1 DEF ParkedIsAnswered, Asked, Asks

LEMMA AnsweredStep ==
  DecTypes /\ (parked /\ faults = 0 => Asked) /\ [Next]_vars =>
    (parked' /\ faults' = 0 => Asked')
<1>. SUFFICES ASSUME DecTypes, parked /\ faults = 0 => Asked, [Next]_vars,
                     parked', faults' = 0
              PROVE  Asked'
  OBVIOUS
<1>0. faults \in Nat
  BY DEF DecTypes, DecFlagsOK
<1>1. CASE Feed \/ FeedEos \/ PutMarker \/ UnsetEosFed \/ ResetFlags \/ RecvTimeout
           \/ (\E h \in Holders : Recv(h)) \/ FrameSteps \/ UNCHANGED vars
  <2>1. /\ outq' = outq /\ hand' = hand /\ parked' = parked
        /\ faults' = faults \/ faults' = faults + 1
    <3>1. CASE Feed \/ FeedEos \/ UnsetEosFed \/ ResetFlags \/ RecvTimeout
      BY <3>1 DEF Feed, FeedEos, UnsetEosFed, ResetFlags, RecvTimeout,
         mppVars, drainVars, boundVars
    <3>2. CASE PutMarker
      BY <3>2 DEF PutMarker, drainVars
    <3>3. CASE \E h \in Holders : Recv(h)
      BY <3>3 DEF Recv, mppVars, boundVars
    <3>4. CASE FrameSteps
      BY <3>4 DEF FrameSteps, MoveFrame, ResetFrame, BeginCpuRead, EndCpuRead,
         OnlyFramesChange, mppVars, drainVars, boundVars
    <3>5. CASE UNCHANGED vars
      BY <3>5 DEF vars, mppVars, drainVars, boundVars
    <3>. QED
      BY <1>1, <3>1, <3>2, <3>3, <3>4, <3>5
  <2>2. parked /\ faults = 0
    BY <1>0, <2>1
  <2>. QED
    BY <2>1, <2>2 DEF Asked, Asks
<1>2. CASE MppDecode
  <2>1. faults' = faults /\ hand' = hand
    BY <1>2 DEF MppDecode, boundVars, drainVars
  <2>2. PICK f \in MppFrames : outq' = Append(outq, f) /\ Asks(f)
    BY <1>2, MppDecodes DEF Asks
  <2>3. /\ Len(outq) + 1 \in 1 .. Len(outq')
        /\ outq'[Len(outq) + 1] = f
    BY <2>2, AppendProperties, LenProperties DEF DecTypes, DecQueuesOK
  <2>. QED
    BY <2>2, <2>3 DEF Asked, Asks
<1>3. CASE RecvTake
  <2>1. /\ outq # <<>> /\ outq' = Tail(outq) /\ hand = NoFrame /\ parked' = parked
        /\ hand' = Head(outq) /\ faults' = faults /\ Head(outq) \in MppFrames
    <3>1. /\ outq # <<>> /\ outq' = Tail(outq) /\ hand = NoFrame /\ parked' = parked
          /\ \/ hand' = Head(outq) /\ faults' = faults
             \/ faults' = faults + 1
          /\ Head(outq) \in MppFrames
      BY <1>3, TakenFrame
    <3>2. faults' # faults + 1
      BY <1>0
    <3>. QED
      BY <3>1, <3>2
  <2>2. /\ Len(outq) \in Nat /\ Len(outq') = Len(outq) - 1 /\ Head(outq) = outq[1]
        /\ \A i \in 1 .. Len(outq') : outq'[i] = outq[i + 1]
    BY <2>1, HeadTailProperties, LenProperties, EmptySeq DEF DecTypes, DecQueuesOK
  <2>3. PICK i \in 1 .. Len(outq) : Asks(outq[i])
    BY <2>1 DEF Asked
  <2>4. CASE i = 1
    BY <2>1, <2>2, <2>3, <2>4, FrameShapes DEF Asked, Asks
  <2>5. CASE i # 1
    <3>1. i - 1 \in 1 .. Len(outq') /\ (i - 1) + 1 = i
      BY <2>2, <2>5
    <3>. QED
      BY <2>2, <2>3, <3>1 DEF Asked, Asks
  <2>. QED
    BY <2>4, <2>5
<1>4. CASE RecvInfoChange
  <2>1. \/ faults' = faults /\ parked' = FALSE
        \/ faults' = faults + 1
    BY <1>4, InfoChanges
  <2>. QED
    BY <1>0, <2>1
<1>5. CASE RecvFrame
  <2>1. outq' = outq /\ parked' = parked /\ faults' = faults /\ hand.kind # "info"
    BY <1>5 DEF RecvFrame, mppVars, boundVars
  <2>. QED
    BY <2>1 DEF Asked, Asks
<1>6. CASE ResetMpp
  BY <1>6 DEF ResetMpp
<1>. QED
  BY <1>1, <1>2, <1>3, <1>4, <1>5, <1>6 DEF Next, FrameSteps

\* A parked decode thread has its info change on the way to receive(), unless
\* the runtime has refused something.
THEOREM InfoChangesAreAnswered == Spec => []ParkedIsAnswered
<1>. DEFINE Inv == DecTypes /\ (parked /\ faults = 0 => Asked)
<1>1. Init => Inv
  BY InitDecTypes DEF Init
<1>2. Inv /\ [Next]_vars => Inv'
  BY DecTypesStep, AnsweredStep
<1>3. Inv => ParkedIsAnswered
  BY AskedIs
<1>. QED
  BY <1>1, <1>2, <1>3, PTL DEF Spec

(***************************************************************************)
(* FramesStayBacked.  Without an overlapping reset(), what is queued and   *)
(* in receive()'s hand comes from the pool in use: MPP parks behind an     *)
(* info change, so that one is the last frame before the pool is replaced. *)
(***************************************************************************)
OfPool(f) == HasSlot(f) => f.slot[1] = PoolNumber

Backed(v) ==
  v # NoFrame /\ v.slot[1] # 0 =>
    \E p \in Pools \ {NoPool} : /\ p.number = v.slot[1]
                                /\ v.below4g = (p.external /\ heapBelow4G(p.heap))

QueueOfPool ==
  \A i \in 1 .. Len(outq) : /\ OfPool(outq[i])
                            /\ Asks(outq[i]) => i = Len(outq) /\ parked

HandOfPool ==
  hand # NoFrame => /\ OfPool(hand)
                    /\ Asks(hand) => outq = <<>> /\ parked

BackedInv ==
  ~overlap => /\ QueueOfPool /\ HandOfPool
              /\ \A h \in Holders : Backed(held[h])

LEMMA BackedKept ==
  ASSUME BackedInv, pool_' = pool_, retired_' = retired_, outq' = outq, parked' = parked,
         hand' = hand \/ hand' = NoFrame, ~overlap' => ~overlap,
         \A h \in Holders : \/ held'[h] = NoFrame
                            \/ \E k \in Holders : /\ held[k] # NoFrame
                                 /\ held'[h].slot = held[k].slot
                                 /\ held'[h].below4g = held[k].below4g
  PROVE  BackedInv'
<1>. SUFFICES ASSUME ~overlap' PROVE BackedInv'
  BY DEF BackedInv
<1>1. Pools' = Pools /\ PoolNumber' = PoolNumber
  BY DEF Pools, PoolNumber
<1>2. QueueOfPool'
  BY <1>1 DEF BackedInv, QueueOfPool, OfPool, Asks, HasSlot
<1>3. HandOfPool'
  BY <1>1 DEF BackedInv, HandOfPool, OfPool, Asks, HasSlot
<1>4. ASSUME NEW h \in Holders PROVE Backed(held[h])'
  <2>1. CASE held'[h] = NoFrame
    BY <2>1 DEF Backed
  <2>2. CASE \E k \in Holders : /\ held[k] # NoFrame
                                /\ held'[h].slot = held[k].slot
                                /\ held'[h].below4g = held[k].below4g
    <3>1. PICK k \in Holders : /\ held[k] # NoFrame
                               /\ held'[h].slot = held[k].slot
                               /\ held'[h].below4g = held[k].below4g
      BY <2>2
    <3>2. Backed(held[k])
      BY DEF BackedInv
    <3>. QED
      BY <1>1, <3>1, <3>2 DEF Backed
  <2>. QED
    BY <2>1, <2>2
<1>. QED
  BY <1>2, <1>3, <1>4 DEF BackedInv

LEMMA BackedFrames == DecTypes /\ BackedInv /\ FrameSteps => BackedInv'
<1>. SUFFICES ASSUME DecTypes, BackedInv, FrameSteps PROVE BackedInv'
  OBVIOUS
<1>1. /\ pool_' = pool_ /\ retired_' = retired_ /\ outq' = outq /\ parked' = parked
      /\ hand' = hand /\ overlap' = overlap
  BY DEF FrameSteps, MoveFrame, ResetFrame, BeginCpuRead, EndCpuRead,
     OnlyFramesChange, mppVars, drainVars, poolVars
<1>2. ASSUME NEW h \in Holders
      PROVE  \/ held'[h] = NoFrame
             \/ \E k \in Holders : /\ held[k] # NoFrame
                  /\ held'[h].slot = held[k].slot
                  /\ held'[h].below4g = held[k].below4g
  <2>. USE DEF DecTypes, DecHeldOK
  <2>1. ASSUME NEW to \in Holders, NEW from \in Holders, MoveFrame(to, from)
        PROVE  \E k \in Holders : held'[h] \in {held[k], NoFrame}
    BY <2>1 DEF MoveFrame
  <2>2. ASSUME NEW x \in Holders, ResetFrame(x)
        PROVE  \E k \in Holders : held'[h] \in {held[k], NoFrame}
    BY <2>2 DEF ResetFrame
  <2>3. ASSUME NEW x \in Holders, BeginCpuRead(x) \/ EndCpuRead(x)
        PROVE  \/ held'[h] = held[h]
               \/ /\ held[h] # NoFrame
                  /\ held'[h].slot = held[h].slot /\ held'[h].below4g = held[h].below4g
    <3>1. PICK b \in BOOLEAN : held' = [held EXCEPT ![x] = [held[x] EXCEPT !.cpu_window = b]]
      BY <2>3 DEF BeginCpuRead, EndCpuRead
    <3>2. held[x] # NoFrame /\ held[x] \in VideoFrames
      BY <2>3 DEF BeginCpuRead, EndCpuRead
    <3>3. /\ [held[x] EXCEPT !.cpu_window = b].slot = held[x].slot
          /\ [held[x] EXCEPT !.cpu_window = b].below4g = held[x].below4g
      BY <3>2 DEF VideoFrames
    <3>. QED
      BY <3>1, <3>2, <3>3
  <2>. HIDE DEF DecTypes, DecHeldOK
  <2>. QED
    BY <2>1, <2>2, <2>3 DEF FrameSteps
<1>. QED
  BY <1>1, <1>2, BackedKept

LEMMA BackedDecode == DecTypes /\ BackedInv /\ MppDecode => BackedInv'
<1>. SUFFICES ASSUME DecTypes, BackedInv, MppDecode, ~overlap' PROVE BackedInv'
  BY DEF BackedInv
<1>1. /\ pool_' = pool_ /\ retired_' = retired_ /\ held' = held /\ hand' = hand
      /\ overlap' = overlap
  BY DEF MppDecode, poolVars, frameVars, drainVars
<1>2. QueueOfPool /\ HandOfPool /\ ~parked
  BY <1>1, MppDecodes DEF BackedInv
<1>3. CASE outq' = outq /\ parked' = parked
  BY <1>1, <1>3, BackedKept DEF DecTypes, DecHeldOK
<1>4. CASE \E f \in MppFrames : /\ outq' = Append(outq, f)
                                /\ Asks(f) => parked' = TRUE /\ ~HasSlot(f)
                                /\ HasSlot(f) => f.slot[1] = PoolNumber
                                /\ ~Asks(f) => parked' = parked
  <2>1. PICK f \in MppFrames : /\ outq' = Append(outq, f)
                               /\ Asks(f) => parked' = TRUE /\ ~HasSlot(f)
                               /\ HasSlot(f) => f.slot[1] = PoolNumber
                               /\ ~Asks(f) => parked' = parked
    BY <1>4
  <2>2. /\ Len(outq) \in Nat /\ Len(outq') = Len(outq) + 1
        /\ \A i \in 1 .. Len(outq) : outq'[i] = outq[i]
        /\ outq'[Len(outq) + 1] = f
    BY <2>1, AppendProperties, LenProperties DEF DecTypes, DecQueuesOK
  <2>3. Pools' = Pools /\ PoolNumber' = PoolNumber
    BY <1>1 DEF Pools, PoolNumber
  <2>4. ASSUME NEW i \in 1 .. Len(outq')
        PROVE  /\ HasSlot(outq'[i]) => outq'[i].slot[1] = PoolNumber
               /\ Asks(outq'[i]) => i = Len(outq') /\ parked'
    <3>1. CASE i \in 1 .. Len(outq)
      BY <1>2, <2>2, <3>1 DEF QueueOfPool, OfPool
    <3>2. CASE i = Len(outq) + 1
      BY <2>1, <2>2, <3>2
    <3>. QED
      BY <2>2, <2>4, <3>1, <3>2
  <2>5. QueueOfPool'
    BY <2>3, <2>4 DEF QueueOfPool, OfPool, Asks, HasSlot
  <2>6. HandOfPool'
    BY <1>1, <1>2, <2>3 DEF HandOfPool, OfPool, Asks, HasSlot
  <2>7. ASSUME NEW h \in Holders PROVE Backed(held[h])'
    BY <1>1, <2>3 DEF BackedInv, Backed
  <2>. QED
    BY <2>5, <2>6, <2>7 DEF BackedInv
<1>5. \/ outq' = outq /\ parked' = parked
      \/ \E f \in MppFrames : /\ outq' = Append(outq, f)
                              /\ Asks(f) => parked' = TRUE /\ ~HasSlot(f)
                              /\ HasSlot(f) => f.slot[1] = PoolNumber
                              /\ ~Asks(f) => parked' = parked
  <2>1. \/ outq' = outq /\ parked' = parked
        \/ \E f \in MppFrames : /\ outq' = Append(outq, f)
                                /\ Asks(f) => parked' = TRUE
                                /\ HasSlot(f) => FreeSlots # {} /\ f.slot = NextSlot
                                /\ ~Asks(f) => parked' = parked
    BY MppDecodes DEF Answers, Asks
  <2>2. FreeSlots # {} => NextSlot[1] = PoolNumber
    BY NextSlotIsFree
  <2>3. \A f \in MppFrames : Asks(f) => ~HasSlot(f)
    BY FrameShapes DEF Asks
  <2>. QED
    BY <2>1, <2>2, <2>3
<1>. QED
  BY <1>3, <1>4, <1>5

LEMMA BackedTake == DecTypes /\ BackedInv /\ RecvTake => BackedInv'
<1>. SUFFICES ASSUME DecTypes, BackedInv, RecvTake, ~overlap' PROVE BackedInv'
  BY DEF BackedInv
<1>1. /\ pool_' = pool_ /\ retired_' = retired_ /\ held' = held /\ hand = NoFrame
      /\ overlap' = overlap /\ parked' = parked /\ hand' \in {NoFrame, Head(outq)}
      /\ outq # <<>> /\ outq' = Tail(outq)
  BY TakenFrame DEF poolVars, frameVars
<1>2. /\ Len(outq) \in Nat /\ Len(outq) >= 1 /\ Len(outq') = Len(outq) - 1
      /\ \A i \in 1 .. Len(outq') : outq'[i] = outq[i + 1]
      /\ Head(outq) = outq[1] /\ (Len(outq) = 1 => outq' = <<>>)
  BY <1>1, HeadTailProperties, LenProperties, EmptySeq DEF DecTypes, DecQueuesOK
<1>3. Pools' = Pools /\ PoolNumber' = PoolNumber
  BY <1>1 DEF Pools, PoolNumber
<1>4. QueueOfPool
  BY <1>1 DEF BackedInv
<1>5. ASSUME NEW i \in 1 .. Len(outq')
      PROVE  /\ HasSlot(outq'[i]) => outq'[i].slot[1] = PoolNumber
             /\ Asks(outq'[i]) => i = Len(outq') /\ parked'
  <2>1. i + 1 \in 1 .. Len(outq) /\ (i + 1 = Len(outq) => i = Len(outq'))
    BY <1>2, <1>5
  <2>. QED
    BY <1>1, <1>2, <1>4, <1>5, <2>1 DEF QueueOfPool, OfPool
<1>6. QueueOfPool'
  BY <1>3, <1>5 DEF QueueOfPool, OfPool, Asks, HasSlot
<1>7. 1 \in 1 .. Len(outq)
  BY <1>2
<1>8. HandOfPool'
  BY <1>1, <1>2, <1>3, <1>4, <1>7 DEF QueueOfPool, HandOfPool, OfPool, Asks, HasSlot
<1>9. ASSUME NEW h \in Holders PROVE Backed(held[h])'
  BY <1>1, <1>3 DEF BackedInv, Backed
<1>. QED
  BY <1>6, <1>8, <1>9 DEF BackedInv

LEMMA BackedDeliver == DecTypes /\ BackedInv /\ RecvFrame => BackedInv'
<1>. SUFFICES ASSUME DecTypes, BackedInv, RecvFrame, ~overlap' PROVE BackedInv'
  BY DEF BackedInv
<1>1. /\ pool_' = pool_ /\ retired_' = retired_ /\ outq' = outq /\ hand' = NoFrame
      /\ overlap' = overlap /\ parked' = parked /\ hand \in MppFrames
      /\ \/ held' = held
         \/ HasSlot(hand) /\ Deliver(target, hand.slot)
      /\ target \in Holders
  BY HandledFrame DEF poolVars, frameVars, mppVars
<1>2. CASE held' = held
  BY <1>1, <1>2, BackedKept DEF DecTypes, DecHeldOK
<1>3. CASE HasSlot(hand) /\ Deliver(target, hand.slot)
  <2>1. Pools' = Pools /\ PoolNumber' = PoolNumber
    BY <1>1 DEF Pools, PoolNumber
  <2>2. QueueOfPool' /\ HandOfPool'
    BY <1>1, <2>1 DEF BackedInv, QueueOfPool, HandOfPool, OfPool, Asks, HasSlot
  <2>. DEFINE f == [slot |-> hand.slot, below4g |-> Below4G, cpu_window |-> FALSE]
  <2>3. f.slot = hand.slot /\ f.below4g = Below4G
    OBVIOUS
  <2>4. \A h \in Holders : held'[h] \in {held[h], f}
    BY <1>3 DEF Deliver, DecTypes, DecHeldOK
  <2>5. hand.slot[1] = PoolNumber
    <3>1. hand # NoFrame
      BY <1>1, FrameShapes
    <3>. QED
      BY <1>1, <1>3, <3>1 DEF BackedInv, HandOfPool, OfPool
  <2>. HIDE DEF f
  <2>6. ASSUME NEW h \in Holders PROVE Backed(held[h])'
    <3>1. CASE held'[h] = held[h]
      BY <1>1, <2>1, <3>1 DEF BackedInv, Backed
    <3>2. CASE held'[h] = f
      <4>1. SUFFICES ASSUME hand.slot[1] # 0
                     PROVE  \E p \in Pools \ {NoPool} :
                              /\ p.number = hand.slot[1]
                              /\ Below4G = (p.external /\ heapBelow4G(p.heap))
        BY <2>1, <2>3, <3>2 DEF Backed
      <4>2. pool_ # NoPool /\ pool_.number = hand.slot[1]
        BY <2>5, <4>1 DEF PoolNumber
      <4>3. Below4G = (pool_.external /\ heapBelow4G(pool_.heap))
        BY <4>2, Zenon DEF Below4G
      <4>4. pool_ \in Pools
        BY DEF Pools
      <4>. QED
        BY <4>2, <4>3, <4>4
    <3>. QED
      BY <2>4, <3>1, <3>2
  <2>. QED
    BY <2>2, <2>6 DEF BackedInv
<1>. QED
  BY <1>1, <1>2, <1>3

LEMMA BackedChange == DecTypes /\ BackedInv /\ RecvInfoChange => BackedInv'
<1>. SUFFICES ASSUME DecTypes, BackedInv, RecvInfoChange, ~overlap' PROVE BackedInv'
  BY DEF BackedInv
<1>1. /\ hand \in MppFrames /\ Asks(hand) /\ hand' = NoFrame /\ held' = held
      /\ outq' = outq /\ overlap' = overlap
      /\ \/ pool_' = pool_ /\ retired_' = retired_
         \/ Replaces(hand.header)
  BY InfoChanges DEF frameVars, Asks
<1>2. outq = <<>>
  <2>1. hand # NoFrame
    BY <1>1, FrameShapes
  <2>. QED
    BY <1>1, <2>1 DEF BackedInv, HandOfPool
<1>3. QueueOfPool' /\ HandOfPool'
  <2>1. 1 .. Len(outq') = {}
    BY <1>1, <1>2
  <2>. QED
    BY <1>1, <2>1 DEF QueueOfPool, HandOfPool
<1>4. Pools \ {NoPool} \subseteq Pools'
  <2>1. CASE pool_' = pool_ /\ retired_' = retired_
    BY <2>1 DEF Pools
  <2>2. CASE Replaces(hand.header) /\ pool_ = NoPool
    BY <2>2 DEF Replaces, Pools
  <2>3. CASE Replaces(hand.header) /\ pool_ # NoPool
    <3>1. retired_' = Append(retired_, pool_) /\ pool_ \in FramePools
      BY <2>3 DEF Replaces, DecTypes, DecPoolsOK
    <3>2. /\ Len(retired_) \in Nat /\ DOMAIN retired_ = 1 .. Len(retired_)
          /\ DOMAIN retired_' = 1 .. (Len(retired_) + 1)
          /\ \A i \in 1 .. Len(retired_) : retired_'[i] = retired_[i]
          /\ retired_'[Len(retired_) + 1] = pool_
      BY <3>1, AppendProperties, LenProperties DEF DecTypes, DecPoolsOK
    <3>3. \A i \in 1 .. Len(retired_) : retired_[i] \in Range(retired_')
      BY <3>2 DEF Range
    <3>4. pool_ \in Range(retired_')
      BY <3>2 DEF Range
    <3>5. Range(retired_) \subseteq Range(retired_')
      BY <3>2, <3>3 DEF Range
    <3>. QED
      BY <3>4, <3>5 DEF Pools
  <2>. QED
    BY <1>1, <2>1, <2>2, <2>3
<1>5. ASSUME NEW h \in Holders PROVE Backed(held[h])'
  BY <1>1, <1>4 DEF BackedInv, Backed
<1>. QED
  BY <1>3, <1>5 DEF BackedInv

LEMMA BackedInvStep == DecTypes /\ BackedInv /\ [Next]_vars => BackedInv'
<1>. SUFFICES ASSUME DecTypes, BackedInv, [Next]_vars PROVE BackedInv'
  OBVIOUS
<1>1. CASE Feed \/ FeedEos \/ PutMarker \/ UnsetEosFed \/ ResetFlags \/ RecvTimeout
           \/ (\E h \in Holders : Recv(h)) \/ UNCHANGED vars
  <2>1. /\ pool_' = pool_ /\ retired_' = retired_ /\ outq' = outq /\ parked' = parked
        /\ hand' = hand /\ held' = held /\ (~overlap' => ~overlap)
    <3>1. CASE Feed \/ UnsetEosFed \/ ResetFlags
      BY <3>1 DEF Feed, UnsetEosFed, ResetFlags, poolVars, frameVars, mppVars, drainVars
    <3>4. CASE FeedEos
      BY <3>4 DEF FeedEos, poolVars, frameVars, mppVars, drainVars
    <3>5. CASE PutMarker
      BY <3>5 DEF PutMarker, poolVars, frameVars, drainVars
    <3>2. CASE RecvTimeout \/ UNCHANGED vars
      BY <3>2 DEF RecvTimeout, vars, poolVars, frameVars, mppVars, drainVars
    <3>3. CASE \E h \in Holders : Recv(h)
      BY <3>3 DEF Recv, poolVars, frameVars, mppVars
    <3>. QED
      BY <1>1, <3>1, <3>2, <3>3, <3>4, <3>5
  <2>. QED
    BY <2>1, BackedKept DEF DecTypes, DecHeldOK
<1>2. CASE ResetMpp
  <2>1. /\ pool_' = pool_ /\ retired_' = retired_ /\ outq' = <<>> /\ hand' = hand
        /\ held' = held /\ overlap' = (overlap \/ feeder # "idle" \/ drainer # "idle")
    BY <1>2 DEF ResetMpp, poolVars, frameVars, drainVars
  <2>2. SUFFICES ASSUME ~overlap' PROVE BackedInv'
    BY DEF BackedInv
  <2>3. hand = NoFrame /\ ~overlap
    BY <2>1, <2>2 DEF DecTypes, DecDrainOK
  <2>4. 1 .. Len(outq') = {}
    BY <2>1
  <2>5. Pools' = Pools
    BY <2>1 DEF Pools
  <2>6. ASSUME NEW h \in Holders PROVE Backed(held[h])'
    BY <2>1, <2>3, <2>5 DEF BackedInv, Backed
  <2>. QED
    BY <2>1, <2>3, <2>4, <2>6 DEF BackedInv, QueueOfPool, HandOfPool
<1>. QED
  BY <1>1, <1>2, BackedDecode, BackedTake, BackedDeliver, BackedChange, BackedFrames
     DEF Next, FrameSteps

\* "Frames already handed out stay valid": their pool is still there, whatever
\* info changes and seeks come in between.
THEOREM FramesOutliveTheirPool == Spec => []FramesStayBacked
<1>1. Init => DecTypes /\ BackedInv
  <2>. SUFFICES ASSUME Init PROVE BackedInv
    BY InitDecTypes
  <2>1. 1 .. Len(outq) = {} /\ hand = NoFrame /\ \A h \in Holders : held[h] = NoFrame
    BY DEF Init
  <2>. QED
    BY <2>1 DEF BackedInv, QueueOfPool, HandOfPool, Backed
<1>2. DecTypes /\ BackedInv /\ [Next]_vars => (DecTypes /\ BackedInv)'
  BY DecTypesStep, BackedInvStep
<1>3. BackedInv => FramesStayBacked
  BY DEF BackedInv, Backed, FramesStayBacked
<1>. QED
  BY <1>1, <1>2, <1>3, PTL DEF Spec

(***************************************************************************)
(* MarkerAccounted.  Between feedEos() setting the flag and its putPacket() *)
(* the marker is the feeder's; a reset() nothing overlaps finds all threads *)
(* returned, and leaves none behind.                                       *)
(***************************************************************************)
IsEos(f) == f.kind = "eos"
HandEos == One(hand # NoFrame /\ IsEos(hand))
FeederEos == One(feeder \in {"put", "unset"})

MarkersNow == Cardinality(EosAt(inq)) + Cardinality(EosAt(outq)) + HandEos + One(eos_seen)

EosFlow ==
  ~overlap =>
    /\ resetter = "idle" /\ ~lost => MarkersNow + FeederEos = One(eos_fed)
    /\ resetter = "clear" =>
         /\ Cardinality(EosAt(inq)) = 0 /\ Cardinality(EosAt(outq)) = 0
         /\ feeder = "idle" /\ drainer = "idle"

LEMMA DecEosCounts ==
  ASSUME DecTypes
  PROVE  /\ Cardinality(EosAt(inq)) \in Nat /\ Cardinality(EosAt(outq)) \in Nat
         /\ HandEos \in {0, 1} /\ FeederEos \in {0, 1}
         /\ One(eos_seen) \in {0, 1} /\ One(eos_fed) \in {0, 1}
         /\ (drainer # "have" => HandEos = 0)
<1>1. Cardinality(EosAt(inq)) \in Nat /\ Cardinality(EosAt(outq)) \in Nat
  BY EosAtIsFinite DEF DecTypes, DecQueuesOK
<1>2. drainer # "have" => HandEos = 0
  BY DEF HandEos, One, DecTypes, DecDrainOK
<1>. QED
  BY <1>1, <1>2 DEF HandEos, FeederEos, One

LEMMA EosFlowKept ==
  ASSUME EosFlow, Cardinality(EosAt(inq')) = Cardinality(EosAt(inq)), outq' = outq,
         HandEos' = HandEos, eos_seen' = eos_seen, eos_fed' = eos_fed, feeder' = feeder,
         resetter' = resetter, ~lost' => ~lost, ~overlap' => ~overlap,
         resetter = "clear" /\ ~overlap' => drainer' = "idle"
  PROVE  EosFlow'
<1>1. MarkersNow' = MarkersNow /\ FeederEos' = FeederEos /\ One(eos_fed') = One(eos_fed)
  BY DEF MarkersNow, FeederEos, One
<1>. QED
  BY <1>1 DEF EosFlow

LEMMA EosFlowFeed ==
  DecTypes /\ EosFlow /\ (Feed \/ FeedEos \/ PutMarker \/ UnsetEosFed) => EosFlow'
<1>. SUFFICES ASSUME DecTypes, EosFlow, Feed \/ FeedEos \/ PutMarker \/ UnsetEosFed
              PROVE  EosFlow'
  OBVIOUS
<1>c. /\ Cardinality(EosAt(inq)) \in Nat /\ Cardinality(EosAt(outq)) \in Nat
      /\ HandEos \in {0, 1} /\ One(eos_seen) \in {0, 1} /\ One(eos_fed) \in {0, 1}
      /\ inq \in Seq(Chunks) /\ resetter \in {"idle", "clear"}
      /\ eos_fed \in BOOLEAN /\ overlap \in BOOLEAN
  BY DecEosCounts DEF DecTypes, DecQueuesOK, DecFlagsOK
<1>1. CASE Feed
  <2>1. PICK c \in Chunks : inq' = Append(inq, c) /\ c.kind # "eos"
    <3>1. PICK c \in [kind : {"header"}, header : Headers]
                       \cup [kind : {"picture", "corrupt"}] : inq' = Append(inq, c)
      BY <1>1 DEF Feed
    <3>2. c \in Chunks /\ c.kind # "eos"
      BY <3>1 DEF Chunks
    <3>. QED
      BY <3>1, <3>2
  <2>2. Cardinality(EosAt(inq')) = Cardinality(EosAt(inq))
    BY <1>c, <2>1, EosAppend
  <2>3. /\ outq' = outq /\ hand' = hand /\ eos_seen' = eos_seen /\ eos_fed' = eos_fed
        /\ feeder' = feeder /\ resetter' = resetter /\ lost' = lost
        /\ overlap' = overlap /\ drainer' = drainer
    BY <1>1 DEF Feed, eosVars, drainVars
  <2>4. HandEos' = HandEos
    BY <2>3 DEF HandEos, One, IsEos
  <2>5. resetter = "clear" /\ ~overlap' => drainer' = "idle"
    BY <2>3 DEF EosFlow
  <2>. QED
    BY <2>2, <2>3, <2>4, <2>5, EosFlowKept
<1>2. CASE FeedEos
  <2>1. /\ inq' = inq /\ outq' = outq /\ hand' = hand /\ eos_seen' = eos_seen
        /\ eos_fed' = TRUE /\ ~eos_fed /\ feeder' = "put" /\ feeder = "idle"
        /\ resetter' = resetter /\ lost' = lost
        /\ overlap' = (overlap \/ resetter # "idle")
    BY <1>2 DEF FeedEos, mppVars, drainVars
  <2>2. MarkersNow' = MarkersNow
    BY <2>1 DEF MarkersNow, HandEos, One, IsEos
  <2>3. FeederEos = 0 /\ FeederEos' = 1 /\ One(eos_fed) = 0 /\ One(eos_fed') = 1
    BY <2>1 DEF FeederEos, One
  <2>4. MarkersNow \in Nat
    BY <1>c DEF MarkersNow
  <2>5. SUFFICES ASSUME ~overlap' PROVE EosFlow'
    BY DEF EosFlow
  <2>6. ~overlap /\ resetter = "idle" /\ resetter' = "idle"
    BY <2>1, <2>5
  <2>7. ~lost' => MarkersNow' + FeederEos' = One(eos_fed')
    BY <2>1, <2>2, <2>3, <2>4, <2>6 DEF EosFlow
  <2>. QED
    BY <2>6, <2>7 DEF EosFlow
<1>3. CASE PutMarker
  <2>1. /\ outq' = outq /\ hand' = hand /\ eos_seen' = eos_seen /\ eos_fed' = eos_fed
        /\ feeder = "put" /\ resetter' = resetter /\ overlap' = overlap
        /\ drainer' = drainer
    BY <1>3 DEF PutMarker, eosVars, drainVars
  <2>2. HandEos' = HandEos /\ One(eos_seen') = One(eos_seen) /\ One(eos_fed') = One(eos_fed)
        /\ FeederEos = 1
    BY <2>1 DEF HandEos, FeederEos, One, IsEos
  <2>3. \/ inq' = Append(inq, [kind |-> "eos"]) /\ feeder' = "idle" /\ lost' = lost
        \/ inq' = inq /\ feeder' = "unset" /\ lost' = lost
        \/ lost' = TRUE
    BY <1>3 DEF PutMarker
  <2>4. CASE inq' = Append(inq, [kind |-> "eos"]) /\ feeder' = "idle" /\ lost' = lost
    <3>1. [kind |-> "eos"] \in Chunks /\ [kind |-> "eos"].kind = "eos"
      BY DEF Chunks
    <3>2. Cardinality(EosAt(inq')) = Cardinality(EosAt(inq)) + 1
      BY <1>c, <2>4, <3>1, EosAppend
    <3>3. FeederEos' = 0
      BY <2>4 DEF FeederEos, One
    <3>. QED
      BY <1>c, <2>1, <2>2, <2>4, <3>2, <3>3 DEF EosFlow, MarkersNow
  <2>5. CASE inq' = inq /\ feeder' = "unset" /\ lost' = lost
    <3>1. FeederEos' = 1
      BY <2>5 DEF FeederEos, One
    <3>. QED
      BY <1>c, <2>1, <2>2, <2>5, <3>1 DEF EosFlow, MarkersNow
  <2>6. CASE lost' = TRUE
    BY <1>c, <2>1, <2>6 DEF EosFlow
  <2>. QED
    BY <2>3, <2>4, <2>5, <2>6
<1>4. CASE UnsetEosFed
  <2>1. /\ inq' = inq /\ outq' = outq /\ hand' = hand /\ eos_seen' = eos_seen
        /\ eos_fed' = FALSE /\ feeder' = "idle" /\ feeder = "unset"
        /\ resetter' = resetter /\ lost' = lost /\ overlap' = overlap
    BY <1>4 DEF UnsetEosFed, mppVars, drainVars
  <2>2. MarkersNow' = MarkersNow
    BY <2>1 DEF MarkersNow, HandEos, One, IsEos
  <2>3. FeederEos = 1 /\ FeederEos' = 0 /\ One(eos_fed') = 0
    BY <2>1 DEF FeederEos, One
  <2>4. MarkersNow \in Nat
    BY <1>c DEF MarkersNow
  <2>. QED
    BY <1>c, <2>1, <2>2, <2>3, <2>4 DEF EosFlow
<1>. QED
  BY <1>1, <1>2, <1>3, <1>4

LEMMA EosFlowDecode == DecTypes /\ EosFlow /\ MppDecode => EosFlow'
<1>. SUFFICES ASSUME DecTypes, EosFlow, MppDecode PROVE EosFlow'
  OBVIOUS
<1>1. /\ hand' = hand /\ eos_seen' = eos_seen /\ eos_fed' = eos_fed
      /\ feeder' = feeder /\ resetter' = resetter /\ lost' = lost
      /\ overlap' = overlap /\ drainer' = drainer
  BY DEF MppDecode, eosVars, drainVars
<1>2. /\ HandEos' = HandEos /\ One(eos_seen') = One(eos_seen)
      /\ One(eos_fed') = One(eos_fed) /\ FeederEos' = FeederEos
  BY <1>1 DEF HandEos, FeederEos, One, IsEos
<1>c. /\ Cardinality(EosAt(inq)) \in Nat /\ Cardinality(EosAt(outq)) \in Nat
      /\ inq \in Seq(Chunks) /\ outq \in Seq(MppFrames)
      /\ HandEos \in {0, 1} /\ One(eos_seen) \in {0, 1} /\ One(eos_fed) \in {0, 1}
      /\ FeederEos \in {0, 1}
  BY DecEosCounts DEF DecTypes, DecQueuesOK
<1>d. Cardinality(EosAt(inq')) \in Nat /\ Cardinality(EosAt(outq')) \in Nat
  BY MppTypes, EosAtIsFinite DEF DecTypes, DecQueuesOK
<1>3. PICK c \in Chunks :
        /\ inq # <<>> /\ c = Head(inq) /\ inq' = Tail(inq)
        /\ \/ outq' = outq /\ c.kind # "eos"
           \/ \E f \in MppFrames : /\ outq' = Append(outq, f)
                                   /\ f.kind = "eos" <=> c.kind = "eos"
  BY MppDecodes DEF Answers
<1>4. Cardinality(EosAt(inq)) = Cardinality(EosAt(inq')) + One(c.kind = "eos")
  BY <1>c, <1>3, EosTail DEF One
<1>5. Cardinality(EosAt(outq')) = Cardinality(EosAt(outq)) + One(c.kind = "eos")
  <2>1. CASE outq' = outq /\ c.kind # "eos"
    BY <1>c, <2>1 DEF One
  <2>2. CASE \E f \in MppFrames : /\ outq' = Append(outq, f)
                                  /\ f.kind = "eos" <=> c.kind = "eos"
    BY <1>c, <2>2, EosAppend DEF One
  <2>. QED
    BY <1>3, <2>1, <2>2
<1>6. One(c.kind = "eos") \in {0, 1}
  BY DEF One
<1>. HIDE DEF One
<1>7. MarkersNow' = MarkersNow
  BY <1>c, <1>d, <1>2, <1>4, <1>5, <1>6 DEF MarkersNow
<1>8. Cardinality(EosAt(inq)) = 0 /\ Cardinality(EosAt(outq)) = 0 =>
        Cardinality(EosAt(inq')) = 0 /\ Cardinality(EosAt(outq')) = 0
  BY <1>c, <1>d, <1>4, <1>5, <1>6
<1>. QED
  BY <1>1, <1>2, <1>7, <1>8 DEF EosFlow

LEMMA EosFlowTake == DecTypes /\ EosFlow /\ RecvTake => EosFlow'
<1>. SUFFICES ASSUME DecTypes, EosFlow, RecvTake PROVE EosFlow'
  OBVIOUS
<1>. DEFINE x == Head(outq)
<1>1. /\ eos_seen' = eos_seen /\ eos_fed' = eos_fed /\ inq' = inq
      /\ feeder' = feeder /\ resetter' = resetter /\ overlap' = overlap
      /\ outq # <<>> /\ outq' = Tail(outq) /\ drainer = "poll" /\ hand = NoFrame
      /\ x \in MppFrames /\ outq' \in Seq(MppFrames)
  BY TakenFrame DEF eosVars
<1>2. \/ hand' = x /\ lost' = lost
      \/ hand' = NoFrame /\ lost' = (lost \/ x.kind = "eos")
  BY <1>1, TakenFrame
<1>3. /\ One(eos_seen') = One(eos_seen)
      /\ One(eos_fed') = One(eos_fed) /\ FeederEos' = FeederEos /\ HandEos = 0
  BY <1>1 DEF HandEos, FeederEos, One
<1>c. /\ Cardinality(EosAt(inq)) \in Nat /\ Cardinality(EosAt(outq)) \in Nat
      /\ outq \in Seq(MppFrames) /\ Cardinality(EosAt(outq')) \in Nat
      /\ One(eos_seen) \in {0, 1} /\ One(eos_fed) \in {0, 1}
      /\ FeederEos \in {0, 1} /\ resetter \in {"idle", "clear"}
  BY <1>1, DecEosCounts, EosAtIsFinite DEF DecTypes, DecQueuesOK, DecFlagsOK
<1>4. Cardinality(EosAt(outq)) = Cardinality(EosAt(outq')) + One(x.kind = "eos")
  BY <1>c, <1>1, EosTail DEF One
<1>5. One(x.kind = "eos") \in {0, 1}
  BY DEF One
<1>6. ~lost' => ~lost /\ HandEos' = One(x.kind = "eos")
  <2>1. CASE hand' = x /\ lost' = lost
    BY <1>1, <2>1, FrameShapes DEF HandEos, IsEos, One
  <2>2. CASE hand' = NoFrame /\ lost' = (lost \/ x.kind = "eos")
    BY <2>2 DEF HandEos, One
  <2>. QED
    BY <1>2, <2>1, <2>2
<1>. HIDE DEF x
<1>7. ~lost' => MarkersNow' = MarkersNow
  BY <1>1, <1>c, <1>3, <1>4, <1>5, <1>6 DEF MarkersNow
<1>. QED
  BY <1>1, <1>c, <1>3, <1>6, <1>7 DEF EosFlow

LEMMA EosFlowHandle == DecTypes /\ EosFlow /\ (RecvInfoChange \/ RecvFrame) => EosFlow'
<1>. SUFFICES ASSUME DecTypes, EosFlow, RecvInfoChange \/ RecvFrame PROVE EosFlow'
  OBVIOUS
<1>c. /\ Cardinality(EosAt(inq)) \in Nat /\ Cardinality(EosAt(outq)) \in Nat
      /\ One(eos_seen) \in {0, 1} /\ One(eos_fed) \in {0, 1}
      /\ FeederEos \in {0, 1} /\ resetter \in {"idle", "clear"}
      /\ eos_seen \in BOOLEAN
  BY DecEosCounts DEF DecTypes, DecQueuesOK, DecFlagsOK
<1>1. /\ eos_fed' = eos_fed /\ inq' = inq /\ outq' = outq
      /\ feeder' = feeder /\ resetter' = resetter /\ overlap' = overlap
      /\ lost' = lost /\ hand' = NoFrame /\ hand \in MppFrames /\ hand # NoFrame
      /\ drainer = "have" /\ eos_seen' = (eos_seen \/ IsEos(hand))
  <2>1. CASE RecvInfoChange
    <3>1. hand \in MppFrames /\ hand # NoFrame /\ ~IsEos(hand) /\ drainer = "have"
      BY <2>1, InfoChanges, FrameShapes DEF IsEos
    <3>. QED
      BY <1>c, <2>1, <3>1 DEF RecvInfoChange, eosVars
  <2>2. CASE RecvFrame
    <3>1. hand \in MppFrames /\ hand # NoFrame /\ drainer = "have"
          /\ eos_seen' = (eos_seen \/ IsEos(hand))
      BY <2>2, HandledFrame, FrameShapes DEF IsEos
    <3>. QED
      BY <2>2, <3>1 DEF RecvFrame, mppVars
  <2>. QED
    BY <2>1, <2>2
<1>2. HandEos' = 0 /\ HandEos = One(IsEos(hand)) /\ FeederEos' = FeederEos
      /\ One(eos_fed') = One(eos_fed)
  BY <1>1 DEF HandEos, FeederEos, One
<1>3. \/ eos_seen /\ IsEos(hand) /\ One(eos_seen) = 1 /\ One(IsEos(hand)) = 1
      \/ One(eos_seen') = One(eos_seen) + One(IsEos(hand))
  <2>1. CASE eos_seen /\ IsEos(hand)
    BY <2>1 DEF One
  <2>2. CASE ~IsEos(hand)
    <3>1. One(eos_seen') = One(eos_seen) /\ One(IsEos(hand)) = 0
      BY <1>1, <2>2 DEF One
    <3>. QED
      BY <1>c, <3>1
  <2>3. CASE ~eos_seen /\ IsEos(hand)
    <3>1. One(eos_seen') = 1 /\ One(IsEos(hand)) = 1 /\ One(eos_seen) = 0
      BY <1>1, <2>3 DEF One
    <3>. QED
      BY <3>1
  <2>. QED
    BY <2>1, <2>2, <2>3
<1>4. ASSUME ~overlap, resetter = "idle", ~lost
      PROVE  MarkersNow' + FeederEos' = One(eos_fed')
  <2>1. MarkersNow + FeederEos = One(eos_fed)
    BY <1>4 DEF EosFlow
  <2>2. One(IsEos(hand)) \in {0, 1}
    BY DEF One
  <2>. QED
    BY <1>1, <1>2, <1>3, <1>c, <2>1, <2>2 DEF MarkersNow
<1>. QED
  BY <1>1, <1>4, <1>c DEF EosFlow

LEMMA EosFlowStep == DecTypes /\ EosFlow /\ [Next]_vars => EosFlow'
<1>. SUFFICES ASSUME DecTypes, EosFlow, [Next]_vars PROVE EosFlow'
  OBVIOUS
<1>1. CASE FrameSteps \/ RecvTimeout \/ (\E h \in Holders : Recv(h)) \/ UNCHANGED vars
  <2>1. /\ inq' = inq /\ outq' = outq /\ hand' = hand /\ eos_seen' = eos_seen
        /\ eos_fed' = eos_fed /\ feeder' = feeder /\ resetter' = resetter
        /\ lost' = lost /\ (~overlap' => ~overlap)
        /\ drainer' \in {drainer, "idle"} \/ ~(resetter = "clear" /\ ~overlap')
    <3>1. CASE FrameSteps
      BY <3>1 DEF FrameSteps, MoveFrame, ResetFrame, BeginCpuRead, EndCpuRead,
         OnlyFramesChange, mppVars, drainVars, eosVars
    <3>2. CASE RecvTimeout
      BY <3>2 DEF RecvTimeout, RecvReturns, mppVars, eosVars
    <3>3. CASE \E h \in Holders : Recv(h)
      BY <3>3 DEF Recv, mppVars, eosVars
    <3>4. CASE UNCHANGED vars
      BY <3>4 DEF vars, mppVars, drainVars, eosVars
    <3>. QED
      BY <1>1, <3>1, <3>2, <3>3, <3>4
  <2>2. HandEos' = HandEos /\ Cardinality(EosAt(inq')) = Cardinality(EosAt(inq))
    BY <2>1 DEF HandEos, One, IsEos
  <2>3. resetter = "clear" /\ ~overlap' => drainer' = "idle"
    BY <2>1 DEF EosFlow
  <2>. QED
    BY <2>1, <2>2, <2>3, EosFlowKept
<1>2. CASE ResetMpp
  <2>1. /\ resetter' = "clear" /\ inq' = <<>> /\ outq' = <<>> /\ feeder' = feeder
        /\ drainer' = drainer
        /\ overlap' = (overlap \/ feeder # "idle" \/ drainer # "idle")
    BY <1>2 DEF ResetMpp, drainVars
  <2>2. Cardinality(EosAt(inq')) = 0 /\ Cardinality(EosAt(outq')) = 0
    BY <2>1, NoEosInEmpty
  <2>. QED
    BY <2>1, <2>2 DEF EosFlow
<1>3. CASE ResetFlags
  <2>1. /\ resetter = "clear" /\ resetter' = "idle" /\ inq' = inq /\ outq' = outq
        /\ feeder' = feeder /\ hand' = hand /\ drainer' = drainer /\ overlap' = overlap
        /\ eos_fed' = FALSE /\ eos_seen' = FALSE
    BY <1>3 DEF ResetFlags, mppVars, drainVars
  <2>2. SUFFICES ASSUME ~overlap PROVE MarkersNow' + FeederEos' = One(eos_fed')
    BY <2>1 DEF EosFlow
  <2>3. /\ Cardinality(EosAt(inq')) = 0 /\ Cardinality(EosAt(outq')) = 0
        /\ feeder' = "idle" /\ hand' = NoFrame
    BY <2>1, <2>2 DEF EosFlow, DecTypes, DecDrainOK
  <2>4. HandEos' = 0 /\ FeederEos' = 0 /\ One(eos_seen') = 0 /\ One(eos_fed') = 0
    BY <2>1, <2>3 DEF HandEos, FeederEos, One
  <2>. QED
    BY <2>3, <2>4 DEF MarkersNow
<1>. QED
  BY <1>1, <1>2, <1>3, EosFlowFeed, EosFlowDecode, EosFlowTake, EosFlowHandle
     DEF Next, FrameSteps

\* With the calls returned and none overlapped by a reset(), eos_fed says
\* exactly that one marker is in the decoder or has been drained.
THEOREM TheMarkerIsAccountedFor == Spec => []MarkerAccounted
<1>1. Init => DecTypes /\ EosFlow
  <2>. SUFFICES ASSUME Init PROVE EosFlow
    BY InitDecTypes
  <2>1. /\ inq = <<>> /\ outq = <<>> /\ hand = NoFrame /\ feeder = "idle"
        /\ resetter = "idle" /\ ~eos_seen /\ ~eos_fed
    BY DEF Init
  <2>2. Cardinality(EosAt(inq)) = 0 /\ Cardinality(EosAt(outq)) = 0
    BY <2>1, NoEosInEmpty
  <2>3. HandEos = 0 /\ FeederEos = 0 /\ One(eos_seen) = 0 /\ One(eos_fed) = 0
    BY <2>1 DEF HandEos, FeederEos, One
  <2>. QED
    BY <2>1, <2>2, <2>3 DEF EosFlow, MarkersNow
<1>2. DecTypes /\ EosFlow /\ [Next]_vars => (DecTypes /\ EosFlow)'
  BY DecTypesStep, EosFlowStep
<1>3. DecTypes /\ EosFlow => MarkerAccounted
  <2>. SUFFICES ASSUME DecTypes, EosFlow, feeder = "idle", resetter = "idle",
                       ~overlap, ~lost
                PROVE  Cardinality(EosAt(inq)) + Cardinality(EosAt(outq))
                         + (IF hand # NoFrame THEN Cardinality(EosAt(<<hand>>)) ELSE 0)
                         + (IF eos_seen THEN 1 ELSE 0) = IF eos_fed THEN 1 ELSE 0
    BY DEF MarkerAccounted, Markers, EosAt
  <2>1. hand # NoFrame => Cardinality(EosAt(<<hand>>)) = HandEos
    <3>1. EosAt(<<hand>>) = IF IsEos(hand) THEN {1} ELSE {}
      BY DEF EosAt, IsEos
    <3>. QED
      BY <3>1, FS_Singleton, FS_EmptySet DEF HandEos, One
  <2>2. hand = NoFrame => HandEos = 0
    BY DEF HandEos, One
  <2>3. MarkersNow + FeederEos = One(eos_fed) /\ FeederEos = 0
    BY DEF EosFlow, FeederEos, One
  <2>4. MarkersNow \in Nat
    BY DecEosCounts DEF MarkersNow
  <2>. QED
    BY <2>1, <2>2, <2>3, <2>4 DEF MarkersNow, One
<1>. QED
  BY <1>1, <1>2, <1>3, PTL DEF Spec

(***************************************************************************)
(* RetiredBounded.  `past` numbers the headers that were the latest one,   *)
(* by the switches before each; every info change under way is labelled    *)
(* with the number of its header, and the labels ascend from the pool's    *)
(* own, `cl`, over that of the frame in hand, `hl`, to the end of the      *)
(* queue.  A pool is replaced by one for a later header, unless it was     *)
(* made for a negotiation that a fault cut short.                          *)
(***************************************************************************)
Asking == hand # NoFrame /\ Asks(hand)

Labelled(past, lab, hl, cl) ==
  /\ past[switches] = latest
  /\ Len(lab) = Len(outq) /\ cl <= hl /\ hl <= switches
  /\ \A i \in 1 .. Len(outq) :
       /\ hl <= lab[i] /\ lab[i] <= switches
       /\ \A j \in 1 .. Len(outq) : i <= j => lab[i] <= lab[j]
       /\ Asks(outq[i]) => outq[i].header = past[lab[i]]
  /\ Asking => hand.header = past[hl]
  /\ Len(retired_) <= cl + faults
  /\ pool_ # NoPool => Len(retired_) + 1 <= cl + faults \/ PoolFits(past[cl])

NothingYet ==
  /\ latest = NoGeometry /\ switches = 0 /\ pool_ = NoPool /\ retired_ = <<>>
  /\ ~Asking /\ \A i \in 1 .. Len(outq) : ~Asks(outq[i])

RetiredInv ==
  \/ NothingYet
  \/ latest \in Headers
     /\ \E past \in [Nat -> Headers], lab \in Seq(Nat), hl, cl \in Nat :
          Labelled(past, lab, hl, cl)

LEMMA RetiredKept ==
  ASSUME DecTypes, RetiredInv, DecTypes',
         outq' = outq, hand' = hand \/ hand' = NoFrame, latest' = latest,
         switches' = switches, pool_' = pool_, retired_' = retired_,
         geometry' = geometry, cfg' = cfg, faults' = faults \/ faults' = faults + 1
  PROVE  RetiredInv'
<1>0. Asking' => Asking /\ hand' = hand
  BY DEF Asking, Asks
<1>1. CASE NothingYet
  BY <1>0, <1>1 DEF NothingYet, RetiredInv, Asks
<1>2. CASE /\ latest \in Headers
           /\ \E past \in [Nat -> Headers], lab \in Seq(Nat), hl, cl \in Nat :
                Labelled(past, lab, hl, cl)
  <2>1. PICK past \in [Nat -> Headers], lab \in Seq(Nat), hl \in Nat, cl \in Nat :
               Labelled(past, lab, hl, cl)
    BY <1>2
  <2>2. \A h : PoolFits(h)' <=> PoolFits(h)
    BY DEF PoolFits, SlotBytes, SlotCount
  <2>3. faults \in Nat /\ faults' \in Nat /\ faults' >= faults
        /\ Len(retired_) \in Nat
    BY LenProperties DEF DecTypes, DecFlagsOK, DecPoolsOK
  <2>4. Labelled(past, lab, hl, cl)'
    BY <1>0, <2>1, <2>2, <2>3 DEF Labelled, Asks
  <2>. QED
    BY <1>2, <2>1, <2>4 DEF RetiredInv
<1>. QED
  BY <1>1, <1>2 DEF RetiredInv

LEMMA RetiredDecode == DecTypes /\ RetiredInv /\ MppDecode => RetiredInv'
<1>. SUFFICES ASSUME DecTypes, RetiredInv, MppDecode PROVE RetiredInv'
  OBVIOUS
<1>0. /\ hand' = hand /\ pool_' = pool_ /\ retired_' = retired_ /\ geometry' = geometry
      /\ cfg' = cfg /\ faults' = faults /\ DecTypes'
  BY MppTypes DEF MppDecode, poolVars, drainVars, boundVars
<1>1. CASE outq' = outq /\ latest' = latest /\ switches' = switches
  BY <1>0, <1>1, RetiredKept
<1>2. ASSUME NEW f \in MppFrames, outq' = Append(outq, f),
             ~Asks(f) => latest' = latest /\ switches' = switches,
             Asks(f) => /\ latest' = f.header /\ f.header \in Headers
                        /\ switches' = IF latest \in {NoGeometry, f.header}
                                       THEN switches ELSE switches + 1
      PROVE  RetiredInv'
  <2>1. /\ Len(outq) \in Nat /\ Len(outq') = Len(outq) + 1
        /\ \A i \in 1 .. Len(outq) : outq'[i] = outq[i]
        /\ outq'[Len(outq) + 1] = f
    BY <1>2, AppendProperties, LenProperties DEF DecTypes, DecQueuesOK
  <2>2. \A i \in 1 .. Len(outq') : i \in 1 .. Len(outq) \/ i = Len(outq) + 1
    BY <2>1
  <2>3. \A h : PoolFits(h)' <=> PoolFits(h)
    BY <1>0 DEF PoolFits, SlotBytes, SlotCount
  <2>4. Asking' <=> Asking
    BY <1>0 DEF Asking, Asks
  <2>5. faults \in Nat /\ Len(retired_) \in Nat /\ switches \in Nat
    BY LenProperties DEF DecTypes, DecFlagsOK, DecPoolsOK, DecHeadersOK
  <2>6. CASE NothingYet /\ ~Asks(f)
    <3>1. \A i \in 1 .. Len(outq') : ~Asks(outq'[i])
      BY <2>1, <2>2, <2>6 DEF NothingYet
    <3>2. NothingYet'
      BY <1>0, <1>2, <2>4, <2>6, <3>1 DEF NothingYet, Asks
    <3>. QED
      BY <3>2 DEF RetiredInv
  <2>7. CASE NothingYet /\ Asks(f)
    <3>a. PICK past \in [Nat -> Headers] : \A n \in Nat : past[n] = f.header
      <4>1. [n \in Nat |-> f.header] \in [Nat -> Headers]
        BY <1>2, <2>7
      <4>. QED
        BY <4>1
    <3>b. PICK lab \in Seq(Nat) :
            Len(lab) = Len(outq') /\ \A i \in 1 .. Len(outq') : lab[i] = 0
      <4>1. Len(outq') \in Nat
        BY <2>1
      <4>. DEFINE zeros == [i \in 1 .. Len(outq') |-> 0]
      <4>2. zeros \in Seq(Nat) /\ Len(zeros) = Len(outq')
            /\ \A i \in 1 .. Len(outq') : zeros[i] = 0
        BY <4>1
      <4>. HIDE DEF zeros
      <4>. QED
        BY <4>2
    <3>2. switches' = 0 /\ latest' = f.header
      BY <1>2, <2>7 DEF NothingYet
    <3>3. \A i \in 1 .. Len(outq') : Asks(outq'[i]) => outq'[i].header = f.header
      BY <2>1, <2>2, <2>7 DEF NothingYet
    <3>4. Len(retired_') = 0 /\ pool_' = NoPool
      BY <1>0, <2>7 DEF NothingYet
    <3>5. ~Asking'
      BY <2>4, <2>7 DEF NothingYet
    <3>6. \A i \in 1 .. Len(outq') :
            /\ 0 <= lab[i] /\ lab[i] <= switches'
            /\ \A j \in 1 .. Len(outq') : i <= j => lab[i] <= lab[j]
            /\ Asks(outq'[i]) => outq'[i].header = past[lab[i]]
      BY <3>a, <3>b, <3>2, <3>3
    <3>7. Labelled(past, lab, 0, 0)'
      BY <1>0, <2>5, <3>a, <3>b, <3>2, <3>4, <3>5, <3>6 DEF Labelled, Asks
    <3>. QED
      BY <1>2, <2>7, <3>2, <3>7 DEF RetiredInv
  <2>8. CASE /\ latest \in Headers
             /\ \E past \in [Nat -> Headers], lab \in Seq(Nat), hl, cl \in Nat :
                  Labelled(past, lab, hl, cl)
    <3>1. PICK past \in [Nat -> Headers], lab \in Seq(Nat), hl \in Nat, cl \in Nat :
                 Labelled(past, lab, hl, cl)
      BY <2>8
    <3>2. /\ latest' \in Headers /\ switches' \in Nat /\ switches' >= switches
          /\ switches' = switches => latest' = latest
      <4>1. CASE Asks(f)
        <5>1. latest # NoGeometry
          BY <2>8, DecoderAssumption
        <5>. QED
          BY <1>2, <2>5, <4>1, <5>1
      <4>2. CASE ~Asks(f)
        BY <1>2, <2>5, <2>8, <4>2
      <4>. QED
        BY <4>1, <4>2
    <3>3. PICK past2 \in [Nat -> Headers] :
            /\ past2[switches'] = latest'
            /\ \A n \in Nat : n <= switches => past2[n] = past[n]
      <4>. DEFINE q == [past EXCEPT ![switches'] = latest']
      <4>1. /\ q \in [Nat -> Headers] /\ q[switches'] = latest'
            /\ \A n \in Nat : n <= switches => q[n] = past[n]
        BY <2>5, <3>1, <3>2 DEF Labelled
      <4>. HIDE DEF q
      <4>. QED
        BY <4>1
    <3>a. Len(lab) = Len(outq)
      BY <3>1 DEF Labelled
    <3>4. PICK lab2 \in Seq(Nat) :
            /\ Len(lab2) = Len(outq')
            /\ \A i \in 1 .. Len(outq) : lab2[i] = lab[i] /\ lab[i] \in Nat
            /\ lab2[Len(outq) + 1] = switches'
      <4>1. /\ Append(lab, switches') \in Seq(Nat)
            /\ Len(Append(lab, switches')) = Len(outq')
            /\ \A i \in 1 .. Len(outq) :
                 Append(lab, switches')[i] = lab[i] /\ lab[i] \in Nat
            /\ Append(lab, switches')[Len(outq) + 1] = switches'
        BY <2>1, <3>2, <3>a, AppendProperties, ElementOfSeq
      <4>. QED
        BY <4>1
    <3>5. /\ cl <= hl /\ hl <= switches
          /\ \A i \in 1 .. Len(outq) :
               /\ hl <= lab[i] /\ lab[i] <= switches
               /\ \A j \in 1 .. Len(outq) : i <= j => lab[i] <= lab[j]
               /\ Asks(outq[i]) => outq[i].header = past[lab[i]]
      BY <3>1 DEF Labelled
    <3>6. ASSUME NEW i \in 1 .. Len(outq')
          PROVE  /\ hl <= lab2[i] /\ lab2[i] <= switches'
                 /\ \A j \in 1 .. Len(outq') : i <= j => lab2[i] <= lab2[j]
                 /\ Asks(outq'[i]) => outq'[i].header = past2[lab2[i]]
      <4>1. CASE i \in 1 .. Len(outq)
        <5>1. lab2[i] = lab[i] /\ lab[i] \in Nat /\ outq'[i] = outq[i]
          BY <2>1, <3>4, <4>1
        <5>2. hl <= lab[i] /\ lab[i] <= switches
          BY <3>5, <4>1
        <5>3. ASSUME NEW j \in 1 .. Len(outq'), i <= j PROVE lab2[i] <= lab2[j]
          <6>1. CASE j \in 1 .. Len(outq)
            BY <3>4, <3>5, <4>1, <5>1, <5>3, <6>1
          <6>2. CASE j = Len(outq) + 1
            BY <2>5, <3>2, <3>4, <5>1, <5>2, <6>2
          <6>. QED
            BY <2>2, <5>3, <6>1, <6>2
        <5>4. Asks(outq'[i]) => outq'[i].header = past2[lab2[i]]
          BY <3>3, <3>5, <4>1, <5>1, <5>2
        <5>. QED
          BY <2>5, <3>2, <5>1, <5>2, <5>3, <5>4
      <4>2. CASE i = Len(outq) + 1
        <5>1. lab2[i] = switches' /\ outq'[i] = f
          BY <2>1, <3>4, <4>2
        <5>2. \A j \in 1 .. Len(outq') : i <= j => j = i
          BY <2>1, <4>2
        <5>3. Asks(f) => f.header = past2[switches']
          BY <1>2, <3>3
        <5>. QED
          BY <2>5, <3>2, <3>5, <5>1, <5>2, <5>3
      <4>. QED
        BY <2>2, <3>6, <4>1, <4>2
    <3>7. Asking' => hand'.header = past2[hl]
      <4>1. Asking => hand.header = past[hl]
        BY <3>1 DEF Labelled
      <4>. QED
        BY <1>0, <2>4, <3>3, <3>5, <4>1
    <3>8. /\ Len(retired_') <= cl + faults'
          /\ pool_' # NoPool => \/ Len(retired_') + 1 <= cl + faults'
                                \/ PoolFits(past2[cl])'
      <4>1. past2[cl] = past[cl]
        BY <2>5, <3>3, <3>5
      <4>2. /\ Len(retired_) <= cl + faults
            /\ pool_ # NoPool => Len(retired_) + 1 <= cl + faults \/ PoolFits(past[cl])
        BY <3>1 DEF Labelled
      <4>. QED
        BY <1>0, <2>3, <4>1, <4>2
    <3>9. hl <= switches'
      BY <2>5, <3>2, <3>5
    <3>10. Labelled(past2, lab2, hl, cl)'
      BY <3>3, <3>4, <3>5, <3>6, <3>7, <3>8, <3>9 DEF Labelled, Asks
    <3>. QED
      BY <3>2, <3>3, <3>4, <3>10 DEF RetiredInv
  <2>. QED
    BY <2>6, <2>7, <2>8 DEF RetiredInv
<1>3. \/ outq' = outq /\ latest' = latest /\ switches' = switches
      \/ \E f \in MppFrames :
           /\ outq' = Append(outq, f)
           /\ ~Asks(f) => latest' = latest /\ switches' = switches
           /\ Asks(f) => /\ latest' = f.header /\ f.header \in Headers
                         /\ switches' = IF latest \in {NoGeometry, f.header}
                                        THEN switches ELSE switches + 1
  <2>1. \/ outq' = outq /\ latest' = latest /\ switches' = switches
        \/ \E f \in MppFrames :
             /\ outq' = Append(outq, f)
             /\ ~Asks(f) => latest' = latest /\ switches' = switches
             /\ Asks(f) => /\ latest' = f.header
                           /\ switches' = IF latest \in {NoGeometry, f.header}
                                          THEN switches ELSE switches + 1
    BY MppDecodes DEF Asks
  <2>2. \A f \in MppFrames : Asks(f) => f.header \in Headers
    BY FrameShapes DEF Asks
  <2>. QED
    BY <2>1, <2>2
<1>. QED
  BY <1>1, <1>2, <1>3


LEMMA RetiredTake == DecTypes /\ RetiredInv /\ RecvTake => RetiredInv'
<1>. SUFFICES ASSUME DecTypes, RetiredInv, RecvTake PROVE RetiredInv'
  OBVIOUS
<1>1. /\ outq # <<>> /\ outq' = Tail(outq) /\ outq \in Seq(MppFrames)
      /\ \/ hand' = Head(outq) /\ faults' = faults
         \/ hand' = NoFrame /\ faults' = faults + 1
  BY TakenFrame DEF DecTypes, DecQueuesOK
<1>2. /\ cfg' = cfg /\ pool_' = pool_ /\ retired_' = retired_ /\ geometry' = geometry
      /\ latest' = latest /\ switches' = switches
  BY TakenFrame DEF poolVars, parserVars
<1>3. /\ Len(outq) \in Nat /\ Len(outq) >= 1 /\ Len(outq') = Len(outq) - 1
      /\ Head(outq) = outq[1]
      /\ \A i \in 1 .. Len(outq') : i + 1 \in 1 .. Len(outq) /\ outq'[i] = outq[i + 1]
  BY <1>1, HeadTailProperties, LenProperties, EmptySeq
<1>4. /\ faults \in Nat /\ switches \in Nat /\ Len(retired_) \in Nat
  BY LenProperties DEF DecTypes, DecFlagsOK, DecPoolsOK, DecHeadersOK
<1>5. \A h : PoolFits(h)' <=> PoolFits(h)
  BY <1>2 DEF PoolFits, SlotBytes, SlotCount
<1>6. Asking' => Asks(outq[1]) /\ hand' = outq[1]
  BY <1>1, <1>3 DEF Asking, Asks
<1>7. CASE NothingYet
  <2>1. ~Asking' /\ \A i \in 1 .. Len(outq') : ~Asks(outq'[i])
    BY <1>3, <1>6, <1>7 DEF NothingYet
  <2>. QED
    BY <1>2, <1>7, <2>1 DEF NothingYet, RetiredInv, Asks
<1>8. CASE /\ latest \in Headers
           /\ \E past \in [Nat -> Headers], lab \in Seq(Nat), hl, cl \in Nat :
                Labelled(past, lab, hl, cl)
  <2>1. PICK past \in [Nat -> Headers], lab \in Seq(Nat), hl \in Nat, cl \in Nat :
               Labelled(past, lab, hl, cl)
    BY <1>8
  <2>2. /\ past[switches] = latest /\ Len(lab) = Len(outq)
        /\ cl <= hl /\ hl <= switches
        /\ \A i \in 1 .. Len(outq) :
             /\ hl <= lab[i] /\ lab[i] <= switches
             /\ \A j \in 1 .. Len(outq) : i <= j => lab[i] <= lab[j]
             /\ Asks(outq[i]) => outq[i].header = past[lab[i]]
        /\ Len(retired_) <= cl + faults
        /\ pool_ # NoPool => Len(retired_) + 1 <= cl + faults \/ PoolFits(past[cl])
    BY <2>1 DEF Labelled
  <2>3. /\ lab # <<>> /\ \A i \in 1 .. Len(outq) : lab[i] \in Nat
    BY <1>3, <2>2, ElementOfSeq
  <2>4. PICK lab2 \in Seq(Nat) : /\ Len(lab2) = Len(outq')
                                 /\ \A i \in 1 .. Len(outq') : lab2[i] = lab[i + 1]
    <3>1. /\ Tail(lab) \in Seq(Nat) /\ Len(Tail(lab)) = Len(outq')
          /\ \A i \in 1 .. Len(outq') : Tail(lab)[i] = lab[i + 1]
      BY <1>3, <2>2, <2>3, HeadTailProperties
    <3>. QED
      BY <3>1
  <2>5. /\ 1 \in 1 .. Len(outq) /\ lab[1] \in Nat
    BY <1>3, <2>3
  <2>6. \A i \in 1 .. Len(outq') :
          /\ lab[1] <= lab2[i] /\ lab2[i] <= switches'
          /\ \A j \in 1 .. Len(outq') : i <= j => lab2[i] <= lab2[j]
          /\ Asks(outq'[i]) => outq'[i].header = past[lab2[i]]
    <3>. SUFFICES ASSUME NEW i \in 1 .. Len(outq')
                  PROVE  /\ lab[1] <= lab2[i] /\ lab2[i] <= switches'
                         /\ \A j \in 1 .. Len(outq') : i <= j => lab2[i] <= lab2[j]
                         /\ Asks(outq'[i]) => outq'[i].header = past[lab2[i]]
      OBVIOUS
    <3>1. i \in Nat /\ i + 1 \in 1 .. Len(outq) /\ lab2[i] = lab[i + 1]
          /\ outq'[i] = outq[i + 1]
      BY <1>3, <2>4
    <3>2. lab[1] <= lab[i + 1]
      BY <2>2, <2>5, <3>1
    <3>3. ASSUME NEW j \in 1 .. Len(outq'), i <= j PROVE lab2[i] <= lab2[j]
      <4>1. j + 1 \in 1 .. Len(outq) /\ lab2[j] = lab[j + 1]
        BY <1>3, <2>4, <3>3
      <4>2. i + 1 <= j + 1
        BY <3>1, <3>3
      <4>3. lab[i + 1] <= lab[j + 1]
        BY <2>2, <3>1, <4>1, <4>2
      <4>. QED
        BY <3>1, <4>1, <4>3
    <3>. QED
      BY <1>2, <2>2, <3>1, <3>2, <3>3
  <2>7. Len(retired_') <= cl + faults'
        /\ (pool_' # NoPool => \/ Len(retired_') + 1 <= cl + faults'
                               \/ PoolFits(past[cl])')
    BY <1>1, <1>2, <1>4, <1>5, <2>2
  <2>8. CASE hand' = Head(outq) /\ faults' = faults
    <3>1. PICK hl2 \in Nat : hl2 = lab[1]
      BY <2>5
    <3>2. cl <= hl2 /\ hl2 <= switches'
      BY <1>2, <1>4, <2>2, <2>5, <3>1
    <3>3. Asking' => hand'.header = past[hl2]
      BY <1>6, <2>2, <2>5, <3>1
    <3>4. Labelled(past, lab2, hl2, cl)'
      BY <1>2, <2>2, <2>4, <2>6, <2>7, <3>1, <3>2, <3>3 DEF Labelled, Asks
    <3>. QED
      BY <1>2, <1>8, <3>4 DEF RetiredInv
  <2>9. CASE hand' = NoFrame /\ faults' = faults + 1
    <3>1. ~Asking'
      BY <2>9 DEF Asking
    <3>2. \A i \in 1 .. Len(outq') : hl <= lab2[i]
      BY <1>3, <2>2, <2>4
    <3>3. Labelled(past, lab2, hl, cl)'
      BY <1>2, <2>2, <2>4, <2>6, <2>7, <3>1, <3>2 DEF Labelled, Asks
    <3>. QED
      BY <1>2, <1>8, <3>3 DEF RetiredInv
  <2>. QED
    BY <1>1, <2>8, <2>9
<1>. QED
  BY <1>7, <1>8 DEF RetiredInv

LEMMA RetiredReset == DecTypes /\ RetiredInv /\ ResetMpp => RetiredInv'
<1>. SUFFICES ASSUME DecTypes, RetiredInv, ResetMpp PROVE RetiredInv'
  OBVIOUS
<1>1. /\ outq' = <<>> /\ cfg' = cfg /\ pool_' = pool_ /\ retired_' = retired_
      /\ geometry' = geometry /\ latest' = latest /\ switches' = switches
      /\ hand' = hand /\ faults' = faults
  BY DEF ResetMpp, poolVars, drainVars
<1>2. \A h : PoolFits(h)' <=> PoolFits(h)
  BY <1>1 DEF PoolFits, SlotBytes, SlotCount
<1>3. Len(outq') = 0 /\ \A i \in 1 .. Len(outq') : FALSE
  BY <1>1, EmptySeq
<1>4. Asking' <=> Asking
  BY <1>1 DEF Asking, Asks
<1>5. CASE NothingYet
  BY <1>1, <1>3, <1>4, <1>5 DEF NothingYet, RetiredInv
<1>6. CASE /\ latest \in Headers
           /\ \E past \in [Nat -> Headers], lab \in Seq(Nat), hl, cl \in Nat :
                Labelled(past, lab, hl, cl)
  <2>1. PICK past \in [Nat -> Headers], lab \in Seq(Nat), hl \in Nat, cl \in Nat :
               Labelled(past, lab, hl, cl)
    BY <1>6
  <2>2. PICK lab2 \in Seq(Nat) : Len(lab2) = 0
    BY EmptySeq
  <2>3. PoolFits(past[cl])' <=> PoolFits(past[cl])
    BY <1>2
  <2>4. Labelled(past, lab2, hl, cl)'
    BY <1>1, <1>3, <1>4, <2>1, <2>2, <2>3 DEF Labelled
  <2>. QED
    BY <1>1, <1>6, <2>4 DEF RetiredInv
<1>. QED
  BY <1>5, <1>6 DEF RetiredInv


\* A negotiation that no fault cuts short ends with a pool that fits.
LEMMA NegotiatedPoolFits ==
  ASSUME DecTypes, NEW hdr \in Headers, Replaces(hdr), cfg' = cfg,
         geometry' = GeometryOf(hdr), pool_' # NoPool
  PROVE  PoolFits(hdr)'
<1>1. /\ pool_' \in NewPools(hdr)
      /\ pool_'.external => pool_'.slot_bytes = SlotBytes(hdr) /\ pool_'.count = SlotCount(hdr)
  BY NewPoolsFit DEF Replaces
<1>2. SlotBytes(hdr) \in Int /\ SlotCount(hdr) \in Int
  BY SizesAreNumbers DEF DecTypes, DecPoolsOK
<1>3. SlotBytes(hdr)' = SlotBytes(hdr) /\ SlotCount(hdr)' = SlotCount(hdr)
  BY DEF SlotBytes, SlotCount
<1>4. GeometryOf(hdr)' = GeometryOf(hdr)
  BY DEF GeometryOf
<1>. QED
  BY <1>1, <1>2, <1>3, <1>4 DEF PoolFits

LEMMA RetiredChange == DecTypes /\ RetiredInv /\ RecvInfoChange => RetiredInv'
<1>. SUFFICES ASSUME DecTypes, RetiredInv, RecvInfoChange PROVE RetiredInv'
  OBVIOUS
<1>1. PICK hdr \in Headers : hdr = hand.header
  BY InfoChanges
<1>2. /\ hand \in MppFrames /\ hand.kind = "info" /\ hand' = NoFrame
      /\ \/ /\ pool_' = pool_ /\ retired_' = retired_ /\ geometry' = geometry
         \/ Replaces(hdr)
      /\ \/ faults' = faults /\ geometry' = GeometryOf(hdr)
         \/ faults' = faults + 1
      /\ cfg' = cfg /\ outq' = outq /\ latest' = latest /\ switches' = switches
  BY <1>1, InfoChanges DEF parserVars
<1>3. Asking
  BY <1>2, DecoderAssumption DEF Asking, Asks
<1>4. CASE /\ pool_' = pool_ /\ retired_' = retired_ /\ geometry' = geometry
  <2>1. DecTypes'
    BY DecTypesStep DEF Next
  <2>. QED
    BY <1>2, <1>4, <2>1, RetiredKept
<1>5. CASE Replaces(hdr)
  <2>1. ~NothingYet
    BY <1>3 DEF NothingYet
  <2>2. PICK past \in [Nat -> Headers], lab \in Seq(Nat), hl \in Nat, cl \in Nat :
               Labelled(past, lab, hl, cl)
    BY <2>1 DEF RetiredInv
  <2>3. latest \in Headers
    BY <2>1 DEF RetiredInv
  <2>4. /\ past[switches] = latest /\ Len(lab) = Len(outq)
        /\ cl <= hl /\ hl <= switches
        /\ \A i \in 1 .. Len(outq) :
             /\ hl <= lab[i] /\ lab[i] <= switches
             /\ \A j \in 1 .. Len(outq) : i <= j => lab[i] <= lab[j]
             /\ Asks(outq[i]) => outq[i].header = past[lab[i]]
        /\ past[hl] = hdr
        /\ Len(retired_) <= cl + faults
        /\ pool_ # NoPool => Len(retired_) + 1 <= cl + faults \/ PoolFits(past[cl])
    BY <1>1, <1>3, <2>2 DEF Labelled
  <2>5. /\ faults \in Nat /\ faults' \in Nat /\ faults' >= faults /\ switches \in Nat
        /\ Len(retired_) \in Nat
    BY <1>2, LenProperties DEF DecTypes, DecFlagsOK, DecPoolsOK, DecHeadersOK
  <2>6. Len(retired_') = IF pool_ = NoPool THEN Len(retired_) ELSE Len(retired_) + 1
    BY <1>5, AppendProperties DEF Replaces, DecTypes, DecPoolsOK
  <2>7. ~PoolFits(hdr)
    BY <1>5 DEF Replaces
  <2>8. Len(retired_') <= hl + faults
    <3>1. CASE pool_ = NoPool
      BY <2>4, <2>5, <2>6, <3>1
    <3>2. CASE pool_ # NoPool /\ Len(retired_) + 1 <= cl + faults
      BY <2>4, <2>5, <2>6, <3>2
    <3>3. CASE pool_ # NoPool /\ PoolFits(past[cl])
      <4>1. cl # hl
        BY <2>4, <2>7, <3>3
      <4>. QED
        BY <2>4, <2>5, <2>6, <3>3, <4>1
    <3>. QED
      BY <2>4, <3>1, <3>2, <3>3
  <2>9. Len(retired_') \in Nat
    BY <2>5, <2>6
  <2>10. ASSUME pool_' # NoPool
         PROVE  Len(retired_') + 1 <= hl + faults' \/ PoolFits(past[hl])'
    <3>1. CASE faults' = faults /\ geometry' = GeometryOf(hdr)
      <4>1. PoolFits(hdr)'
        BY <1>2, <1>5, <2>10, <3>1, NegotiatedPoolFits
      <4>. QED
        BY <2>4, <4>1
    <3>2. CASE faults' = faults + 1
      BY <2>5, <2>8, <2>9, <3>2
    <3>. QED
      BY <1>2, <3>1, <3>2
  <2>11. ~Asking'
    BY <1>2 DEF Asking
  <2>12. Len(retired_') <= hl + faults'
    BY <2>5, <2>8, <2>9
  <2>13. Labelled(past, lab, hl, hl)'
    BY <1>2, <2>4, <2>10, <2>11, <2>12 DEF Labelled, Asks
  <2>. QED
    BY <1>2, <2>3, <2>13 DEF RetiredInv
<1>. QED
  BY <1>2, <1>4, <1>5

LEMMA RetiredInvStep == DecTypes /\ RetiredInv /\ [Next]_vars => RetiredInv'
<1>. SUFFICES ASSUME DecTypes, RetiredInv, [Next]_vars PROVE RetiredInv'
  OBVIOUS
<1>. USE DEF poolVars, eosVars, frameVars, mppVars, parserVars, drainVars, boundVars
<1>0. DecTypes'
  BY DecTypesStep
<1>1. CASE Feed
  <2>1. /\ outq' = outq /\ hand' = hand /\ latest' = latest /\ switches' = switches
        /\ pool_' = pool_ /\ retired_' = retired_ /\ geometry' = geometry
        /\ cfg' = cfg /\ faults' = faults
    BY <1>1 DEF Feed
  <2>. QED
    BY <1>0, <2>1, RetiredKept
<1>2. CASE FeedEos \/ PutMarker \/ UnsetEosFed
  <2>1. /\ outq' = outq /\ hand' = hand /\ latest' = latest /\ switches' = switches
        /\ pool_' = pool_ /\ retired_' = retired_ /\ geometry' = geometry
        /\ cfg' = cfg /\ (faults' = faults \/ faults' = faults + 1)
    BY <1>2 DEF FeedEos, PutMarker, UnsetEosFed
  <2>. QED
    BY <1>0, <2>1, RetiredKept
<1>3. CASE MppDecode
  BY <1>3, RetiredDecode
<1>4. CASE (\E h \in Holders : Recv(h)) \/ RecvTimeout
  <2>1. /\ outq' = outq /\ hand' = hand /\ latest' = latest /\ switches' = switches
        /\ pool_' = pool_ /\ retired_' = retired_ /\ geometry' = geometry
        /\ cfg' = cfg /\ faults' = faults
    BY <1>4 DEF Recv, RecvTimeout
  <2>. QED
    BY <1>0, <2>1, RetiredKept
<1>5. CASE RecvTake
  BY <1>5, RetiredTake
<1>6. CASE RecvInfoChange
  BY <1>6, RetiredChange
<1>7. CASE RecvFrame
  <2>1. /\ outq' = outq /\ hand' = NoFrame /\ latest' = latest /\ switches' = switches
        /\ pool_' = pool_ /\ retired_' = retired_ /\ geometry' = geometry
        /\ cfg' = cfg /\ faults' = faults
    BY <1>7, HandledFrame
  <2>. QED
    BY <1>0, <2>1, RetiredKept
<1>8. CASE ResetMpp
  BY <1>8, RetiredReset
<1>9. CASE ResetFlags
  <2>1. /\ outq' = outq /\ hand' = hand /\ latest' = latest /\ switches' = switches
        /\ pool_' = pool_ /\ retired_' = retired_ /\ geometry' = geometry
        /\ cfg' = cfg /\ faults' = faults
    BY <1>9 DEF ResetFlags
  <2>. QED
    BY <1>0, <2>1, RetiredKept
<1>10. CASE FrameSteps
  <2>1. /\ outq' = outq /\ hand' = hand /\ latest' = latest /\ switches' = switches
        /\ pool_' = pool_ /\ retired_' = retired_ /\ geometry' = geometry
        /\ cfg' = cfg /\ faults' = faults
    BY <1>10 DEF FrameSteps, MoveFrame, ResetFrame, BeginCpuRead, EndCpuRead, OnlyFramesChange
  <2>. QED
    BY <1>0, <2>1, RetiredKept
<1>11. CASE UNCHANGED vars
  <2>1. /\ outq' = outq /\ hand' = hand /\ latest' = latest /\ switches' = switches
        /\ pool_' = pool_ /\ retired_' = retired_ /\ geometry' = geometry
        /\ cfg' = cfg /\ faults' = faults
    BY <1>11 DEF vars
  <2>. QED
    BY <1>0, <2>1, RetiredKept
<1>. QED
  BY <1>1, <1>2, <1>3, <1>4, <1>5, <1>6, <1>7, <1>8, <1>9, <1>10, <1>11 DEF Next, FrameSteps

\* handleInfoChange() keeps every pool it replaces: however often the callers
\* seek, no more pools are retired than the stream has changed its header and
\* the runtime has failed.
THEOREM RetiredPoolsAreBounded == Spec => []RetiredBounded
<1>1. Init => DecTypes /\ RetiredInv
  <2>1. Init => NothingYet
    BY EmptySeq DEF Init, NothingYet, Asking, Asks
  <2>. QED
    BY <2>1, InitDecTypes DEF RetiredInv
<1>2. DecTypes /\ RetiredInv /\ [Next]_vars => (DecTypes /\ RetiredInv)'
  BY DecTypesStep, RetiredInvStep
<1>3. DecTypes /\ RetiredInv => RetiredBounded
  <2>. SUFFICES ASSUME DecTypes, RetiredInv PROVE Len(retired_) <= switches + faults
    BY DEF RetiredBounded
  <2>1. faults \in Nat /\ switches \in Nat /\ Len(retired_) \in Nat
    BY LenProperties DEF DecTypes, DecFlagsOK, DecPoolsOK, DecHeadersOK
  <2>2. CASE NothingYet
    BY <2>1, <2>2, EmptySeq DEF NothingYet
  <2>3. CASE ~NothingYet
    <3>1. PICK past \in [Nat -> Headers], lab \in Seq(Nat), hl \in Nat, cl \in Nat :
                 Labelled(past, lab, hl, cl)
      BY <2>3 DEF RetiredInv
    <3>. QED
      BY <2>1, <3>1 DEF Labelled
  <2>. QED
    BY <2>2, <2>3
<1>. QED
  BY <1>1, <1>2, <1>3, PTL DEF Spec

=============================================================================

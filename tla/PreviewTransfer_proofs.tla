----------------------- MODULE PreviewTransfer_proofs -----------------------
(***************************************************************************)
(* Proofs about PreviewTransfer: for every list of images, packet size and *)
(* network, in order or not, repeating or not, readPreview writes outside   *)
(* its vector only after the first packet of an empty image, and fails its *)
(* assertion only for a packet with the id of one; and, provided that the  *)
(* 16-bit ids do not wrap (NoWrap), it returns nothing but whole images.   *)
(*                                                                         *)
(* The argument for whole images: a datagram in the network says           *)
(* truthfully which bytes of which image it carries (NetworkInv), and      *)
(* while readPreview does not discard, its vector holds the first `offset` *)
(* bytes of the image whose id is in currentImageId_ (ReaderInv).          *)
(*                                                                         *)
(* The argument for the vector needs no ids: until the last packet every   *)
(* accepted payload has MAX_PAYLOAD bytes, so that the offset stays a      *)
(* multiple of it (RoomInv), and the vector was rounded up to one.  Only   *)
(* an empty image leaves a vector without room, and the offset at 0        *)
(* (Emptied), and no packet is accepted for it.                            *)
(***************************************************************************)
EXTENDS PreviewTransfer, TLAPS

(* No more images than image ids, no image with more packets than ids. *)
NoWrap ==
  /\ Len(ImageSizes) <= IdModulus
  /\ \A k \in Images : ImageSizes[k] <= (IdModulus - 1) * MaxPayload

(* The bytes a datagram carries are where the protocol says they are. *)
Genuine(d) ==
  /\ d.image \in Images
  /\ \/ d.packet = 0 /\ d.size = HeaderPayload
     \/ /\ d.packet \in Nat \ {0}
        /\ d.offset = (d.packet - 1) * MaxPayload
        /\ d.offset \in Nat
        /\ d.offset < ImageSizes[d.image]
        /\ d.size \in Nat
        /\ d.size = IF ImageSizes[d.image] - d.offset < MaxPayload
                    THEN ImageSizes[d.image] - d.offset ELSE MaxPayload

NetworkInv == \A d \in network : Genuine(d)

(* Between two packets the sender's offset is a whole number of payloads,  *)
(* or the end of the image.                                                *)
SenderInv ==
  /\ sending \in Nat \ {0}
  /\ sentPackets \in Nat
  /\ sentBytes \in Nat
  /\ senderPc = "data" =>
       /\ sending \in Images
       /\ sentBytes < ImageSizes[sending] => sentBytes = sentPackets * MaxPayload

(* The first packet of an empty image came last. *)
Emptied ==
  /\ DOMAIN data = {} /\ byteCount = 0 /\ offset = 0
  /\ \E k \in Images : ImageSizes[k] = 0

(* The vector has room for a payload at the offset. *)
VectorInv ==
  readerPc = "receive" =>
    /\ offset \in Nat
    /\ \/ Emptied
       \/ \E n \in Nat :
            /\ DOMAIN data = 0..(n - 1)
            /\ offset + MaxPayload <= n
            /\ ~discard => n = RoundUp(byteCount)

(* While nothing is discarded, the vector holds the beginning of image k. *)
Holds(k) ==
  /\ currentImageId = k - 1
  /\ byteCount = ImageSizes[k]
  /\ nextPacketId \in Nat \ {0}
  /\ offset = (nextPacketId - 1) * MaxPayload
  /\ byteCount # 0 => offset < byteCount
  /\ \A i \in 0..(offset - 1) : data[i] = <<k, i>>

ReaderInv ==
  readerPc = "receive" /\ ~discard => \E k \in Images : Holds(k)

IInv == SenderInv /\ NetworkInv /\ VectorInv /\ ReaderInv /\ DeliveredWhole

-----------------------------------------------------------------------------
(* Arithmetic. *)

LEMMA ModSmall ==
  ASSUME NEW a \in Nat, NEW m \in Nat, a < m
  PROVE  a % m = a
OBVIOUS

LEMMA ProductOrder ==
  ASSUME NEW a \in Int, NEW b \in Int, NEW m \in Nat, a <= b
  PROVE  a * m <= b * m
<1>1. (b - a) * m >= 0
  OBVIOUS
<1>2. (b - a) * m = b * m - a * m
  OBVIOUS
<1>3. a * m \in Int /\ b * m \in Int
  OBVIOUS
<1>4. QED
  BY <1>1, <1>2, <1>3

LEMMA ProductStep ==
  ASSUME NEW a \in Int, NEW m \in Nat
  PROVE  (a + 1) * m = a * m + m /\ a * m \in Int
OBVIOUS

LEMMA DivFacts ==
  ASSUME NEW a \in Nat, NEW m \in Nat \ {0}
  PROVE  /\ a \div m \in Nat
         /\ (a \div m) * m <= a
         /\ a < (a \div m) * m + m
OBVIOUS

(* RoundUp rounds up to a multiple of MaxPayload. *)
LEMMA RoundUpFacts ==
  ASSUME NEW n \in Nat \ {0}
  PROVE  /\ RoundUp(n) \in Nat
         /\ RoundUp(n) >= n
         /\ RoundUp(n) >= MaxPayload
         /\ \A q \in Nat : q * MaxPayload < n =>
              q * MaxPayload + MaxPayload <= RoundUp(n)
<1> DEFINE M == MaxPayload  c == (n + M - 1) \div M
<1>1. M \in Nat \ {0}
  BY SizesAssumption
<1>2. /\ c \in Nat /\ c * M <= n + M - 1 /\ n + M - 1 < c * M + M
      /\ c * M \in Nat
  BY <1>1, DivFacts
<1>3. RoundUp(n) = c * M
  BY DEF RoundUp
<1>4. ASSUME NEW q \in Nat, q * M < n PROVE q * M + M <= c * M
  <2>1. q * M \in Nat
    BY <1>1
  <2>2. q + 1 <= c
    <3>1. SUFFICES ASSUME c <= q PROVE FALSE
      BY <1>2
    <3>2. c * M <= q * M
      BY <1>1, <1>2, <3>1, ProductOrder
    <3>3. QED
      BY <1>1, <1>2, <1>4, <2>1, <3>2
  <2>3. (q + 1) * M <= c * M
    BY <1>1, <1>2, <2>2, ProductOrder
  <2>4. QED
    BY <1>1, <2>3, ProductStep
<1>5. c * M >= n
  BY <1>1, <1>2
<1>6. c * M >= M
  <2>1. 0 * M < n /\ 0 * M = 0
    BY <1>1
  <2>2. QED
    BY <1>1, <1>4, <2>1
<1>7. QED
  BY <1>2, <1>3, <1>4, <1>5, <1>6

LEMMA RoundUpZero == RoundUp(0) = 0
<1> DEFINE M == MaxPayload  c == (M - 1) \div M
<1>1. M \in Nat \ {0} /\ 0 + M - 1 = M - 1 /\ M - 1 \in Nat
  BY SizesAssumption
<1>2. c \in Nat /\ c * M <= M - 1
  BY <1>1, DivFacts
<1>3. c = 0
  <2>1. SUFFICES ASSUME 1 <= c PROVE FALSE
    BY <1>2
  <2>2. 1 * M <= c * M
    BY <1>1, <1>2, <2>1, ProductOrder
  <2>3. 1 * M = M /\ c * M \in Int
    BY <1>1, <1>2
  <2>4. QED
    BY <1>1, <1>2, <2>2, <2>3
<1>4. RoundUp(0) = c * M
  BY <1>1 DEF RoundUp
<1>5. QED
  BY <1>1, <1>3, <1>4

(* What the constants are. *)
LEMMA ConstantFacts ==
  /\ MaxPayload \in Nat \ {0}
  /\ HeaderPayload \in Nat \ {0}
  /\ HeaderPayload <= MaxPayload
  /\ IdModulus \in Nat \ {0}
  /\ \A k \in Images : k \in Nat \ {0} /\ k <= Len(ImageSizes)
                       /\ ImageSizes[k] \in Nat
BY SizesAssumption DEF Images

-----------------------------------------------------------------------------
(* The ids on the wire are the numbers themselves when they do not wrap. *)
LEMMA WireIds ==
  ASSUME NoWrap, NEW d, Genuine(d)
  PROVE  /\ ImageId(d) = d.image - 1
         /\ d.packet \in Nat
         /\ PacketId(d) = d.packet
<1>1. /\ d.image \in Nat \ {0} /\ d.image <= IdModulus /\ IdModulus \in Nat \ {0}
      /\ d.image <= Len(ImageSizes) /\ Len(ImageSizes) \in Nat
  BY ConstantFacts, SizesAssumption DEF NoWrap, Genuine
<1>2. ImageId(d) = d.image - 1
  <2>1. d.image - 1 \in Nat /\ d.image - 1 < IdModulus
    BY <1>1
  <2>2. QED
    BY <2>1, <1>1, ModSmall DEF ImageId
<1>3. d.packet \in Nat /\ d.packet < IdModulus
  <2>1. CASE d.packet = 0
    BY <2>1, <1>1
  <2>2. CASE d.packet # 0
    <3>1. /\ d.packet \in Nat \ {0} /\ d.offset = (d.packet - 1) * MaxPayload
          /\ d.offset < ImageSizes[d.image] /\ d.image \in Images
      BY <2>2 DEF Genuine
    <3>2. /\ (d.packet - 1) * MaxPayload < (IdModulus - 1) * MaxPayload
      <4>1. /\ d.offset \in Nat /\ ImageSizes[d.image] \in Nat
            /\ ImageSizes[d.image] <= (IdModulus - 1) * MaxPayload
            /\ (IdModulus - 1) * MaxPayload \in Int
        BY <2>2, <3>1, <1>1, ConstantFacts DEF Genuine, NoWrap
      <4>2. QED
        BY <4>1, <3>1
    <3>3. SUFFICES ASSUME d.packet >= IdModulus PROVE FALSE
      BY <3>1, <1>1
    <3>4. (IdModulus - 1) * MaxPayload <= (d.packet - 1) * MaxPayload
      <4>1. /\ IdModulus - 1 \in Int /\ d.packet - 1 \in Int
            /\ IdModulus - 1 <= d.packet - 1
        BY <3>1, <3>3, <1>1
      <4>2. MaxPayload \in Nat
        BY ConstantFacts
      <4>3. QED
        BY ONLY <4>1, <4>2, ProductOrder
    <3>5. QED
      BY <3>2, <3>4, <3>1, <1>1, ConstantFacts
  <2>3. QED
    BY <2>1, <2>2
<1>4. PacketId(d) = d.packet
  BY <1>1, <1>3, ModSmall DEF PacketId
<1>5. QED
  BY <1>2, <1>3, <1>4

(* The sender puts only genuine datagrams in the network. *)
LEMMA SenderStep ==
  ASSUME SenderInv, NetworkInv, [Next]_vars
  PROVE  SenderInv' /\ NetworkInv'
<1>1. ASSUME SendHeader PROVE SenderInv' /\ NetworkInv'
  <2>1. Genuine([image |-> sending, packet |-> 0, offset |-> 0,
                 size |-> HeaderPayload])
    BY <1>1 DEF SendHeader, Genuine
  <2>2. NetworkInv'
    BY <1>1, <2>1 DEF SendHeader, NetworkInv
  <2>3. SenderInv'
    BY <1>1, ConstantFacts DEF SendHeader, SenderInv
  <2>4. QED
    BY <2>2, <2>3
<1>2. ASSUME SendPiece PROVE SenderInv' /\ NetworkInv'
  <2> DEFINE S == ImageSizes[sending]
             z == IF S - sentBytes < MaxPayload THEN S - sentBytes
                  ELSE MaxPayload
             d == [image |-> sending, packet |-> sentPackets + 1,
                   offset |-> sentBytes, size |-> z]
  <2>1. /\ sending \in Images /\ S \in Nat /\ MaxPayload \in Nat
        /\ sentBytes \in Nat /\ sentBytes < S /\ sentPackets \in Nat
        /\ sentBytes = sentPackets * MaxPayload
    BY <1>2, ConstantFacts DEF SendPiece, SenderInv
  <2>2. z \in Nat
    BY <2>1
  <2>3. Genuine(d)
    <3>1. (d.packet - 1) * MaxPayload = sentPackets * MaxPayload
      BY <2>1
    <3>2. QED
      BY <2>1, <2>2, <3>1 DEF Genuine
  <2>4. /\ network' = network \union {d} /\ sentBytes' = sentBytes + z
        /\ sentPackets' = sentPackets + 1 /\ UNCHANGED <<senderPc, sending>>
    BY <1>2 DEF SendPiece
  <2>5. NetworkInv'
    BY <2>3, <2>4 DEF NetworkInv
  <2>6. sentBytes + z < S => sentBytes + z = (sentPackets + 1) * MaxPayload
    BY <2>1, <2>2, ProductStep
  <2>7. SenderInv'
    BY <2>1, <2>2, <2>4, <2>6 DEF SenderInv
  <2>8. QED
    BY <2>5, <2>7
<1>3. ASSUME NextImage PROVE SenderInv' /\ NetworkInv'
  BY <1>3 DEF NextImage, SenderInv, NetworkInv
<1>4. ASSUME SendFails PROVE SenderInv' /\ NetworkInv'
  BY <1>4 DEF SendFails, SenderInv, NetworkInv
<1>5. ASSUME NEW d \in network, Lose(d) PROVE SenderInv' /\ NetworkInv'
  BY <1>5 DEF Lose, senderVars, SenderInv, NetworkInv
<1>6. ASSUME ReaderNext PROVE SenderInv' /\ NetworkInv'
  <2>1. UNCHANGED senderVars /\ network' \subseteq network
    BY <1>6 DEF ReaderNext, Process, Call, ReceiveFails, FirstPacket,
         FirstPacketWrongSize, Skip, WrongSize, Accept, Receive
  <2>2. QED
    BY <2>1 DEF senderVars, SenderInv, NetworkInv
<1>7. CASE UNCHANGED vars
  BY <1>7 DEF vars, senderVars, SenderInv, NetworkInv
<1>8. QED
  BY <1>1, <1>2, <1>3, <1>4, <1>5, <1>6, <1>7 DEF Next, SenderNext

-----------------------------------------------------------------------------
(* The reader.  Each lemma is about one outcome of receiving a datagram. *)

(* Starting over with an image of n bytes leaves room for its packets. *)
LEMMA FirstPacketStep ==
  ASSUME NoWrap, NetworkInv, VectorInv, NEW d \in network, FirstPacket(d)
  PROVE  VectorInv' /\ ReaderInv'
<1> DEFINE k == d.image  n == ImageSizes[k]
<1>1. /\ k \in Images /\ n \in Nat /\ k \in Nat \ {0}
      /\ ImageId(d) = k - 1
  BY ConstantFacts, WireIds DEF NetworkInv, Genuine
<1>2. /\ currentImageId' = k - 1 /\ byteCount' = n /\ offset' = 0
      /\ data' = Resize(Written(d), RoundUp(n))
      /\ nextPacketId' = 1 /\ discard' = FALSE
  BY <1>1 DEF FirstPacket
<1>3. MaxPayload \in Nat
  BY ConstantFacts
<1>4. DOMAIN data' = 0..(RoundUp(n) - 1)
  BY <1>2 DEF Resize
<1>5. VectorInv'
  <2>1. CASE n = 0
    <3>1. RoundUp(n) = 0 /\ 0..(0 - 1) = {}
      BY <2>1, RoundUpZero
    <3>2. DOMAIN data' = {}
      BY <1>4, <3>1
    <3>3. Emptied'
      BY <1>1, <1>2, <2>1, <3>2 DEF Emptied
    <3>4. QED
      BY <1>2, <3>3 DEF VectorInv
  <2>2. CASE n # 0
    <3>1. RoundUp(n) \in Nat /\ MaxPayload <= RoundUp(n)
      BY <1>1, <2>2, RoundUpFacts
    <3>2. QED
      BY <1>2, <1>3, <1>4, <3>1 DEF VectorInv
  <2>3. QED
    BY <2>1, <2>2
<1>6. Holds(k)'
  <2>1. (1 - 1) * MaxPayload = 0
    BY <1>3
  <2>2. (n # 0 => 0 < n) /\ \A i \in 0..(0 - 1) : data'[i] = <<k, i>>
    BY <1>1
  <2>3. QED
    BY <1>2, <2>1, <2>2 DEF Holds
<1>7. QED
  BY <1>1, <1>5, <1>6 DEF ReaderInv

(* Whatever is not taken leaves the vector's length alone. *)
LEMMA DiscardStep ==
  ASSUME VectorInv, readerPc = "receive", readerPc' = readerPc,
         NEW d, data' = Written(d), discard' = TRUE, offset' \in {0, offset},
         byteCount' = byteCount
  PROVE  VectorInv' /\ ReaderInv'
<1>1. offset \in Nat /\ MaxPayload \in Nat
  BY ConstantFacts DEF VectorInv
<1>2. DOMAIN data' = DOMAIN data
  BY DEF Written
<1>3. CASE Emptied
  <2>1. Emptied'
    BY <1>2, <1>3 DEF Emptied
  <2>2. VectorInv'
    BY <2>1 DEF VectorInv, Emptied
  <2>3. QED
    BY <2>2 DEF ReaderInv
<1>4. ASSUME NEW n \in Nat, DOMAIN data = 0..(n - 1), offset + MaxPayload <= n
      PROVE  VectorInv' /\ ReaderInv'
  <2>1. offset' \in Nat /\ offset' + MaxPayload <= n
    <3>1. CASE offset' = offset
      BY <1>1, <1>4, <3>1
    <3>2. CASE offset' = 0
      <4>1. MaxPayload <= n
        BY ONLY <1>1, <1>4
      <4>2. QED
        BY <1>1, <3>2, <4>1
    <3>3. QED
      BY <3>1, <3>2
  <2>2. VectorInv'
    BY <1>2, <1>4, <2>1 DEF VectorInv
  <2>3. QED
    BY <2>2 DEF ReaderInv
<1>5. QED
  BY <1>3, <1>4 DEF VectorInv

(* The packet expected next carries the next bytes of the same image. *)
LEMMA ExpectedBytes ==
  ASSUME NoWrap, NetworkInv, VectorInv, NEW d \in network, NEW k \in Images,
         Holds(k), readerPc = "receive", PacketId(d) # 0, Expected(d),
         d.size = ExpectedSize
  PROVE  /\ d.image = k /\ d.packet = nextPacketId /\ d.offset = offset
         /\ offset < byteCount
         /\ d.size \in Nat \ {0}
         /\ d.size <= MaxPayload
         /\ d.size = IF byteCount - offset < MaxPayload
                     THEN byteCount - offset ELSE MaxPayload
         /\ DOMAIN Written(d) = DOMAIN data
         /\ \A i \in 0..(offset + d.size - 1) : Written(d)[i] = <<k, i>>
<1>1. Genuine(d)
  BY DEF NetworkInv
<1>2. /\ k \in Nat \ {0} /\ d.image \in Nat \ {0} /\ byteCount \in Nat
      /\ MaxPayload \in Nat \ {0} /\ offset \in Nat
      /\ byteCount = ImageSizes[k]
  BY <1>1, ConstantFacts DEF Genuine, Holds, VectorInv
<1>3. d.image = k
  <2>1. d.image - 1 = k - 1
    BY <1>1, WireIds DEF Expected, Holds
  <2>2. QED
    BY <1>2, <2>1
<1>4. d.packet = nextPacketId /\ d.packet # 0
  BY <1>1, WireIds DEF Expected
<1>5. d.offset = offset /\ offset < byteCount
  BY <1>1, <1>2, <1>3, <1>4 DEF Genuine, Holds
<1>6. /\ d.size = IF byteCount - offset < MaxPayload
                  THEN byteCount - offset ELSE MaxPayload
      /\ d.size \in Nat \ {0} /\ d.size <= MaxPayload
  <2>1. d.size = IF byteCount - offset < MaxPayload
                 THEN byteCount - offset ELSE MaxPayload
    BY DEF ExpectedSize
  <2>2. QED
    BY <1>2, <1>5, <2>1
<1>7. PICK n \in Nat : DOMAIN data = 0..(n - 1) /\ offset + MaxPayload <= n
  BY <1>2, <1>5 DEF VectorInv, Emptied
<1>8. ASSUME NEW i \in 0..(offset + d.size - 1) PROVE Written(d)[i] = <<k, i>>
  <2>1. i \in DOMAIN data
    BY <1>2, <1>6, <1>7
  <2>2. CASE i \in offset..(offset + d.size - 1)
    <3>1. Written(d)[i] = <<d.image, d.offset + (i - offset)>>
      BY <1>4, <2>1, <2>2 DEF Written
    <3>2. d.offset + (i - offset) = i
      BY <1>2, <1>5, <1>6
    <3>3. QED
      BY <1>3, <3>1, <3>2
  <2>3. CASE i \notin offset..(offset + d.size - 1)
    <3>1. Written(d)[i] = data[i]
      BY <2>1, <2>3 DEF Written
    <3>2. i \in 0..(offset - 1)
      BY <1>2, <1>6, <2>3
    <3>3. QED
      BY <3>1, <3>2 DEF Holds
  <2>4. QED
    BY <2>2, <2>3
<1>9. DOMAIN Written(d) = DOMAIN data
  BY DEF Written
<1>10. QED
  BY <1>3, <1>4, <1>5, <1>6, <1>8, <1>9

(* With the last packet the vector is the whole image. *)
LEMMA LastPacketWhole ==
  ASSUME NoWrap, NetworkInv, VectorInv, ReaderInv,
         NEW d \in network, Accept(d),
         offset' = byteCount, data' = Resize(Written(d), byteCount)
  PROVE  data' = WholeImage(d.image)
<1>1. PICK k \in Images : Holds(k)
  BY DEF Accept, Expected, ReaderInv, Receive
<1>2. /\ d.image = k /\ offset < byteCount
      /\ d.size \in Nat /\ d.size <= MaxPayload
      /\ DOMAIN Written(d) = DOMAIN data
      /\ \A i \in 0..(offset + d.size - 1) : Written(d)[i] = <<k, i>>
  BY <1>1, ExpectedBytes DEF Accept, Receive
<1>3. /\ byteCount = ImageSizes[k] /\ offset \in Nat /\ MaxPayload \in Nat
      /\ offset' = offset + d.size
  BY <1>1, ConstantFacts DEF Holds, VectorInv, Accept, Receive
<1>4. PICK n \in Nat : DOMAIN data = 0..(n - 1) /\ offset + MaxPayload <= n
  BY <1>2, <1>3 DEF VectorInv, Emptied, Accept, Receive
<1>5. ASSUME NEW i \in 0..(byteCount - 1)
      PROVE  i \in DOMAIN Written(d) /\ Written(d)[i] = <<k, i>>
  <2>1. i \in 0..(offset + d.size - 1)
    <3>1. byteCount = offset + d.size
      BY <1>3
    <3>2. i \in 0..(byteCount - 1)
      BY <1>5
    <3>3. offset \in Nat /\ d.size \in Nat
      BY <1>2, <1>3
    <3>4. QED
      BY ONLY <3>1, <3>2, <3>3
  <2>2. i \in DOMAIN data
    BY <1>2, <1>3, <1>4, <2>1
  <2>3. QED
    BY <1>2, <2>1, <2>2
<1>6. data' = WholeImage(k)
  BY <1>3, <1>5 DEF Resize, WholeImage
<1>7. QED
  BY <1>2, <1>6

(* Taking a packet extends what the vector holds, and the last one makes   *)
(* it the whole image.                                                     *)
LEMMA AcceptStep ==
  ASSUME NoWrap, NetworkInv, VectorInv, ReaderInv, DeliveredWhole,
         NEW d \in network, Accept(d)
  PROVE  VectorInv' /\ ReaderInv' /\ DeliveredWhole'
<1> USE DEF Receive
<1>1. PICK k \in Images : Holds(k)
  BY DEF Accept, Expected, ReaderInv
<1>2. /\ d.image = k /\ d.packet = nextPacketId /\ d.offset = offset
      /\ offset < byteCount
      /\ d.size \in Nat \ {0}
      /\ d.size <= MaxPayload
      /\ d.size = IF byteCount - offset < MaxPayload
                  THEN byteCount - offset ELSE MaxPayload
      /\ DOMAIN Written(d) = DOMAIN data
      /\ \A i \in 0..(offset + d.size - 1) : Written(d)[i] = <<k, i>>
  BY <1>1, ExpectedBytes DEF Accept
<1>3. /\ k \in Nat \ {0} /\ byteCount = ImageSizes[k] /\ byteCount \in Nat
      /\ MaxPayload \in Nat \ {0} /\ IdModulus \in Nat \ {0}
      /\ offset \in Nat /\ nextPacketId \in Nat \ {0}
      /\ offset = (nextPacketId - 1) * MaxPayload /\ currentImageId = k - 1
  BY <1>1, ConstantFacts DEF Holds, VectorInv, Accept
<1>4. PICK n \in Nat : /\ DOMAIN data = 0..(n - 1)
                       /\ offset + MaxPayload <= n
                       /\ n = RoundUp(byteCount)
  BY <1>2, <1>3 DEF VectorInv, Emptied, Accept, Expected
<1>5. /\ offset' = offset + d.size
      /\ nextPacketId' = (nextPacketId + 1) % IdModulus
      /\ readerPc = "receive" /\ ~discard
      /\ UNCHANGED <<currentImageId, discard, byteCount>>
  BY DEF Accept, Expected
<1>6. CASE /\ offset' < byteCount
           /\ data' = Written(d)
           /\ UNCHANGED <<readerPc, delivered>>
  <2>1. d.size = MaxPayload
    BY <1>2, <1>3, <1>5, <1>6
  <2>2. offset' = nextPacketId * MaxPayload
    <3>1. (nextPacketId - 1 + 1) * MaxPayload
            = (nextPacketId - 1) * MaxPayload + MaxPayload
      BY <1>3, ProductStep
    <3>2. nextPacketId - 1 + 1 = nextPacketId
      BY <1>3
    <3>3. QED
      BY <1>3, <1>5, <2>1, <3>1, <3>2
  <2>3. nextPacketId' = nextPacketId + 1
    <3>1. nextPacketId * MaxPayload < (IdModulus - 1) * MaxPayload
      <4>1. /\ byteCount <= (IdModulus - 1) * MaxPayload
            /\ (IdModulus - 1) * MaxPayload \in Int
        BY <1>3 DEF NoWrap
      <4>2. offset' \in Int
        BY <1>2, <1>3, <1>5
      <4>3. QED
        BY <1>3, <1>6, <2>2, <4>1, <4>2
    <3>2. nextPacketId + 1 < IdModulus
      <4>1. SUFFICES ASSUME IdModulus - 1 <= nextPacketId PROVE FALSE
        BY <1>3
      <4>2. IdModulus - 1 \in Int /\ nextPacketId \in Int /\ MaxPayload \in Nat
        BY <1>3
      <4>3. (IdModulus - 1) * MaxPayload <= nextPacketId * MaxPayload
        BY ONLY <4>1, <4>2, ProductOrder
      <4>4. /\ (IdModulus - 1) * MaxPayload \in Int
            /\ nextPacketId * MaxPayload \in Int
        BY <1>3
      <4>5. QED
        BY ONLY <3>1, <4>3, <4>4
    <3>3. nextPacketId + 1 \in Nat /\ IdModulus \in Nat
      BY <1>3
    <3>4. QED
      BY <1>5, <3>2, <3>3, ModSmall
  <2>4. VectorInv'
    <3>1. DOMAIN data' = 0..(n - 1)
      BY <1>2, <1>4, <1>6
    <3>2. offset' + MaxPayload <= n
      <4>1. byteCount \in Nat \ {0}
        BY <1>2, <1>3
      <4>2. QED
        BY <1>3, <1>4, <1>6, <2>2, <4>1, RoundUpFacts
    <3>3. offset' \in Nat
      BY <1>2, <1>3, <1>5
    <3>4. n = RoundUp(byteCount)'
      BY <1>4, <1>5
    <3>5. QED
      BY <3>1, <3>2, <3>3, <3>4 DEF VectorInv
  <2>5. Holds(k)'
    <3>1. (nextPacketId + 1 - 1) * MaxPayload = nextPacketId * MaxPayload
      BY <1>3
    <3>2. nextPacketId + 1 \in Nat \ {0}
      BY <1>3
    <3>3. \A i \in 0..(offset' - 1) : data'[i] = <<k, i>>
      <4>1. offset' = offset + d.size /\ data' = Written(d)
        BY <1>5, <1>6
      <4>2. \A i \in 0..(offset + d.size - 1) : Written(d)[i] = <<k, i>>
        BY <1>2
      <4>3. offset \in Nat /\ d.size \in Nat
        BY <1>2, <1>3
      <4>4. 0..(offset' - 1) = 0..(offset + d.size - 1)
        BY ONLY <4>1, <4>3
      <4>5. QED
        BY ONLY <4>1, <4>2, <4>4
    <3>4. QED
      BY <1>3, <1>5, <1>6, <2>2, <2>3, <3>1, <3>2, <3>3 DEF Holds
  <2>6. DeliveredWhole'
    BY <1>6 DEF DeliveredWhole, WholeImage
  <2>7. QED
    BY <2>4, <2>5, <2>6 DEF ReaderInv
<1>7. CASE /\ offset' = byteCount
           /\ data' = Resize(Written(d), byteCount)
           /\ readerPc' = "idle"
           /\ delivered' = delivered \union {data'}
  <2>2. data' = WholeImage(k)
    BY <1>2, <1>7, LastPacketWhole
  <2>3. DeliveredWhole'
    BY <1>7, <2>2 DEF DeliveredWhole, WholeImage
  <2>4. QED
    BY <1>7, <2>3 DEF VectorInv, ReaderInv
<1>8. QED
  BY <1>6, <1>7 DEF Accept

(* Every step keeps the invariant. *)
LEMMA InvariantStep ==
  ASSUME NoWrap, IInv, [Next]_vars
  PROVE  IInv'
<1> USE DEF IInv
<1> DEFINE R == VectorInv /\ ReaderInv /\ DeliveredWhole
<1>1. SenderInv' /\ NetworkInv'
  BY SenderStep
<1>2. ASSUME UNCHANGED readerVars PROVE R'
  BY <1>2 DEF readerVars, VectorInv, Emptied, ReaderInv, Holds,
       DeliveredWhole, WholeImage
<1>3. ASSUME SenderNext \/ (\E d \in network : Lose(d)) PROVE R'
  BY <1>2, <1>3 DEF SenderNext, SendHeader, SendPiece, NextImage, SendFails,
       Lose
<1>4. ASSUME Call PROVE R'
  <2>1. DOMAIN data' = 0..(MaxPayload - 1) /\ offset' = 0 /\ discard' = TRUE
    BY <1>4 DEF Call
  <2>2. MaxPayload \in Nat
    BY ConstantFacts
  <2>3. VectorInv' /\ ReaderInv'
    BY <2>1, <2>2 DEF VectorInv, ReaderInv
  <2>4. DeliveredWhole'
    BY <1>4 DEF Call, DeliveredWhole, WholeImage
  <2>5. QED
    BY <2>3, <2>4
<1>5. ASSUME ReceiveFails PROVE R'
  BY <1>5 DEF ReceiveFails, VectorInv, ReaderInv, DeliveredWhole, WholeImage
<1>6. ASSUME NEW d \in network, FirstPacket(d) PROVE R'
  <2>1. DeliveredWhole'
    BY <1>6 DEF FirstPacket, DeliveredWhole, WholeImage
  <2>2. QED
    BY <1>6, <2>1, FirstPacketStep
<1>7. ASSUME NEW d \in network,
             FirstPacketWrongSize(d) \/ Skip(d) \/ WrongSize(d)
      PROVE  R'
  <2>1. /\ readerPc = "receive" /\ readerPc' = readerPc
        /\ data' = Written(d) /\ discard' = TRUE
        /\ offset' \in {0, offset} /\ delivered' = delivered
        /\ byteCount' = byteCount
    BY <1>7 DEF FirstPacketWrongSize, Skip, WrongSize, Receive
  <2>2. VectorInv' /\ ReaderInv'
    BY <2>1, DiscardStep
  <2>3. DeliveredWhole'
    BY <2>1 DEF DeliveredWhole, WholeImage
  <2>4. QED
    BY <2>2, <2>3
<1>8. ASSUME NEW d \in network, Accept(d) PROVE R'
  BY <1>8, AcceptStep
<1>9. ASSUME UNCHANGED vars PROVE R'
  <2>1. UNCHANGED readerVars
    BY <1>9 DEF vars
  <2>2. QED
    BY <1>2, <2>1
<1>10. QED
  BY <1>1, <1>3, <1>4, <1>5, <1>6, <1>7, <1>8, <1>9 DEF Next, ReaderNext, Process

LEMMA InvariantInit == Init => IInv
BY DEF Init, IInv, SenderInv, NetworkInv, VectorInv, ReaderInv, DeliveredWhole

THEOREM InductiveInvariant == NoWrap => (Spec => []IInv)
<1> SUFFICES ASSUME NoWrap PROVE Spec => []IInv
  OBVIOUS
<1>1. IInv /\ [Next]_vars => IInv'
  BY InvariantStep
<1>2. QED
  BY <1>1, InvariantInit, PTL DEF Spec

(* However the network loses, delays, reorders or repeats datagrams,       *)
(* readPreview returns only whole images, each byte in its place.          *)
THEOREM Integrity == NoWrap => (Spec => []DeliveredWhole)
<1> SUFFICES ASSUME NoWrap PROVE Spec => []DeliveredWhole
  OBVIOUS
<1>1. IInv => DeliveredWhole
  BY DEF IInv
<1>2. QED
  BY <1>1, InductiveInvariant, PTL

-----------------------------------------------------------------------------
(* What holds even if the ids wrap: the offset and the length of the vector *)
(* depend on the sizes of the packets alone.                               *)

(* The vector has room for a payload at the offset, which is a whole number *)
(* of payloads and not past the end of the image being put together.       *)
HasRoom ==
  \E n \in Nat :
    /\ DOMAIN data = 0..(n - 1)
    /\ offset + MaxPayload <= n
    /\ ~discard => /\ n = RoundUp(byteCount)
                   /\ offset < byteCount
                   /\ \E q \in Nat : offset = q * MaxPayload

RoomInv ==
  readerPc = "receive" =>
    HasRoom \/ (Emptied /\ (~discard => EmptyHasId(currentImageId)))

SafeInv ==
  /\ TypeOK
  /\ senderPc = "data" => sending \in Images
  /\ RoomInv

LEMMA ImagesRange == Images = 1..Len(ImageSizes) /\ Len(ImageSizes) \in Nat
BY SizesAssumption DEF Images

(* The sender's variables and the network keep their types. *)
LEMMA SenderTypes ==
  ASSUME SafeInv, [Next]_vars
  PROVE  /\ senderPc' \in {"header", "data", "ended"}
         /\ sending' \in 1..(Len(ImageSizes) + 1)
         /\ sentPackets' \in Nat
         /\ sentBytes' \in Nat
         /\ network' \subseteq Datagrams
         /\ damaged' \subseteq Images
         /\ senderPc' = "data" => sending' \in Images
<1> USE DEF SafeInv, TypeOK
<1>1. CASE SendHeader
  <2>1. [image |-> sending, packet |-> 0, offset |-> 0, size |-> HeaderPayload]
          \in Datagrams
    BY <1>1, ConstantFacts DEF SendHeader, Datagrams
  <2>2. QED
    BY <1>1, <2>1 DEF SendHeader
<1>2. CASE SendPiece
  <2> DEFINE S == ImageSizes[sending]
             z == IF S - sentBytes < MaxPayload THEN S - sentBytes
                  ELSE MaxPayload
  <2>1. /\ sending \in Images /\ S \in Nat /\ sentBytes \in Nat /\ sentBytes < S
        /\ MaxPayload \in Nat \ {0} /\ sentPackets \in Nat
    BY <1>2, ConstantFacts DEF SendPiece
  <2>2. z \in 1..MaxPayload
    BY <2>1
  <2>3. [image |-> sending, packet |-> sentPackets + 1,
         offset |-> sentBytes, size |-> z] \in Datagrams
    BY <2>1, <2>2 DEF Datagrams
  <2>4. sentBytes + z \in Nat
    BY <2>1, <2>2
  <2>5. QED
    BY <1>2, <2>1, <2>3, <2>4 DEF SendPiece
<1>3. CASE NextImage
  BY <1>3, ImagesRange DEF NextImage
<1>4. CASE SendFails
  BY <1>4 DEF SendFails
<1>5. ASSUME NEW d \in network, Lose(d)
      PROVE  /\ UNCHANGED senderVars
             /\ network' \subseteq Datagrams /\ damaged' \subseteq Images
  BY <1>5 DEF Lose, Datagrams
<1>6. ASSUME ReaderNext
      PROVE  UNCHANGED <<senderVars, damaged>> /\ network' \subseteq network
  BY <1>6 DEF ReaderNext, Process, Call, ReceiveFails, FirstPacket,
       FirstPacketWrongSize, Skip, WrongSize, Accept, Receive
<1>7. CASE UNCHANGED vars
  BY <1>7 DEF vars, senderVars
<1>8. QED
  BY <1>1, <1>2, <1>3, <1>4, <1>5, <1>6, <1>7 DEF Next, SenderNext, senderVars

(* The reader's variables keep theirs, and the vector its room. *)
ReaderTypes ==
  /\ readerPc \in {"idle", "receive", "failed"}
  /\ currentImageId \in 0..(IdModulus - 1)
  /\ nextPacketId \in 0..(IdModulus - 1)
  /\ discard \in BOOLEAN
  /\ offset \in 0..byteCount
  /\ byteCount \in Nat

LEMMA IdRange ==
  ASSUME NEW a \in Int
  PROVE  /\ a % IdModulus \in 0..(IdModulus - 1)
         /\ MinusOne \in 0..(IdModulus - 1)
         /\ 0 \in 0..(IdModulus - 1)
BY SizesAssumption DEF MinusOne

LEMMA DatagramFacts ==
  ASSUME SafeInv, NEW d \in network
  PROVE  /\ d.image \in Images /\ d.image \in Nat
         /\ d.size \in Nat \ {0} /\ d.size <= MaxPayload
         /\ ImageId(d) \in 0..(IdModulus - 1)
         /\ ImageSizes[d.image] \in Nat
<1>1. d \in Datagrams
  BY DEF SafeInv, TypeOK
<1>2. /\ d.image \in Images /\ d.size \in 1..MaxPayload
  BY <1>1 DEF Datagrams
<1>3. d.image \in Nat /\ ImageSizes[d.image] \in Nat /\ MaxPayload \in Nat
  BY <1>2, ConstantFacts
<1>4. d.image - 1 \in Int
  BY <1>3
<1>5. QED
  BY <1>2, <1>3, <1>4, IdRange DEF ImageId

(* A datagram that is not taken: the offset is left or reset to 0. *)
LEMMA RoomKept ==
  ASSUME SafeInv, readerPc = "receive", NEW d, data' = Written(d),
         discard' = TRUE, offset' \in {0, offset}, byteCount' = byteCount
  PROVE  RoomInv'
<1>1. offset \in Nat /\ MaxPayload \in Nat
  BY ConstantFacts DEF SafeInv, TypeOK
<1>2. DOMAIN data' = DOMAIN data
  BY DEF Written
<1>3. CASE Emptied
  BY <1>2, <1>3 DEF Emptied, RoomInv
<1>4. ASSUME NEW n \in Nat, DOMAIN data = 0..(n - 1), offset + MaxPayload <= n
      PROVE  RoomInv'
  <2>1. 0 + MaxPayload <= n
    BY <1>1, <1>4
  <2>2. offset' + MaxPayload <= n
    BY <1>4, <2>1
  <2>3. QED
    BY <1>2, <1>4, <2>2 DEF RoomInv, HasRoom
<1>5. QED
  BY <1>3, <1>4 DEF SafeInv, RoomInv, HasRoom

LEMMA RoomAccept ==
  ASSUME SafeInv, NEW d \in network, Accept(d)
  PROVE  RoomInv' /\ ReaderTypes'
<1>1. /\ readerPc = "receive" /\ ~discard /\ d.size = ExpectedSize
      /\ offset' = offset + d.size
      /\ nextPacketId' = (nextPacketId + 1) % IdModulus
      /\ UNCHANGED <<currentImageId, discard, byteCount>>
  BY DEF Accept, Receive, Expected
<1>2. PICK n \in Nat : /\ DOMAIN data = 0..(n - 1)
                       /\ offset + MaxPayload <= n
                       /\ n = RoundUp(byteCount)
                       /\ offset < byteCount
                       /\ \E q \in Nat : offset = q * MaxPayload
  <2>1. ~Emptied
    <3>1. SUFFICES ASSUME Emptied PROVE FALSE
      OBVIOUS
    <3>2. byteCount = 0 /\ offset = 0 /\ MaxPayload \in Nat \ {0}
      BY <3>1, ConstantFacts DEF Emptied
    <3>3. d.size = 0
      BY <1>1, <3>2 DEF ExpectedSize
    <3>4. QED
      BY <3>3, DatagramFacts
  <2>2. QED
    BY <1>1, <2>1 DEF SafeInv, RoomInv, HasRoom
<1>3. PICK q \in Nat : offset = q * MaxPayload
  BY <1>2
<1>4. /\ offset \in Nat /\ byteCount \in Nat \ {0} /\ MaxPayload \in Nat \ {0}
      /\ d.size \in Nat \ {0}
      /\ nextPacketId \in Nat /\ discard = FALSE
  BY <1>1, <1>2, ConstantFacts, DatagramFacts DEF SafeInv, TypeOK
<1>5. d.size = IF byteCount - offset < MaxPayload
               THEN byteCount - offset ELSE MaxPayload
  BY <1>1 DEF ExpectedSize
<1>6. offset' \in 0..byteCount
  BY <1>1, <1>2, <1>4, <1>5
<1>7. ReaderTypes'
  <2>1. nextPacketId' \in 0..(IdModulus - 1)
    BY <1>1, <1>4, IdRange
  <2>2. readerPc' \in {"idle", "receive"}
    BY <1>1 DEF Accept
  <2>3. QED
    BY <1>1, <1>6, <2>1, <2>2 DEF ReaderTypes, SafeInv, TypeOK
<1>8. CASE /\ offset' < byteCount
           /\ data' = Written(d)
           /\ UNCHANGED <<readerPc, delivered>>
  <2>1. d.size = MaxPayload
    BY <1>1, <1>2, <1>4, <1>5, <1>8
  <2>2. offset' = (q + 1) * MaxPayload /\ q + 1 \in Nat
    BY <1>1, <1>3, <1>4, <2>1, ProductStep
  <2>3. offset' + MaxPayload <= n
    BY <1>2, <1>4, <1>8, <2>2, RoundUpFacts
  <2>4. DOMAIN data' = 0..(n - 1)
    BY <1>2, <1>8 DEF Written
  <2>5. /\ n = RoundUp(byteCount)'
        /\ offset' < byteCount'
    BY <1>1, <1>2, <1>8
  <2>6. QED
    BY <1>7, <2>2, <2>3, <2>4, <2>5 DEF RoomInv, HasRoom
<1>9. CASE readerPc' = "idle"
  BY <1>7, <1>9 DEF RoomInv
<1>10. QED
  BY <1>8, <1>9 DEF Accept

LEMMA ReaderStep ==
  ASSUME SafeInv, ReaderNext
  PROVE  RoomInv' /\ ReaderTypes'
<1> USE DEF SafeInv, TypeOK
<1>1. CASE Call
  <2>1. /\ DOMAIN data' = 0..(MaxPayload - 1) /\ offset' = 0 /\ discard' = TRUE
        /\ MaxPayload \in Nat /\ 0 + MaxPayload <= MaxPayload
    BY <1>1, ConstantFacts DEF Call
  <2>2. RoomInv'
    BY <2>1 DEF RoomInv, HasRoom
  <2>3. QED
    BY <1>1, <2>2, IdRange DEF Call, ReaderTypes
<1>2. CASE ReceiveFails
  BY <1>2 DEF ReceiveFails, RoomInv, ReaderTypes
<1>3. ASSUME NEW d \in network, FirstPacket(d) PROVE RoomInv' /\ ReaderTypes'
  <2> DEFINE n == ImageSizes[d.image]
  <2>1. n \in Nat /\ ImageId(d) \in 0..(IdModulus - 1) /\ d.image \in Images
    BY DatagramFacts
  <2>2. MaxPayload \in Nat
    BY ConstantFacts
  <2>3. /\ byteCount' = n /\ offset' = 0 /\ discard' = FALSE
        /\ nextPacketId' = 1 /\ currentImageId' = ImageId(d)
        /\ readerPc' = readerPc
        /\ DOMAIN data' = 0..(RoundUp(n) - 1)
    BY <1>3 DEF FirstPacket, Resize
  <2>4. ASSUME n = 0 PROVE RoomInv'
    <3>1. RoundUp(n) = 0 /\ 0..(0 - 1) = {}
      BY <2>4, RoundUpZero
    <3>2. DOMAIN data' = {}
      BY <2>3, <3>1
    <3>3. Emptied'
      BY <2>1, <2>3, <2>4, <3>2 DEF Emptied
    <3>4. EmptyHasId(currentImageId)'
      BY <2>1, <2>3, <2>4 DEF EmptyHasId, ImageId
    <3>5. QED
      BY <3>3, <3>4 DEF RoomInv
  <2>5. ASSUME n # 0 PROVE RoomInv'
    <3>1. RoundUp(n) \in Nat /\ MaxPayload <= RoundUp(n)
      BY <2>1, <2>5, RoundUpFacts
    <3>2. 0 = 0 * MaxPayload /\ 0 \in Nat
      BY <2>2
    <3>3. /\ offset' + MaxPayload <= RoundUp(n) /\ offset' < n
          /\ RoundUp(n) = RoundUp(byteCount)'
      BY <2>1, <2>2, <2>3, <2>5, <3>1
    <3>4. HasRoom'
      BY <2>3, <3>1, <3>2, <3>3 DEF HasRoom
    <3>5. QED
      BY <3>4 DEF RoomInv
  <2>6. RoomInv'
    BY <2>4, <2>5
  <2>7. 1 \in 0..(IdModulus - 1)
    BY SizesAssumption
  <2>8. offset' \in 0..byteCount' /\ byteCount' \in Nat
    BY <2>1, <2>3
  <2>9. /\ currentImageId' \in 0..(IdModulus - 1)
        /\ nextPacketId' \in 0..(IdModulus - 1)
        /\ readerPc' \in {"idle", "receive", "failed"} /\ discard' \in BOOLEAN
    BY <2>1, <2>3, <2>7
  <2>10. QED
    BY <2>6, <2>8, <2>9 DEF ReaderTypes
<1>4. ASSUME NEW d \in network,
             FirstPacketWrongSize(d) \/ Skip(d) \/ WrongSize(d)
      PROVE  RoomInv' /\ ReaderTypes'
  <2>1. /\ readerPc = "receive" /\ readerPc' = readerPc
        /\ data' = Written(d) /\ discard' = TRUE
        /\ offset' \in {0, offset} /\ byteCount' = byteCount
        /\ nextPacketId' = MinusOne
        /\ currentImageId' \in {currentImageId, ImageId(d)}
    BY <1>4 DEF FirstPacketWrongSize, Skip, WrongSize, Receive
  <2>2. RoomInv'
    BY <2>1, RoomKept
  <2>3. /\ MinusOne \in 0..(IdModulus - 1)
        /\ ImageId(d) \in 0..(IdModulus - 1)
    BY 0 \in Int, IdRange, DatagramFacts
  <2>4. offset' \in 0..byteCount'
    BY <2>1
  <2>5. QED
    BY <2>1, <2>2, <2>3, <2>4 DEF ReaderTypes
<1>5. ASSUME NEW d \in network, Accept(d) PROVE RoomInv' /\ ReaderTypes'
  BY <1>5, RoomAccept
<1>6. QED
  BY <1>1, <1>2, <1>3, <1>4, <1>5 DEF ReaderNext, Process

LEMMA SafeStep ==
  ASSUME SafeInv, [Next]_vars
  PROVE  SafeInv'
<1>1. RoomInv' /\ ReaderTypes'
  <2>1. CASE ReaderNext
    BY <2>1, ReaderStep
  <2>2. ASSUME UNCHANGED readerVars PROVE RoomInv' /\ ReaderTypes'
    BY <2>2 DEF readerVars, RoomInv, HasRoom, Emptied, EmptyHasId, ReaderTypes,
         SafeInv, TypeOK
  <2>3. CASE SenderNext \/ (\E d \in network : Lose(d)) \/ UNCHANGED vars
    BY <2>2, <2>3 DEF SenderNext, SendHeader, SendPiece, NextImage, SendFails,
         Lose, vars
  <2>4. QED
    BY <2>1, <2>3 DEF Next
<1>2. QED
  BY <1>1, SenderTypes DEF SafeInv, TypeOK, ReaderTypes

LEMMA SafeInit == Init => SafeInv
BY ImagesRange, IdRange, ConstantFacts, 0 \in Int
   DEF Init, SafeInv, TypeOK, RoomInv, Datagrams, MinusOne

LEMMA SafeAlways == Spec => []SafeInv
<1>1. SafeInv /\ [Next]_vars => SafeInv'
  BY SafeStep
<1>2. QED
  BY <1>1, SafeInit, PTL DEF Spec

(* The variables keep their types, also when image or packet ids wrap. *)
THEOREM TypeCorrect == Spec => []TypeOK
<1>1. SafeInv => TypeOK
  BY DEF SafeInv
<1>2. QED
  BY <1>1, SafeAlways, PTL

(* Every receive_from stays inside the vector, whatever the ids are, but    *)
(* for those between the first packet of an empty image and the next first *)
(* packet or call: where no image is empty, all of them do.                *)
THEOREM NoOverrun == Spec => []ReceiveFits
<1>1. SafeInv => ReceiveFits
  <2> SUFFICES ASSUME SafeInv, readerPc = "receive", ~Emptied
               PROVE  (offset + MaxPayload - 1) \in DOMAIN data
    BY DEF ReceiveFits, Emptied
  <2>1. PICK n \in Nat : DOMAIN data = 0..(n - 1) /\ offset + MaxPayload <= n
    BY DEF SafeInv, RoomInv, HasRoom
  <2>2. offset \in Nat /\ MaxPayload \in Nat \ {0}
    BY ConstantFacts DEF SafeInv, TypeOK
  <2>3. QED
    BY <2>1, <2>2
<1>2. QED
  BY <1>1, SafeAlways, PTL

(* The assertion of readPreview holds whenever it is reached, unless the    *)
(* packet has the id of an empty image that began before it.               *)
THEOREM AssertionHolds == Spec => []RemainingIsPositive
<1>1. SafeInv => RemainingIsPositive
  <2> SUFFICES ASSUME SafeInv, readerPc = "receive",
                      NEW d \in network, Expected(d)
               PROVE  byteCount > offset \/ (byteCount = 0 /\ EmptyHasId(ImageId(d)))
    BY DEF RemainingIsPositive
  <2>1. ~discard /\ ImageId(d) = currentImageId
    BY DEF Expected
  <2>2. CASE HasRoom
    BY <2>1, <2>2 DEF HasRoom, SafeInv, TypeOK
  <2>3. CASE Emptied /\ EmptyHasId(currentImageId)
    BY <2>1, <2>3 DEF Emptied
  <2>4. QED
    BY <2>1, <2>2, <2>3 DEF SafeInv, RoomInv
<1>2. QED
  BY <1>1, SafeAlways, PTL

=============================================================================

----------------------- MODULE PreviewChannel_proofs ------------------------
(***************************************************************************)
(* PreviewTransfer implements PreviewChannel: over a network that loses    *)
(* datagrams and neither reorders nor repeats them, losing a datagram      *)
(* costs the image it belongs to and no other, and the images that lost    *)
(* none and have a byte are returned once each, in the order they were     *)
(* taken.                                                                  *)
(*                                                                         *)
(* The argument: whatever lies in the network follows what the reader has  *)
(* taken (HeldOrder), of an image that was returned nothing is left        *)
(* (ReturnedInv), an image that lost a packet never gets it back           *)
(* (DamagedInv), and of one that did not, each packet that was sent is in  *)
(* the network or was taken, in sequence, by the reader (IntactInv).       *)
(***************************************************************************)
EXTENDS PreviewTransfer_proofs

(* A network that loses and does nothing else, and ids that do not wrap. *)
Orderly == NoWrap /\ InOrder /\ ~Duplicates

(* The numbers of the packets of image k. *)
Packets(k) == {0} \cup Pieces(k)

(* Packet p of image k was sent, or never will be. *)
Past(k, p) ==
  \/ k < sending
  \/ /\ k = sending
     /\ \/ senderPc = "ended"
        \/ senderPc = "data" /\ p <= sentPackets

(* Packet p of image k was sent. *)
Sent(k, p) ==
  \/ k < sending
  \/ k = sending /\ senderPc = "data" /\ p <= sentPackets

InNetwork(k, p) == \E d \in network : d.image = k /\ d.packet = p

Holding(k) == readerPc = "receive" /\ ~discard /\ currentImageId = k - 1

Returned == {ImageOf(f) : f \in delivered}

Intact == Images \ (damaged \cup Spoilt \cup Returned)

NetworkOrder ==
  /\ \A d \in network : Past(d.image, d.packet)
  /\ \A d, e \in network : d.image = e.image /\ d.packet = e.packet => d = e
  /\ senderPc = "data" => sentBytes <= sentPackets * MaxPayload

HeldOrder ==
  \A k \in Images : Holding(k) =>
    /\ Past(k, nextPacketId - 1)
    /\ \A d \in network :
         d.image > k \/ (d.image = k /\ d.packet >= nextPacketId)

ReturnedInv ==
  \A k \in Returned :
    /\ \A d \in network : d.image > k
    /\ \A p \in Packets(k) : Past(k, p)

DamagedInv ==
  \A k \in damaged : \E p \in Packets(k) :
    Past(k, p) /\ ~InNetwork(k, p) /\ (Holding(k) => p >= nextPacketId)

IntactInv ==
  readerPc # "failed" =>
    \A k \in Intact : \A p \in Packets(k) :
      Sent(k, p) => InNetwork(k, p) \/ (Holding(k) /\ p < nextPacketId)

OrderInv == NetworkOrder /\ HeldOrder /\ ReturnedInv /\ DamagedInv /\ IntactInv

Inv == SafeInv /\ IInv /\ OrderInv

-----------------------------------------------------------------------------
(* Images and the numbers of their packets. *)

LEMMA PacketFacts ==
  ASSUME NEW k \in Images, NEW p \in Packets(k)
  PROVE  p \in Nat /\ (p # 0 => (p - 1) * MaxPayload < ImageSizes[k])
BY ConstantFacts DEF Packets, Pieces

LEMMA PacketNumber ==
  ASSUME NEW k \in Images, NEW p \in Nat \ {0},
         (p - 1) * MaxPayload < ImageSizes[k]
  PROVE  p \in Packets(k)
<1> DEFINE S == ImageSizes[k]
<1>1. MaxPayload \in Nat \ {0} /\ S \in Nat
  BY ConstantFacts
<1>2. (MaxPayload - 1) * (p - 1) >= 0
  BY <1>1
<1>3. (MaxPayload - 1) * (p - 1) = (p - 1) * MaxPayload - (p - 1)
  BY <1>1
<1>4. (p - 1) * MaxPayload \in Int
  BY <1>1
<1>5. p \in 1..S
  <2> HIDE DEF S
  <2>1. (p - 1) * MaxPayload < S
    BY DEF S
  <2>2. QED
    BY <1>1, <1>2, <1>3, <1>4, <2>1
<1>6. QED
  BY <1>5 DEF Packets, Pieces

LEMMA GenuinePacket ==
  ASSUME NEW d, Genuine(d)
  PROVE  /\ d.image \in Images /\ d.image \in Nat \ {0}
         /\ d.packet \in Packets(d.image) /\ d.packet \in Nat
<1>1. d.image \in Images /\ d.image \in Nat \ {0}
  BY ConstantFacts DEF Genuine
<1>2. CASE d.packet = 0
  BY <1>1, <1>2 DEF Packets
<1>3. CASE d.packet # 0
  BY <1>1, <1>3, PacketNumber DEF Genuine
<1>4. QED
  BY <1>1, <1>2, <1>3

(* No image has more packets than there are ids. *)
LEMMA PacketBound ==
  ASSUME NoWrap, NEW k \in Images, NEW p \in Packets(k)
  PROVE  p < IdModulus
<1>1. /\ p \in Nat /\ (p # 0 => (p - 1) * MaxPayload < ImageSizes[k])
      /\ IdModulus \in Nat \ {0} /\ MaxPayload \in Nat \ {0}
      /\ ImageSizes[k] \in Nat
      /\ ImageSizes[k] <= (IdModulus - 1) * MaxPayload
  BY PacketFacts, ConstantFacts DEF NoWrap
<1>2. SUFFICES ASSUME p >= IdModulus PROVE FALSE
  BY <1>1
<1>3. IdModulus - 1 \in Int /\ p - 1 \in Int /\ IdModulus - 1 <= p - 1 /\ p # 0
  BY <1>1, <1>2
<1>4. (IdModulus - 1) * MaxPayload <= (p - 1) * MaxPayload
  <2>1. MaxPayload \in Nat
    BY <1>1
  <2>2. QED
    BY ONLY <1>3, <2>1, ProductOrder
<1>5. (IdModulus - 1) * MaxPayload \in Int /\ (p - 1) * MaxPayload \in Int
  BY <1>1
<1>6. QED
  BY <1>1, <1>3, <1>4, <1>5

(* So none is spoilt but the empty ones. *)
LEMMA EmptySpoilt ==
  ASSUME NoWrap, NEW k \in Images
  PROVE  k \in Spoilt <=> ImageSizes[k] = 0
<1>1. ASSUME NEW p \in Pieces(k) PROVE ~(p >= IdModulus)
  <2>1. p \in Packets(k)
    BY DEF Packets
  <2>2. p < IdModulus /\ p \in Nat /\ IdModulus \in Nat
    BY <2>1, PacketBound, PacketFacts, ConstantFacts
  <2>3. QED
    BY <2>2
<1>2. QED
  BY <1>1 DEF Spoilt

LEMMA ImageOfWhole ==
  ASSUME NEW k \in Images, ImageSizes[k] # 0
  PROVE  ImageOf(WholeImage(k)) = k
<1>1. ASSUME NEW j \in Images, WholeImage(k) = WholeImage(j) PROVE j = k
  <2>1. ImageSizes[k] \in Nat \ {0}
    BY ConstantFacts
  <2>2. 0 \in 0..(ImageSizes[k] - 1) /\ 0 \in 0..(ImageSizes[j] - 1)
    <3>1. 0 \in 0..(ImageSizes[k] - 1)
      BY <2>1
    <3>2. DOMAIN WholeImage(k) = 0..(ImageSizes[k] - 1)
      BY DEF WholeImage
    <3>3. DOMAIN WholeImage(j) = 0..(ImageSizes[j] - 1)
      BY DEF WholeImage
    <3>4. 0..(ImageSizes[j] - 1) = 0..(ImageSizes[k] - 1)
      BY <1>1, <3>2, <3>3, Zenon
    <3>5. QED
      BY <3>1, <3>4
  <2>3. WholeImage(k)[0] = <<k, 0>> /\ WholeImage(j)[0] = <<j, 0>>
    BY <2>2 DEF WholeImage
  <2>4. <<k, 0>> = <<j, 0>>
    BY <1>1, <2>3
  <2>5. QED
    BY <2>4
<1> DEFINE c == CHOOSE j \in Images : WholeImage(k) = WholeImage(j)
<1>2. \E j \in Images : WholeImage(k) = WholeImage(j)
  OBVIOUS
<1>3. c \in Images /\ WholeImage(k) = WholeImage(c)
  BY <1>2
<1>4. c = k
  BY <1>1, <1>3
<1>5. QED
  BY <1>2, <1>4 DEF ImageOf

LEMMA ReturnedImages ==
  ASSUME DeliveredWhole
  PROVE  Returned \subseteq Images
BY DEF DeliveredWhole, Returned, ImageOf

-----------------------------------------------------------------------------
(* What is past stays past. *)

LEMMA PastStays ==
  ASSUME SenderInv, [Next]_vars, NEW k \in Nat, NEW p \in Int, Past(k, p)
  PROVE  Past(k, p)'
<1> USE DEF SenderInv, Past
<1>1. CASE SendHeader
  BY <1>1 DEF SendHeader
<1>2. CASE SendPiece
  BY <1>2 DEF SendPiece
<1>3. CASE NextImage
  BY <1>3 DEF NextImage
<1>4. CASE SendFails
  BY <1>4 DEF SendFails
<1>5. ASSUME UNCHANGED senderVars PROVE Past(k, p)'
  BY <1>5 DEF senderVars
<1>6. CASE ReaderNext
  <2>1. UNCHANGED senderVars
    BY <1>6 DEF ReaderNext, Process, Call, ReceiveFails, FirstPacket,
       FirstPacketWrongSize, Skip, WrongSize, Accept
  <2>2. QED
    BY <1>5, <2>1
<1>7. CASE (\E d \in network : Lose(d)) \/ UNCHANGED vars
  BY <1>5, <1>7 DEF Lose, vars
<1>8. QED
  BY <1>1, <1>2, <1>3, <1>4, <1>6, <1>7 DEF Next, SenderNext

(* What the invariant says of a datagram. *)
LEMMA InvDatagram ==
  ASSUME Inv, NoWrap, NEW d \in network
  PROVE  /\ Genuine(d)
         /\ d.image \in Images /\ d.image \in Nat \ {0}
         /\ d.packet \in Packets(d.image) /\ d.packet \in Nat
         /\ ImageId(d) = d.image - 1 /\ PacketId(d) = d.packet
         /\ Past(d.image, d.packet)
         /\ d.image <= sending
<1>1. Genuine(d) /\ Past(d.image, d.packet) /\ sending \in Nat
  BY DEF Inv, IInv, NetworkInv, OrderInv, NetworkOrder, SenderInv
<1>2. QED
  BY <1>1, GenuinePacket, WireIds DEF Past

(* A new datagram is put in the network. *)
LEMMA SendsOne ==
  ASSUME Orderly, Inv, [Next]_vars, NEW n, sending \in Images,
         network' = network \cup {n},
         UNCHANGED <<sending, readerVars, damaged>>,
         n.image = sending, n.packet \in Packets(sending),
         ~Past(n.image, n.packet), Past(n.image, n.packet)',
         \A k \in Images : \A p \in Packets(k) :
           Sent(k, p)' => Sent(k, p) \/ (k = n.image /\ p = n.packet),
         senderPc' = "data" => sentBytes' <= sentPackets' * MaxPayload
  PROVE  OrderInv'
<1>1. /\ sending \in Nat \ {0} /\ n.packet \in Nat
      /\ SenderInv /\ DeliveredWhole /\ TypeOK
  BY PacketFacts, ConstantFacts DEF Inv, IInv, SafeInv
<1>2. /\ Returned' = Returned /\ Intact' = Intact /\ damaged' = damaged
      /\ \A k : Holding(k)' <=> Holding(k)
      /\ nextPacketId' = nextPacketId /\ readerPc' = readerPc
  BY DEF readerVars, Returned, Intact, Holding
<1>3. \A k \in Images : \A p \in Int : Past(k, p) => Past(k, p)'
  BY <1>1, PastStays, ConstantFacts
<1>4. ASSUME NEW d \in network PROVE ~(d.image = n.image /\ d.packet = n.packet)
  BY InvDatagram DEF Orderly
<1>5. NetworkOrder'
  <2>1. ASSUME NEW d \in network' PROVE Past(d.image, d.packet)'
    BY <1>3, InvDatagram DEF Orderly
  <2>2. ASSUME NEW d \in network', NEW e \in network',
               d.image = e.image, d.packet = e.packet
        PROVE  d = e
    BY <1>4, <2>2 DEF Inv, OrderInv, NetworkOrder
  <2>3. QED
    BY <2>1, <2>2 DEF NetworkOrder
<1>6. HeldOrder'
  <2> SUFFICES ASSUME NEW k \in Images, Holding(k)
               PROVE  /\ Past(k, nextPacketId - 1)'
                      /\ \A d \in network' : d.image > k
                           \/ (d.image = k /\ d.packet >= nextPacketId)
    BY <1>2 DEF HeldOrder
  <2>1. /\ Past(k, nextPacketId - 1) /\ nextPacketId \in Nat /\ k \in Nat
        /\ \A d \in network : d.image > k
             \/ (d.image = k /\ d.packet >= nextPacketId)
    BY <1>1, ConstantFacts DEF Inv, OrderInv, HeldOrder, TypeOK
  <2>2. n.image > k \/ (n.image = k /\ n.packet >= nextPacketId)
    <3>1. sentPackets \in Nat
      BY <1>1 DEF SenderInv
    <3>2. QED
      BY <1>1, <2>1, <3>1 DEF Past
  <2>3. Past(k, nextPacketId - 1)'
    <3>1. PICK p \in Int : p = nextPacketId - 1
      BY <2>1
    <3>2. Past(k, p)'
      BY <1>3, <2>1, <3>1
    <3>3. nextPacketId' = nextPacketId
      BY <1>2
    <3>4. QED
      BY <3>1, <3>2, <3>3
  <2>4. QED
    BY <2>1, <2>2, <2>3
<1>7. ReturnedInv'
  <2> SUFFICES ASSUME NEW k \in Returned'
               PROVE  /\ \A d \in network' : d.image > k
                      /\ \A p \in Packets(k) : Past(k, p)'
    BY DEF ReturnedInv
  <2>a. k \in Returned /\ k \in Images /\ k \in Nat
    BY <1>1, <1>2, ReturnedImages, ConstantFacts
  <2>1. /\ k \in Images /\ k \in Nat
        /\ \A d \in network : d.image > k
        /\ \A p \in Packets(k) : p \in Int /\ Past(k, p)
    BY <2>a, PacketFacts DEF Inv, OrderInv, ReturnedInv
  <2>2. n.image > k
    <3>1. 0 \in Packets(k)
      BY DEF Packets
    <3>2. k <= sending
      BY <1>1, <2>1, <3>1 DEF Past
    <3>3. k # sending
      BY <2>1
    <3>4. QED
      BY <1>1, <2>1, <3>2, <3>3
  <2>3. QED
    BY <1>3, <2>1, <2>2
<1>8. DamagedInv'
  <2> SUFFICES ASSUME NEW k \in damaged
               PROVE  \E p \in Packets(k) :
                        /\ Past(k, p)' /\ ~InNetwork(k, p)'
                        /\ Holding(k) => p >= nextPacketId
    BY <1>2 DEF DamagedInv
  <2>1. PICK p \in Packets(k) :
          Past(k, p) /\ ~InNetwork(k, p) /\ (Holding(k) => p >= nextPacketId)
    BY DEF Inv, OrderInv, DamagedInv
  <2>2. k \in Images /\ p \in Int
    BY <1>1, PacketFacts DEF TypeOK
  <2>3. ~InNetwork(k, p)'
    BY <2>1 DEF InNetwork
  <2>4. QED
    BY <1>3, <2>1, <2>2, <2>3
<1>9. IntactInv'
  <2> SUFFICES ASSUME readerPc # "failed", NEW k \in Intact,
                      NEW p \in Packets(k), Sent(k, p)'
               PROVE  InNetwork(k, p)' \/ (Holding(k) /\ p < nextPacketId)
    BY <1>2 DEF IntactInv
  <2>1. k \in Images
    BY DEF Intact
  <2>2. CASE Sent(k, p)
    BY <2>2 DEF Inv, OrderInv, IntactInv, InNetwork
  <2>3. CASE k = n.image /\ p = n.packet
    BY <2>3 DEF InNetwork
  <2>4. QED
    BY <2>1, <2>2, <2>3
<1>10. QED
  BY <1>5, <1>6, <1>7, <1>8, <1>9 DEF OrderInv

(* The sender goes on, and sends nothing. *)
LEMMA SendsNone ==
  ASSUME Orderly, Inv, [Next]_vars,
         UNCHANGED <<network, readerVars, damaged>>,
         \A k \in Images : \A p \in Packets(k) : Sent(k, p)' => Sent(k, p),
         senderPc' # "data"
  PROVE  OrderInv'
<1>1. SenderInv /\ DeliveredWhole /\ TypeOK
  BY DEF Inv, IInv, SafeInv
<1>2. /\ Returned' = Returned /\ Intact' = Intact
      /\ \A k : Holding(k)' <=> Holding(k)
      /\ \A k, p : InNetwork(k, p)' <=> InNetwork(k, p)
      /\ nextPacketId' = nextPacketId /\ readerPc' = readerPc
  BY DEF readerVars, Returned, Intact, Holding, InNetwork
<1>3. \A k \in Images : \A p \in Int : Past(k, p) => Past(k, p)'
  BY <1>1, PastStays, ConstantFacts
<1>4. NetworkOrder'
  BY <1>3, InvDatagram DEF Orderly, Inv, OrderInv, NetworkOrder
<1>5. HeldOrder'
  BY <1>1, <1>2, <1>3 DEF Inv, OrderInv, HeldOrder, TypeOK
<1>6. ReturnedInv'
  BY <1>1, <1>2, <1>3, ReturnedImages, PacketFacts
     DEF Inv, OrderInv, ReturnedInv
<1>7. DamagedInv'
  <2> SUFFICES ASSUME NEW k \in damaged
               PROVE  \E p \in Packets(k) :
                        /\ Past(k, p)' /\ ~InNetwork(k, p)
                        /\ Holding(k) => p >= nextPacketId
    BY <1>2 DEF DamagedInv
  <2>1. k \in Images
    BY <1>1 DEF TypeOK
  <2>2. QED
    BY <1>3, <2>1, PacketFacts DEF Inv, OrderInv, DamagedInv
<1>8. IntactInv'
  BY <1>2 DEF Inv, OrderInv, IntactInv, Intact
<1>9. QED
  BY <1>4, <1>5, <1>6, <1>7, <1>8 DEF OrderInv

LEMMA SenderKeepsOrder ==
  ASSUME Orderly, Inv, SenderNext
  PROVE  OrderInv'
<1>1. /\ [Next]_vars /\ SenderInv /\ TypeOK
      /\ senderPc = "data" => sending \in Images
  BY DEF Next, Inv, IInv, SafeInv
<1>2. CASE SendHeader
  <2>0. PICK n : n = [image |-> sending, packet |-> 0, offset |-> 0,
                      size |-> HeaderPayload]
    OBVIOUS
  <2>1. /\ n.image = sending /\ n.packet = 0 /\ network' = network \cup {n}
        /\ UNCHANGED <<sending, readerVars, damaged>>
        /\ senderPc = "header" /\ senderPc' = "data" /\ sending \in Images
        /\ sentPackets' = 0 /\ sentBytes' = 0
    BY <1>2, <2>0 DEF SendHeader
  <2>2. n.packet \in Packets(sending)
    BY <2>1 DEF Packets
  <2>3. ~Past(n.image, n.packet) /\ Past(n.image, n.packet)'
    BY <1>1, <2>1 DEF Past, SenderInv
  <2>4. ASSUME NEW k \in Images, NEW p \in Packets(k), Sent(k, p)'
        PROVE  Sent(k, p) \/ (k = n.image /\ p = n.packet)
    <3>1. p \in Nat
      BY PacketFacts
    <3>2. QED
      BY <2>1, <2>4, <3>1 DEF Sent
  <2>5. sentBytes' <= sentPackets' * MaxPayload
    BY <2>1, ConstantFacts
  <2>6. QED
    BY <1>1, <2>1, <2>2, <2>3, <2>4, <2>5, SendsOne
<1>3. CASE SendPiece
  <2> DEFINE S == ImageSizes[sending]
             z == IF S - sentBytes < MaxPayload THEN S - sentBytes
                  ELSE MaxPayload
  <2>0. PICK n : n = [image |-> sending, packet |-> sentPackets + 1,
                      offset |-> sentBytes, size |-> z]
    OBVIOUS
  <2>1. /\ n.image = sending /\ n.packet = sentPackets + 1
        /\ network' = network \cup {n}
        /\ UNCHANGED <<sending, readerVars, damaged>>
        /\ senderPc = "data" /\ senderPc' = "data" /\ sending \in Images
        /\ sentPackets' = sentPackets + 1 /\ sentBytes' = sentBytes + z
    BY <1>1, <1>3, <2>0 DEF SendPiece
  <2>2. /\ S \in Nat /\ MaxPayload \in Nat \ {0} /\ sentPackets \in Nat
        /\ sentBytes \in Nat /\ sentBytes < S /\ sending \in Nat
        /\ sentBytes = sentPackets * MaxPayload
    BY <1>1, <1>3, <2>1, ConstantFacts DEF SendPiece, SenderInv
  <2>3. n.packet \in Packets(sending)
    <3>1. n.packet \in Nat \ {0} /\ n.packet - 1 = sentPackets
      BY <2>1, <2>2
    <3>2. (n.packet - 1) * MaxPayload < ImageSizes[sending]
      BY <2>2, <3>1
    <3>3. QED
      BY ONLY <2>1, <3>1, <3>2, PacketNumber
  <2>4. ~Past(n.image, n.packet) /\ Past(n.image, n.packet)'
    BY <2>1, <2>2 DEF Past
  <2>5. ASSUME NEW k \in Images, NEW p \in Packets(k), Sent(k, p)'
        PROVE  Sent(k, p) \/ (k = n.image /\ p = n.packet)
    <3>1. p \in Nat
      BY PacketFacts
    <3>2. QED
      BY <2>1, <2>2, <2>5, <3>1 DEF Sent
  <2>6. sentBytes' <= sentPackets' * MaxPayload
    <3>1. (sentPackets + 1) * MaxPayload = sentPackets * MaxPayload + MaxPayload
      BY <2>2, ProductStep
    <3>2. z \in Nat /\ z <= MaxPayload
      BY <2>2
    <3> HIDE DEF z
    <3>3. QED
      BY <2>1, <2>2, <3>1, <3>2
  <2>7. QED
    BY <1>1, <2>1, <2>3, <2>4, <2>5, <2>6, SendsOne
<1>4. CASE NextImage
  <2>1. /\ senderPc = "data" /\ senderPc' = "header" /\ sending' = sending + 1
        /\ sending \in Images /\ sentBytes = ImageSizes[sending]
        /\ UNCHANGED <<network, readerVars, damaged>>
    BY <1>1, <1>4 DEF NextImage
  <2>2. /\ sentPackets \in Nat /\ sentBytes \in Nat /\ sending \in Nat
        /\ sentBytes <= sentPackets * MaxPayload /\ MaxPayload \in Nat
    BY <1>1, <2>1, ConstantFacts DEF SenderInv, Inv, OrderInv, NetworkOrder
  <2>3. ASSUME NEW p \in Packets(sending) PROVE p <= sentPackets
    <3>1. p \in Nat /\ (p # 0 => (p - 1) * MaxPayload < sentBytes)
      BY <2>1, PacketFacts
    <3>2. SUFFICES ASSUME sentPackets < p PROVE FALSE
      BY <2>2, <3>1
    <3>3. sentPackets \in Int /\ p - 1 \in Int /\ sentPackets <= p - 1
      BY <2>2, <3>1, <3>2
    <3>4. sentPackets * MaxPayload <= (p - 1) * MaxPayload
      BY ONLY <2>2, <3>3, ProductOrder
    <3>5. sentPackets * MaxPayload \in Int /\ (p - 1) * MaxPayload \in Int
      BY <2>2, <3>1
    <3>6. QED
      BY <2>2, <3>1, <3>2, <3>4, <3>5
  <2>4. ASSUME NEW k \in Images, NEW p \in Packets(k), Sent(k, p)'
        PROVE  Sent(k, p)
    <3>1. k \in Nat
      BY ConstantFacts
    <3>2. k <= sending
      BY <2>1, <2>2, <2>4, <3>1 DEF Sent
    <3>3. QED
      BY <2>1, <2>2, <2>3, <3>1, <3>2 DEF Sent
  <2>5. QED
    BY <1>1, <2>1, <2>4, SendsNone
<1>5. CASE SendFails
  <2>1. /\ senderPc' = "ended" /\ UNCHANGED sending
        /\ UNCHANGED <<network, readerVars, damaged>>
    BY <1>5 DEF SendFails
  <2>2. ASSUME NEW k \in Images, NEW p \in Packets(k), Sent(k, p)'
        PROVE  Sent(k, p)
    BY <2>1, <2>2 DEF Sent
  <2>3. QED
    BY <1>1, <2>1, <2>2, SendsNone
<1>6. QED
  BY <1>2, <1>3, <1>4, <1>5 DEF SenderNext

-----------------------------------------------------------------------------
(* A datagram is lost: its image is damaged, and stays so. *)
LEMMA LoseKeepsOrder ==
  ASSUME Orderly, Inv, NEW d \in network, Lose(d)
  PROVE  OrderInv'
<1>1. /\ network' = network \ {d} /\ damaged' = damaged \cup {d.image}
      /\ UNCHANGED <<senderVars, readerVars>>
  BY DEF Lose
<1>2. /\ Returned' = Returned /\ Intact' = Intact \ {d.image}
      /\ \A k : Holding(k)' <=> Holding(k)
      /\ \A k, p : Past(k, p)' <=> Past(k, p)
      /\ \A k, p : Sent(k, p)' <=> Sent(k, p)
      /\ nextPacketId' = nextPacketId /\ readerPc' = readerPc
      /\ UNCHANGED <<senderPc, sentBytes, sentPackets>>
  BY <1>1 DEF readerVars, senderVars, Returned, Intact, Holding, Past, Sent
<1>3. NetworkOrder'
  BY <1>1, <1>2 DEF Inv, OrderInv, NetworkOrder
<1>4. HeldOrder'
  <2>1. ASSUME NEW k \in Images, Holding(k)
        PROVE  /\ Past(k, nextPacketId - 1)
               /\ \A e \in network' :
                    e.image > k \/ (e.image = k /\ e.packet >= nextPacketId)
    BY <1>1, <2>1 DEF Inv, OrderInv, HeldOrder
  <2>2. QED
    BY <1>2, <2>1 DEF HeldOrder
<1>5. ReturnedInv'
  BY <1>1, <1>2 DEF Inv, OrderInv, ReturnedInv
<1>6. DamagedInv'
  <2> SUFFICES ASSUME NEW k \in damaged'
               PROVE  \E p \in Packets(k) :
                        /\ Past(k, p) /\ ~InNetwork(k, p)'
                        /\ Holding(k) => p >= nextPacketId
    BY <1>2 DEF DamagedInv
  <2>1. CASE k = d.image
    <3>1. ~InNetwork(k, d.packet)'
      BY <1>1, <2>1 DEF InNetwork, Inv, OrderInv, NetworkOrder
    <3>2. /\ d.packet \in Packets(k) /\ Past(k, d.packet)
          /\ k \in Images /\ k \in Nat /\ d.packet \in Nat
      BY <2>1, InvDatagram DEF Orderly
    <3>3. Holding(k) => d.packet >= nextPacketId
      BY <2>1, <3>2 DEF Inv, OrderInv, HeldOrder
    <3>4. QED
      BY <3>1, <3>2, <3>3
  <2>2. CASE k \in damaged
    <3>1. PICK p \in Packets(k) :
            Past(k, p) /\ ~InNetwork(k, p) /\ (Holding(k) => p >= nextPacketId)
      BY <2>2 DEF Inv, OrderInv, DamagedInv
    <3>2. ~InNetwork(k, p)'
      BY <1>1, <3>1 DEF InNetwork
    <3>3. QED
      BY <3>1, <3>2
  <2>3. QED
    BY <1>1, <2>1, <2>2
<1>7. IntactInv'
  <2> SUFFICES ASSUME readerPc # "failed", NEW k \in Intact, k # d.image,
                      NEW p \in Packets(k), Sent(k, p)
               PROVE  InNetwork(k, p)' \/ (Holding(k) /\ p < nextPacketId)
    BY <1>2 DEF IntactInv
  <2>1. InNetwork(k, p) \/ (Holding(k) /\ p < nextPacketId)
    BY DEF Inv, OrderInv, IntactInv
  <2>2. InNetwork(k, p) => InNetwork(k, p)'
    BY <1>1 DEF InNetwork
  <2>3. QED
    BY <2>1, <2>2
<1>8. QED
  BY <1>3, <1>4, <1>5, <1>6, <1>7 DEF OrderInv

(* readPreview is called, or fails: nothing is held, before or after. *)
LEMMA IdleKeepsOrder ==
  ASSUME Inv, Call \/ ReceiveFails \/ UNCHANGED vars
  PROVE  OrderInv'
<1>1. /\ UNCHANGED <<senderVars, network, damaged, delivered>>
      /\ \/ /\ \A k : ~Holding(k)'
            /\ (\A k : ~Holding(k)) \/ readerPc' = "failed"
            /\ readerPc = "failed" => readerPc' = "failed"
         \/ UNCHANGED <<readerPc, discard, currentImageId, nextPacketId>>
  BY DEF Call, ReceiveFails, vars, readerVars, Holding
<1>2. /\ Returned' = Returned /\ Intact' = Intact
      /\ \A k, p : Past(k, p)' <=> Past(k, p)
      /\ \A k, p : Sent(k, p)' <=> Sent(k, p)
      /\ \A k, p : InNetwork(k, p)' <=> InNetwork(k, p)
      /\ UNCHANGED <<senderPc, sentBytes, sentPackets, network, damaged>>
  BY <1>1 DEF senderVars, Returned, Intact, Past, Sent, InNetwork
<1>3. NetworkOrder' /\ ReturnedInv'
  BY <1>2 DEF Inv, OrderInv, NetworkOrder, ReturnedInv
<1>4. CASE UNCHANGED <<readerPc, discard, currentImageId, nextPacketId>>
  <2>1. \A k : Holding(k)' <=> Holding(k)
    BY <1>4 DEF Holding
  <2>2. HeldOrder'
    BY <1>2, <1>4, <2>1 DEF Inv, OrderInv, HeldOrder
  <2>3. DamagedInv'
    BY <1>2, <1>4, <2>1 DEF Inv, OrderInv, DamagedInv
  <2>4. IntactInv'
    BY <1>2, <1>4, <2>1 DEF Inv, OrderInv, IntactInv
  <2>5. QED
    BY <1>3, <2>2, <2>3, <2>4 DEF OrderInv
<1>5. CASE /\ \A k : ~Holding(k)'
           /\ (\A k : ~Holding(k)) \/ readerPc' = "failed"
           /\ readerPc = "failed" => readerPc' = "failed"
  <2>1. HeldOrder'
    BY <1>5 DEF HeldOrder
  <2>2. DamagedInv'
    BY <1>2, <1>5 DEF Inv, OrderInv, DamagedInv
  <2>3. IntactInv'
    BY <1>2, <1>5 DEF Inv, OrderInv, IntactInv
  <2>4. QED
    BY <1>3, <2>1, <2>2, <2>3 DEF OrderInv
<1>6. QED
  BY <1>1, <1>4, <1>5

-----------------------------------------------------------------------------
(* A datagram is received. *)

(* It comes before what stays in the network. *)
LEMMA Received ==
  ASSUME Orderly, Inv, NEW d \in network, Receive(d)
  PROVE  /\ readerPc = "receive"
         /\ network' = network \ {d}
         /\ \A e \in network : e # d => Before(d, e)
BY DEF Receive, Arrives, Orderly

(* Of an image that is being put together, whose packets were sent and not *)
(* lost, the next packet is the next datagram.                             *)
LEMMA InSequence ==
  ASSUME Orderly, Inv, NEW d \in network, Receive(d),
         NEW k \in Intact, Holding(k), NEW q \in Packets(k), Sent(k, q)
  PROVE  d.image = k /\ d.packet = nextPacketId
<1>1. /\ k \in Images /\ k \in Nat \ {0} /\ sending \in Nat
      /\ \A p \in Packets(k) : Sent(k, p) => InNetwork(k, p) \/ p < nextPacketId
  BY ConstantFacts, Received
     DEF Intact, Inv, IInv, SenderInv, OrderInv, IntactInv
<1>2. /\ d.image \in Nat /\ d.packet \in Nat
      /\ d.packet \in Packets(d.image) /\ Past(d.image, d.packet)
      /\ d.image <= sending
  BY InvDatagram DEF Orderly
<1>3. nextPacketId \in Nat /\ nextPacketId \in Packets(k)
  <2>1. PICK j \in Images : Holds(j)
    BY DEF Holding, Inv, IInv, ReaderInv
  <2>2. j = k
    <3>1. j - 1 = k - 1
      BY <2>1 DEF Holds, Holding
    <3>2. j \in Nat /\ k \in Nat
      BY <1>1, ConstantFacts
    <3>3. QED
      BY ONLY <3>1, <3>2
  <2>3. /\ nextPacketId \in Nat \ {0}
        /\ (nextPacketId - 1) * MaxPayload < ImageSizes[k]
    BY <1>1, <2>1, <2>2, EmptySpoilt DEF Holds, Intact, Orderly
  <2>4. QED
    BY <1>1, <2>3, PacketNumber
<1>4. d.image > k \/ (d.image = k /\ d.packet >= nextPacketId)
  BY <1>1 DEF Inv, OrderInv, HeldOrder
<1>5. ASSUME Sent(k, nextPacketId)
      PROVE  d.image = k /\ d.packet = nextPacketId
  <2>1. PICK e \in network : e.image = k /\ e.packet = nextPacketId
    BY <1>1, <1>3, <1>5 DEF InNetwork
  <2>2. e = d \/ Before(d, e)
    BY <2>1, Received
  <2>3. QED
    BY <1>1, <1>2, <1>3, <1>4, <2>1, <2>2 DEF Before
<1>6. CASE d.image > k
  BY <1>1, <1>2, <1>5, <1>6 DEF Sent
<1>7. CASE d.image = k /\ d.packet >= nextPacketId
  <2>1. sentPackets \in Nat
    BY DEF Inv, IInv, SenderInv
  <2>2. Sent(k, nextPacketId)
    BY <1>1, <1>2, <1>3, <1>7, <2>1 DEF Sent, Past
  <2>3. QED
    BY <1>5, <2>2
<1>8. QED
  BY <1>4, <1>6, <1>7

(* What receiving leaves alone. *)
LEMMA ReceiveKeeps ==
  ASSUME Orderly, Inv, NEW d \in network, Receive(d),
         UNCHANGED <<senderVars, damaged, delivered>>
  PROVE  /\ NetworkOrder' /\ ReturnedInv'
         /\ Returned' = Returned /\ Intact' = Intact /\ damaged' = damaged
         /\ \A k, p : Past(k, p)' <=> Past(k, p)
         /\ \A k, p : Sent(k, p)' <=> Sent(k, p)
         /\ \A k, p : InNetwork(k, p)' => InNetwork(k, p)
<1>1. /\ Returned' = Returned /\ Intact' = Intact /\ damaged' = damaged
      /\ \A k, p : Past(k, p)' <=> Past(k, p)
      /\ \A k, p : Sent(k, p)' <=> Sent(k, p)
      /\ UNCHANGED <<senderPc, sentBytes, sentPackets>>
      /\ network' = network \ {d}
  BY Received DEF senderVars, Returned, Intact, Past, Sent
<1>2. NetworkOrder' /\ ReturnedInv'
  BY <1>1 DEF Inv, OrderInv, NetworkOrder, ReturnedInv
<1>3. \A k, p : InNetwork(k, p)' => InNetwork(k, p)
  BY <1>1 DEF InNetwork
<1>4. QED
  BY <1>1, <1>2, <1>3

LEMMA FirstPacketKeepsOrder ==
  ASSUME Orderly, Inv, NEW d \in network, FirstPacket(d)
  PROVE  OrderInv'
<1> DEFINE k == d.image
<1>1. /\ k \in Images /\ k \in Nat \ {0} /\ d.packet = 0
      /\ Past(k, 0)
      /\ currentImageId' = k - 1 /\ nextPacketId' = 1 /\ ~discard'
      /\ readerPc' = "receive" /\ readerPc = "receive" /\ Receive(d)
      /\ UNCHANGED <<senderVars, damaged, delivered>>
  BY InvDatagram DEF FirstPacket, Receive, Orderly
<1>2. /\ NetworkOrder' /\ ReturnedInv'
      /\ Returned' = Returned /\ Intact' = Intact /\ damaged' = damaged
      /\ \A j, p : Past(j, p)' <=> Past(j, p)
      /\ \A j, p : Sent(j, p)' <=> Sent(j, p)
      /\ \A j, p : InNetwork(j, p)' => InNetwork(j, p)
  BY <1>1, ReceiveKeeps
<1>3. \A j \in Images : Holding(j)' <=> j = k
  BY <1>1, ConstantFacts DEF Holding
<1>4. HeldOrder'
  <2>1. ASSUME NEW e \in network'
        PROVE  e.image > k \/ (e.image = k /\ e.packet >= 1)
    <3>1. e \in network /\ Before(d, e)
      BY <1>1, Received
    <3>2. e.image \in Nat /\ e.packet \in Nat
      BY <3>1, InvDatagram DEF Orderly
    <3>3. QED
      BY <1>1, <3>1, <3>2 DEF Before
  <2>2. nextPacketId' - 1 = 0 /\ Past(k, 0)'
    BY <1>1, <1>2
  <2>3. Past(k, nextPacketId - 1)'
    BY <2>2
  <2>4. QED
    BY <1>1, <1>3, <2>1, <2>3 DEF HeldOrder
<1>5. DamagedInv'
  <2> SUFFICES ASSUME NEW j \in damaged
               PROVE  \E p \in Packets(j) :
                        /\ Past(j, p)' /\ ~InNetwork(j, p)'
                        /\ Holding(j)' => p >= nextPacketId'
    BY <1>2 DEF DamagedInv
  <2>1. PICK p \in Packets(j) : Past(j, p) /\ ~InNetwork(j, p)
    BY DEF Inv, OrderInv, DamagedInv
  <2>2. j \in Images /\ p \in Nat
    BY PacketFacts DEF Inv, SafeInv, TypeOK
  <2>3. j = k => p # 0
    BY <1>1, <2>1 DEF InNetwork
  <2>4. Holding(j)' => p >= nextPacketId'
    BY <1>1, <1>3, <2>2, <2>3
  <2>5. QED
    BY <1>2, <2>1, <2>4
<1>6. IntactInv'
  <2> SUFFICES ASSUME NEW j \in Intact, NEW p \in Packets(j), Sent(j, p)
               PROVE  InNetwork(j, p)' \/ (Holding(j)' /\ p < nextPacketId')
    BY <1>2 DEF IntactInv
  <2>1. j \in Images /\ p \in Nat
    BY PacketFacts DEF Intact
  <2>2. ~Holding(j)
    <3>1. SUFFICES ASSUME Holding(j) PROVE FALSE
      OBVIOUS
    <3>2. nextPacketId = 0
      BY <1>1, <3>1, InSequence
    <3>3. QED
      BY <3>1, <3>2 DEF Holding, Inv, IInv, ReaderInv, Holds
  <2>3. PICK e \in network : e.image = j /\ e.packet = p
    BY <1>1, <2>2 DEF Inv, OrderInv, IntactInv, InNetwork
  <2>4. CASE e = d
    BY <1>1, <1>3, <2>1, <2>3, <2>4
  <2>5. CASE e # d
    <3>1. e \in network'
      BY <1>1, <2>5, Received
    <3>2. QED
      BY <2>3, <3>1 DEF InNetwork
  <2>6. QED
    BY <2>4, <2>5
<1>7. QED
  BY <1>2, <1>4, <1>5, <1>6 DEF OrderInv

LEMMA SkipKeepsOrder ==
  ASSUME Orderly, Inv, NEW d \in network, Skip(d)
  PROVE  OrderInv'
<1>1. /\ discard' /\ Receive(d) /\ readerPc = "receive"
      /\ d.packet # 0 /\ d.packet \in Nat /\ PacketId(d) = d.packet
      /\ ImageId(d) = d.image - 1 /\ d.image \in Nat
      /\ d.packet \in Packets(d.image) /\ Past(d.image, d.packet)
      /\ ~Expected(d)
      /\ UNCHANGED <<senderVars, damaged, delivered>>
  BY InvDatagram DEF Skip, Receive, Orderly
<1>2. /\ NetworkOrder' /\ ReturnedInv'
      /\ Returned' = Returned /\ Intact' = Intact /\ damaged' = damaged
      /\ \A j, p : Past(j, p)' <=> Past(j, p)
      /\ \A j, p : Sent(j, p)' <=> Sent(j, p)
      /\ \A j, p : InNetwork(j, p)' => InNetwork(j, p)
  BY <1>1, ReceiveKeeps
<1>3. \A j : ~Holding(j)'
  BY <1>1 DEF Holding
<1>4. HeldOrder'
  BY <1>3 DEF HeldOrder
<1>5. DamagedInv'
  BY <1>2, <1>3 DEF Inv, OrderInv, DamagedInv
<1>6. IntactInv'
  <2> SUFFICES ASSUME NEW j \in Intact, NEW p \in Packets(j), Sent(j, p)
               PROVE  InNetwork(j, p)'
    BY <1>2 DEF IntactInv
  <2>1. j \in Images /\ p \in Nat /\ j \in Nat
    BY PacketFacts, ConstantFacts DEF Intact
  <2>2. ~Holding(j)
    <3>1. SUFFICES ASSUME Holding(j) PROVE FALSE
      OBVIOUS
    <3>2. d.image = j /\ d.packet = nextPacketId
      BY <1>1, <3>1, InSequence
    <3>3. QED
      BY <1>1, <3>1, <3>2 DEF Holding, Expected
  <2>3. \A q \in Packets(j) : Sent(j, q) => InNetwork(j, q)
    BY <1>1, <2>2 DEF Inv, OrderInv, IntactInv
  <2>4. PICK e \in network : e.image = j /\ e.packet = p
    BY <2>3 DEF InNetwork
  <2>5. CASE e # d
    <3>1. e \in network'
      BY <1>1, <2>5, Received
    <3>2. QED
      BY <2>4, <3>1 DEF InNetwork
  <2>6. CASE e = d
    <3>1. 0 \in Packets(j) /\ Sent(j, 0)
      BY <2>1 DEF Packets, Sent, Inv, IInv, SenderInv
    <3>2. PICK z \in network : z.image = j /\ z.packet = 0
      BY <2>3, <3>1 DEF InNetwork
    <3>3. Before(d, z)
      BY <1>1, <3>2, Received
    <3>4. QED
      BY <1>1, <2>1, <2>4, <2>6, <3>2, <3>3 DEF Before
  <2>7. QED
    BY <2>5, <2>6
<1>7. QED
  BY <1>2, <1>4, <1>5, <1>6 DEF OrderInv

(* An expected packet: what it is, and what becomes of it. *)
LEMMA AcceptFacts ==
  ASSUME Orderly, Inv, NEW d \in network, Accept(d)
  PROVE  /\ d.image \in Images /\ d.image \in Nat \ {0} /\ Holding(d.image)
         /\ ImageSizes[d.image] # 0
         /\ d.packet = nextPacketId /\ nextPacketId \in Nat \ {0}
         /\ \/ /\ UNCHANGED <<readerPc, discard, currentImageId, delivered>>
               /\ nextPacketId' = nextPacketId + 1
            \/ /\ readerPc' = "idle"
               /\ delivered' = delivered \cup {WholeImage(d.image)}
               /\ \A p \in Packets(d.image) : p <= d.packet
<1>1. /\ NoWrap /\ NetworkInv /\ VectorInv /\ ReaderInv
      /\ readerPc = "receive" /\ ~discard
      /\ PacketId(d) # 0 /\ Expected(d) /\ d.size = ExpectedSize
      /\ offset' = offset + d.size
      /\ nextPacketId' = (nextPacketId + 1) % IdModulus
      /\ UNCHANGED <<currentImageId, discard>>
  BY DEF Orderly, Inv, IInv, Accept, Receive, Expected
<1>2. PICK k \in Images : Holds(k)
  BY <1>1 DEF ReaderInv
<1>3. /\ d.image = k /\ d.packet = nextPacketId /\ d.size \in Nat \ {0}
      /\ offset < byteCount /\ offset \in Nat
      /\ d.size <= MaxPayload
      /\ d.size = IF byteCount - offset < MaxPayload
                  THEN byteCount - offset ELSE MaxPayload
  BY <1>1, <1>2, ExpectedBytes DEF VectorInv
<1>4. /\ k \in Nat \ {0} /\ currentImageId = k - 1
      /\ byteCount = ImageSizes[k] /\ byteCount \in Nat
      /\ MaxPayload \in Nat \ {0} /\ IdModulus \in Nat \ {0, 1}
      /\ nextPacketId \in Nat \ {0} /\ offset \in Int
      /\ offset = (nextPacketId - 1) * MaxPayload
      /\ nextPacketId * MaxPayload = offset + MaxPayload
  <2>1. (nextPacketId - 1 + 1) * MaxPayload
          = (nextPacketId - 1) * MaxPayload + MaxPayload
        /\ nextPacketId - 1 + 1 = nextPacketId
    BY <1>2, ConstantFacts, ProductStep DEF Holds
  <2>2. nextPacketId * MaxPayload = (nextPacketId - 1) * MaxPayload + MaxPayload
    BY <2>1
  <2>3. QED
    BY <1>2, <2>2, ConstantFacts, SizesAssumption DEF Holds
<1>5. ASSUME offset' < byteCount PROVE nextPacketId' = nextPacketId + 1
  <2>1. nextPacketId * MaxPayload < byteCount
    BY <1>1, <1>3, <1>4, <1>5
  <2>2. PICK p \in Nat \ {0} : p = nextPacketId + 1 /\ p - 1 = nextPacketId
    BY <1>4
  <2>3. p \in Packets(k)
    BY <1>4, <2>1, <2>2, PacketNumber
  <2>4. p < IdModulus
    BY <1>1, <2>3, PacketBound
  <2>5. QED
    BY <1>1, <1>4, <2>2, <2>4, ModSmall
<1>6. ASSUME offset' = byteCount, NEW p \in Packets(k) PROVE p <= nextPacketId
  <2>1. /\ p \in Nat /\ (p # 0 => (p - 1) * MaxPayload < byteCount)
        /\ byteCount <= nextPacketId * MaxPayload
    BY <1>1, <1>3, <1>4, <1>6, PacketFacts
  <2>2. SUFFICES ASSUME nextPacketId < p PROVE FALSE
    BY <1>4, <2>1
  <2>3. nextPacketId \in Int /\ p - 1 \in Int /\ nextPacketId <= p - 1 /\ p # 0
    BY <1>4, <2>1, <2>2
  <2>4. nextPacketId * MaxPayload <= (p - 1) * MaxPayload
    <3>1. MaxPayload \in Nat
      BY <1>4
    <3>2. QED
      BY ONLY <2>3, <3>1, ProductOrder
  <2>5. nextPacketId * MaxPayload \in Int /\ (p - 1) * MaxPayload \in Int
    BY <1>4, <2>1
  <2>6. QED
    BY <1>4, <2>1, <2>3, <2>4, <2>5
<1>7. ASSUME offset' = byteCount, data' = Resize(Written(d), byteCount)
      PROVE  data' = WholeImage(k)
  BY <1>1, <1>3, <1>7, LastPacketWhole
<1>8. \/ /\ UNCHANGED <<readerPc, delivered>>
         /\ offset' < byteCount
      \/ /\ readerPc' = "idle" /\ delivered' = delivered \union {data'}
         /\ offset' = byteCount /\ data' = Resize(Written(d), byteCount)
  BY DEF Accept
<1>9. Holding(k)
  BY <1>1, <1>4 DEF Holding
<1>10. QED
  BY <1>1, <1>3, <1>4, <1>5, <1>6, <1>7, <1>8, <1>9

LEMMA AcceptKeepsOrder ==
  ASSUME Orderly, Inv, NEW d \in network, Accept(d)
  PROVE  OrderInv'
<1> DEFINE k == d.image
<1>1. /\ k \in Images /\ k \in Nat \ {0} /\ Holding(k) /\ Receive(d)
      /\ ImageSizes[k] # 0
      /\ d.packet = nextPacketId /\ nextPacketId \in Nat \ {0}
      /\ Past(k, d.packet) /\ d.packet \in Packets(k)
      /\ readerPc = "receive"
      /\ UNCHANGED <<senderVars, damaged>>
  BY AcceptFacts, InvDatagram DEF Accept, Receive, Orderly
<1>2. \A j \in Images : Holding(j) <=> j = k
  BY <1>1, ConstantFacts DEF Holding
<1>3. ASSUME NEW e \in network'
      PROVE  /\ e \in network
             /\ e.image > k \/ (e.image = k /\ e.packet > d.packet)
             /\ e.packet \in Packets(e.image) /\ e.packet \in Nat
  <2>1. e \in network /\ Before(d, e)
    BY <1>1, <1>3, Received
  <2>2. e.image \in Nat /\ e.packet \in Nat /\ e.packet \in Packets(e.image)
    BY <2>1, InvDatagram DEF Orderly
  <2>3. QED
    BY <1>1, <2>1, <2>2 DEF Before
<1>4. ASSUME NEW j \in Intact, NEW p \in Packets(j), Sent(j, p)
      PROVE  InNetwork(j, p)' \/ (j = k /\ p <= nextPacketId)
  <2>1. j \in Images /\ p \in Nat
    BY PacketFacts DEF Intact
  <2>2. InNetwork(j, p) \/ (j = k /\ p < nextPacketId)
    BY <1>1, <1>2, <1>4, <2>1 DEF Inv, OrderInv, IntactInv
  <2>3. CASE InNetwork(j, p)
    <3>1. PICK e \in network : e.image = j /\ e.packet = p
      BY <2>3 DEF InNetwork
    <3>2. e \in network' \/ e = d
      BY <1>1, Received
    <3>3. QED
      BY <1>1, <3>1, <3>2 DEF InNetwork
  <2>4. QED
    BY <1>1, <2>1, <2>2, <2>3
<1>5. CASE /\ UNCHANGED <<readerPc, discard, currentImageId, delivered>>
           /\ nextPacketId' = nextPacketId + 1
  <2>1. /\ NetworkOrder' /\ ReturnedInv'
        /\ Returned' = Returned /\ Intact' = Intact /\ damaged' = damaged
        /\ \A j, p : Past(j, p)' <=> Past(j, p)
        /\ \A j, p : Sent(j, p)' <=> Sent(j, p)
        /\ \A j, p : InNetwork(j, p)' => InNetwork(j, p)
    BY <1>1, <1>5, ReceiveKeeps
  <2>2. \A j \in Images : Holding(j)' <=> j = k
    BY <1>2, <1>5 DEF Holding
  <2>3. HeldOrder'
    <3>1. nextPacketId' - 1 = d.packet /\ Past(k, d.packet)'
      BY <1>1, <1>5, <2>1
    <3>2. Past(k, nextPacketId - 1)'
      BY <3>1
    <3>3. ASSUME NEW e \in network'
          PROVE  e.image > k \/ (e.image = k /\ e.packet >= nextPacketId')
      BY <1>1, <1>3, <1>5
    <3>4. QED
      BY <2>2, <3>2, <3>3 DEF HeldOrder
  <2>4. DamagedInv'
    <3> SUFFICES ASSUME NEW j \in damaged
                 PROVE  \E p \in Packets(j) :
                          /\ Past(j, p)' /\ ~InNetwork(j, p)'
                          /\ Holding(j)' => p >= nextPacketId'
      BY <2>1 DEF DamagedInv
    <3>1. PICK p \in Packets(j) :
            Past(j, p) /\ ~InNetwork(j, p) /\ (Holding(j) => p >= nextPacketId)
      BY DEF Inv, OrderInv, DamagedInv
    <3>2. j \in Images /\ p \in Nat
      BY PacketFacts DEF Inv, SafeInv, TypeOK
    <3>3. j = k => p # nextPacketId
      BY <1>1, <3>1 DEF InNetwork
    <3>4. Holding(j)' => p >= nextPacketId'
      BY <1>1, <1>2, <1>5, <2>2, <3>1, <3>2, <3>3
    <3>5. QED
      BY <2>1, <3>1, <3>4
  <2>5. IntactInv'
    <3> SUFFICES ASSUME NEW j \in Intact, NEW p \in Packets(j), Sent(j, p)
                 PROVE  InNetwork(j, p)' \/ (Holding(j)' /\ p < nextPacketId')
      BY <2>1 DEF IntactInv
    <3>1. j \in Images /\ p \in Nat
      BY PacketFacts DEF Intact
    <3>2. p <= nextPacketId => p < nextPacketId'
      BY <1>1, <1>5, <3>1
    <3>3. QED
      BY <1>4, <2>2, <3>1, <3>2
  <2>6. QED
    BY <2>1, <2>3, <2>4, <2>5 DEF OrderInv
<1>6. CASE /\ readerPc' = "idle"
           /\ delivered' = delivered \cup {WholeImage(k)}
           /\ \A p \in Packets(k) : p <= d.packet
  <2>1. /\ Returned' = Returned \cup {k} /\ Intact' = Intact \ {k}
        /\ damaged' = damaged
    BY <1>1, <1>6, ImageOfWhole DEF Returned, Intact
  <2>2. /\ \A j, p : Past(j, p)' <=> Past(j, p)
        /\ \A j, p : Sent(j, p)' <=> Sent(j, p)
        /\ \A j : ~Holding(j)'
        /\ UNCHANGED <<senderPc, sentBytes, sentPackets>>
    BY <1>1, <1>6 DEF senderVars, Past, Sent, Holding
  <2>3. NetworkOrder'
    BY <1>3, <2>2 DEF Inv, OrderInv, NetworkOrder
  <2>4. HeldOrder'
    BY <2>2 DEF HeldOrder
  <2>5. ReturnedInv'
    <3>1. ASSUME NEW e \in network' PROVE e.image > k
      <4>1. e.image = k => e.packet <= d.packet
        BY <1>3, <1>6
      <4>2. d.packet \in Nat /\ e.packet \in Nat
        BY <1>1, <1>3
      <4>3. QED
        BY <1>3, <4>1, <4>2
    <3>2. ASSUME NEW p \in Packets(k) PROVE Past(k, p)
      <4>1. p \in Nat /\ p <= d.packet /\ d.packet \in Nat
        BY <1>1, <1>6, PacketFacts
      <4>2. sentPackets \in Nat /\ sending \in Nat
        BY DEF Inv, IInv, SenderInv
      <4>3. QED
        BY <1>1, <4>1, <4>2 DEF Past
    <3>3. ASSUME NEW j \in Returned
          PROVE  /\ \A e \in network' : e.image > j
                 /\ \A p \in Packets(j) : Past(j, p)
      BY <1>3 DEF Inv, OrderInv, ReturnedInv
    <3>4. ASSUME NEW j \in Returned'
          PROVE  /\ \A e \in network' : e.image > j
                 /\ \A p \in Packets(j) : Past(j, p)'
      BY <2>1, <2>2, <3>1, <3>2, <3>3
    <3>5. QED
      BY <3>4 DEF ReturnedInv
  <2>6. DamagedInv'
    <3> SUFFICES ASSUME NEW j \in damaged
                 PROVE  \E p \in Packets(j) : Past(j, p)' /\ ~InNetwork(j, p)'
      BY <2>1, <2>2 DEF DamagedInv
    <3>1. PICK p \in Packets(j) : Past(j, p) /\ ~InNetwork(j, p)
      BY DEF Inv, OrderInv, DamagedInv
    <3>2. ~InNetwork(j, p)'
      BY <1>3, <3>1 DEF InNetwork
    <3>3. QED
      BY <2>2, <3>1, <3>2
  <2>7. IntactInv'
    <3> SUFFICES ASSUME NEW j \in Intact, j # k, NEW p \in Packets(j), Sent(j, p)
                 PROVE  InNetwork(j, p)'
      BY <2>1, <2>2 DEF IntactInv
    <3>1. QED
      BY <1>4
  <2>8. QED
    BY <2>3, <2>4, <2>5, <2>6, <2>7 DEF OrderInv
<1>7. QED
  BY <1>5, <1>6, AcceptFacts

(* No other datagram is ever in the network. *)
LEMMA NothingMalformed ==
  ASSUME Orderly, Inv, NEW d \in network
  PROVE  ~FirstPacketWrongSize(d) /\ ~WrongSize(d)
<1>1. /\ Genuine(d) /\ PacketId(d) = d.packet /\ d.packet \in Nat
      /\ ImageId(d) = d.image - 1 /\ d.image \in Nat
  BY InvDatagram DEF Orderly
<1>2. ~FirstPacketWrongSize(d)
  BY <1>1 DEF FirstPacketWrongSize, Genuine
<1>3. ASSUME WrongSize(d) PROVE FALSE
  <2>1. /\ ~discard /\ readerPc = "receive" /\ d.packet # 0
        /\ d.image - 1 = currentImageId /\ d.packet = nextPacketId
        /\ d.size # ExpectedSize
    BY <1>1, <1>3 DEF WrongSize, Receive, Expected
  <2>2. PICK k \in Images : Holds(k)
    BY <2>1 DEF Inv, IInv, ReaderInv
  <2>3. d.image = k
    BY <1>1, <2>1, <2>2, ConstantFacts DEF Holds
  <2>4. d.offset = offset /\ byteCount = ImageSizes[k]
    BY <1>1, <2>1, <2>2 DEF Genuine, Holds
  <2>5. d.size = ExpectedSize
    BY <1>1, <2>1, <2>3, <2>4 DEF Genuine, ExpectedSize
  <2>6. QED
    BY <2>1, <2>5
<1>4. QED
  BY <1>2, <1>3

LEMMA OrderStep ==
  ASSUME Orderly, Inv, [Next]_vars
  PROVE  Inv'
<1>1. SafeInv' /\ IInv'
  BY SafeStep, InvariantStep DEF Inv, Orderly
<1>2. OrderInv'
  BY SenderKeepsOrder, LoseKeepsOrder, IdleKeepsOrder, FirstPacketKeepsOrder,
     SkipKeepsOrder, AcceptKeepsOrder, NothingMalformed
     DEF Next, ReaderNext, Process
<1>3. QED
  BY <1>1, <1>2 DEF Inv

LEMMA OrderInit == Init => Inv
<1> SUFFICES ASSUME Init PROVE Inv
  OBVIOUS
<1>1. SafeInv /\ IInv
  BY SafeInit, InvariantInit
<1>2. NetworkOrder /\ HeldOrder
  BY DEF Init, NetworkOrder, HeldOrder, Holding
<1>3. ReturnedInv /\ DamagedInv
  BY DEF Init, ReturnedInv, DamagedInv, Returned
<1>4. IntactInv
  BY ConstantFacts DEF Init, IntactInv, Intact, Sent
<1>5. QED
  BY <1>1, <1>2, <1>3, <1>4 DEF Inv, OrderInv

-----------------------------------------------------------------------------
(* The steps of the channel. *)

(* The last packet of an image returns it. *)
LEMMA AcceptImplements ==
  ASSUME Orderly, Inv, NEW d \in network, Accept(d)
  PROVE  [Channel!Next]_(Channel!vars)
<1> DEFINE k == d.image
<1>1. /\ k \in Images /\ k \in Nat \ {0} /\ Holding(k) /\ Receive(d)
      /\ d.packet = nextPacketId /\ nextPacketId \in Nat \ {0}
      /\ k <= sending /\ sending \in Nat /\ ImageSizes[k] # 0
      /\ UNCHANGED <<sending, damaged>> /\ readerPc = "receive"
  BY AcceptFacts, InvDatagram
     DEF Accept, Receive, Orderly, senderVars, Inv, IInv, SenderInv
<1>2. k \notin Spoilt
  BY <1>1, EmptySpoilt DEF Orderly
<1>3. CASE delivered' = delivered
  BY <1>1, <1>3 DEF Channel!vars, Returned
<1>4. CASE /\ delivered' = delivered \cup {WholeImage(k)}
           /\ \A p \in Packets(k) : p <= d.packet
  <2>1. {ImageOf(f) : f \in delivered'} = {ImageOf(f) : f \in delivered} \cup {k}
    BY <1>1, <1>4, ImageOfWhole
  <2>2. k \notin damaged
    <3>1. SUFFICES ASSUME k \in damaged PROVE FALSE
      OBVIOUS
    <3>2. PICK p \in Packets(k) : ~InNetwork(k, p) /\ p >= nextPacketId
      BY <1>1, <3>1 DEF Inv, OrderInv, DamagedInv
    <3>3. p <= d.packet /\ p \in Nat
      BY <1>1, <1>4, PacketFacts
    <3>4. p = d.packet
      BY <1>1, <3>2, <3>3
    <3>5. QED
      BY <3>2, <3>4 DEF InNetwork
  <2>3. k \notin Returned
    BY <1>1 DEF Inv, OrderInv, ReturnedInv
  <2>4. ASSUME NEW j \in 1..(k - 1) PROVE j \in damaged \cup Spoilt \cup Returned
    <3>1. SUFFICES ASSUME j \notin damaged \cup Spoilt \cup Returned PROVE FALSE
      OBVIOUS
    <3>2. j \in Images /\ j \in Nat /\ j < k
      BY <1>1, ImagesRange
    <3>3. j \in Intact /\ 0 \in Packets(j) /\ Sent(j, 0) /\ ~Holding(j)
      BY <1>1, <3>1, <3>2 DEF Intact, Packets, Sent, Holding
    <3>4. InNetwork(j, 0)
      BY <1>1, <3>3 DEF Inv, OrderInv, IntactInv
    <3>5. PICK e \in network : e.image = j
      BY <3>4 DEF InNetwork
    <3>6. Before(d, e)
      BY <1>1, <3>2, <3>5, Received
    <3>7. QED
      BY <1>1, <3>2, <3>5, <3>6 DEF Before
  <2>5. Channel!Return(k)
    BY <1>1, <1>2, <2>1, <2>2, <2>3, <2>4 DEF Channel!Return, Returned
  <2>6. k \in 1..Len(ImageSizes)
    BY <1>1, ImagesRange
  <2>7. QED
    BY <1>1, <2>5, <2>6 DEF Channel!Next
<1>5. QED
  BY <1>3, <1>4, AcceptFacts

LEMMA StepImplements ==
  ASSUME Orderly, Inv, [Next]_vars
  PROVE  [Channel!Next]_(Channel!vars)
<1>1. ASSUME UNCHANGED <<sending, damaged, delivered>>
      PROVE  [Channel!Next]_(Channel!vars)
  BY <1>1 DEF Channel!vars
<1>2. CASE SendHeader \/ SendPiece \/ SendFails
  BY <1>1, <1>2 DEF SendHeader, SendPiece, SendFails, readerVars
<1>3. CASE NextImage
  <2>1. sending \in 1..Len(ImageSizes)
    BY <1>3, ImagesRange DEF NextImage, Inv, SafeInv
  <2>2. Channel!Send
    BY <1>3, <2>1 DEF NextImage, Channel!Send, readerVars
  <2>3. QED
    BY <2>2 DEF Channel!Next
<1>4. ASSUME NEW d \in network, Lose(d)
      PROVE  [Channel!Next]_(Channel!vars)
  <2>1. /\ d.image \in 1..Len(ImageSizes) /\ d.image <= sending
        /\ d.image \in Nat
    BY ImagesRange, InvDatagram DEF Orderly
  <2>2. d.image \notin Returned
    BY <2>1 DEF Inv, OrderInv, ReturnedInv
  <2>3. Channel!Damage(d.image)
    BY <1>4, <2>2 DEF Lose, Channel!Damage, Returned, senderVars, readerVars
  <2>4. QED
    BY <2>1, <2>3 DEF Channel!Next
<1>5. ASSUME NEW d \in network, Accept(d)
      PROVE  [Channel!Next]_(Channel!vars)
  BY <1>5, AcceptImplements
<1>6. ASSUME NEW d \in network, FirstPacket(d) \/ Skip(d)
      PROVE  [Channel!Next]_(Channel!vars)
  BY <1>1, <1>6 DEF FirstPacket, Skip, senderVars
<1>7. CASE Call \/ ReceiveFails \/ UNCHANGED vars
  BY <1>1, <1>7 DEF Call, ReceiveFails, vars, senderVars, readerVars
<1>8. QED
  BY <1>2, <1>3, <1>4, <1>5, <1>6, <1>7, NothingMalformed
     DEF Next, SenderNext, ReaderNext, Process

(* transferData and readPreview implement the channel of whole images: a   *)
(* network that loses datagrams costs the images they are of and no other, *)
(* and images are returned in the order they were taken, each once; the    *)
(* empty ones are left out.                                                *)
THEOREM Implementation ==
  ASSUME Orderly
  PROVE  Spec => ImplementsChannel
<1>1. Init => Channel!Init
  BY DEF Init, Channel!Init
<1>2. Inv /\ [Next]_vars => [Channel!Next]_(Channel!vars)
  BY StepImplements
<1>3. Inv /\ [Next]_vars => Inv'
  BY OrderStep
<1>4. QED
  BY <1>1, <1>2, <1>3, OrderInit, PTL DEF Spec, ImplementsChannel, Channel!Spec

=============================================================================

--------------------------- MODULE PreviewTransfer --------------------------
(***************************************************************************)
(* The preview stream over UDP: CameraController::transferData on the      *)
(* server cuts each image into datagrams, ImageLoader::readPreview on the  *)
(* client puts them together again.                                        *)
(*                                                                         *)
(* A datagram starts with a 16-bit image id and a 16-bit packet id.        *)
(* Packet 0 carries the number of bytes of the image; packets 1, 2, ...    *)
(* carry its bytes, MAX_PAYLOAD at a time.  Nothing is acknowledged.  The  *)
(* receiver takes the packets of an image in sequence or not at all.       *)
(*                                                                         *)
(* The bytes of an image are modelled one by one, as <<image, position>>,  *)
(* so that an image put together from the wrong packets shows.  ids are    *)
(* kept modulo IdModulus, 2^16 in the code.                                *)
(***************************************************************************)
EXTENDS Integers, Sequences, FiniteSets

CONSTANTS
  ImageSizes,     \* the images the camera takes: the size of each in bytes
  MaxPayload,     \* MAX_PAYLOAD, 1468
  HeaderPayload,  \* sizeof(size_t), the payload of packet 0
  IdModulus,      \* image and packet ids are kept modulo this
  InOrder,        \* the network delivers in the order of sending
  Duplicates      \* the network may deliver a datagram again

Images == DOMAIN ImageSizes

PieceSize(k, p) ==
  LET remaining == ImageSizes[k] - (p - 1) * MaxPayload
  IN  IF remaining < MaxPayload THEN remaining ELSE MaxPayload

(* Numbers of the packets carrying bytes of image k: none of an empty one, *)
(* which the server sends like any other.                                  *)
Pieces(k) == {p \in 1..ImageSizes[k] : (p - 1) * MaxPayload < ImageSizes[k]}

ASSUME SizesAssumption ==
  /\ ImageSizes \in Seq(Nat)
  /\ MaxPayload \in Nat \ {0}
  /\ HeaderPayload \in 1..MaxPayload
  /\ IdModulus \in Nat \ {0, 1}
  /\ InOrder \in BOOLEAN
  /\ Duplicates \in BOOLEAN

(* Packet 0 is told from the others by its id alone.  In an image of more  *)
(* than 2^16 packets (96 MB) some other packet has id 0 as well; it is not *)
(* taken for a first packet unless its payload is of that very size.       *)
ASSUME FirstPacketAssumption ==
  \A k \in Images : \A p \in Pieces(k) :
    p % IdModulus = 0 => PieceSize(k, p) # HeaderPayload

VARIABLES
  senderPc,        \* transferData: "header", "data" or "ended"
  sending,         \* the image being sent, currentImageId + 1
  sentPackets,     \* number of the last packet sent for it
  sentBytes,       \* transferData's offset
  network,         \* datagrams on their way, or in the client's socket
  damaged,         \* images that lost a datagram
  readerPc,        \* readPreview: "idle" between calls, "receive", "failed"
  currentImageId,  \* currentImageId_
  nextPacketId,    \* readPreview's local variables
  discard,
  offset,
  byteCount,
  data,            \* the vector being filled
  delivered        \* the images readPreview has returned

senderVars == <<senderPc, sending, sentPackets, sentBytes>>
readerVars == <<readerPc, currentImageId, nextPacketId, discard, offset,
                byteCount, data, delivered>>
vars       == <<senderVars, network, damaged, readerVars>>

MinusOneSigned == -1

MinusOne == IdModulus - 1      \* -1 as a uint16_t
Junk == <<0, 0>>               \* a byte that is not of any image

(* The ids on the wire. *)
ImageId(d)  == (d.image - 1) % IdModulus
PacketId(d) == d.packet % IdModulus

Init ==
  /\ senderPc = "header"
  /\ sending = 1
  /\ sentPackets = 0
  /\ sentBytes = 0
  /\ network = {}
  /\ damaged = {}
  /\ readerPc = "idle"
  /\ currentImageId = MinusOne
  /\ nextPacketId = 0
  /\ discard = TRUE
  /\ offset = 0
  /\ byteCount = 0
  /\ data = [i \in 0..-1 |-> Junk]
  /\ delivered = {}

-----------------------------------------------------------------------------
(* The server: CameraController::transferData. *)

SendHeader ==
  /\ senderPc = "header"
  /\ sending \in Images
  /\ network' = network \union {[image |-> sending, packet |-> 0, offset |-> 0,
                                 size |-> HeaderPayload]}
  /\ sentPackets' = 0
  /\ sentBytes' = 0
  /\ senderPc' = "data"
  /\ UNCHANGED <<sending, damaged, readerVars>>

SendPiece ==
  LET remaining == ImageSizes[sending] - sentBytes
      size == IF remaining < MaxPayload THEN remaining ELSE MaxPayload
  IN
  /\ senderPc = "data"
  /\ sentBytes < ImageSizes[sending]
  /\ sentPackets' = sentPackets + 1
  /\ network' = network \union {[image |-> sending, packet |-> sentPackets + 1,
                                 offset |-> sentBytes, size |-> size]}
  /\ sentBytes' = sentBytes + size
  /\ UNCHANGED <<senderPc, sending, damaged, readerVars>>

NextImage ==
  /\ senderPc = "data"
  /\ sentBytes = ImageSizes[sending]
  /\ sending' = sending + 1
  /\ senderPc' = "header"
  /\ UNCHANGED <<sentPackets, sentBytes, network, damaged, readerVars>>

(* send_to fails: the thread throws, in the middle of an image perhaps. *)
SendFails ==
  /\ senderPc # "ended"
  /\ sending \in Images
  /\ senderPc' = "ended"
  /\ UNCHANGED <<sending, sentPackets, sentBytes, network, damaged, readerVars>>

-----------------------------------------------------------------------------
(* The network. *)

Before(d, e) ==
  d.image < e.image \/ (d.image = e.image /\ d.packet < e.packet)

(* A datagram the client may receive next. *)
Arrives(d) == InOrder => \A e \in network : e # d => Before(d, e)

(* A datagram is lost.  In a network that repeats datagrams each of them   *)
(* stays available for ever, and one that is never received is lost.       *)
Lose(d) ==
  /\ ~Duplicates
  /\ network' = network \ {d}
  /\ damaged' = damaged \union {d.image}
  /\ UNCHANGED <<senderVars, readerVars>>

-----------------------------------------------------------------------------
(* The client: ImageLoader::readPreview. *)

Resize(f, n) ==
  [i \in 0..(n - 1) |-> IF i \in DOMAIN f THEN f[i] ELSE Junk]

RoundDown(n) == (n \div MaxPayload) * MaxPayload

RoundUp(n) == ((n + MaxPayload - 1) \div MaxPayload) * MaxPayload

(* receive_from puts the payload at the offset before anything is checked. *)
(* Bytes past the end of the vector, as after the first packet of an empty *)
(* image, are undefined behaviour in C++. They are left out here: they     *)
(* land in the storage the vector keeps when it shrinks, and the vector    *)
(* sets them to zero when it grows again.                                  *)
Written(d) ==
  [i \in DOMAIN data |->
    IF i \in offset..(offset + d.size - 1)
    THEN IF d.packet = 0 THEN Junk ELSE <<d.image, d.offset + (i - offset)>>
    ELSE data[i]]

(* readPreviews calls readPreview with a buffer that holds an old image. *)
Call ==
  /\ readerPc = "idle"
  /\ readerPc' = "receive"
  /\ nextPacketId' = 0
  /\ discard' = TRUE
  /\ offset' = 0
  /\ byteCount' = 0
  /\ data' = [i \in 0..(MaxPayload - 1) |-> Junk]
  /\ UNCHANGED <<senderVars, network, damaged, currentImageId, delivered>>

Receive(d) ==
  /\ readerPc = "receive"
  /\ Arrives(d)
  /\ network' = IF Duplicates THEN network ELSE network \ {d}

(* An image that does not follow the current one is discarded. *)
FirstPacketInSequence(d) ==
  /\ Receive(d)
  /\ PacketId(d) = 0
  /\ d.size = HeaderPayload
  /\ currentImageId' = ImageId(d)
  /\ byteCount' = ImageSizes[d.image]
  /\ offset' = 0
  /\ data' = Resize(Written(d), RoundUp(ImageSizes[d.image]))
  /\ nextPacketId' = 1
  /\ discard' = (ImageId(d) # (currentImageId + 1) % IdModulus)
  /\ UNCHANGED <<senderVars, damaged, readerPc, delivered>>

(* offset is not reset. *)
FirstPacketKeepOffset(d) ==
  /\ Receive(d)
  /\ PacketId(d) = 0
  /\ d.size = HeaderPayload
  /\ currentImageId' = ImageId(d)
  /\ byteCount' = ImageSizes[d.image]
  /\ data' = Resize(Written(d), RoundUp(ImageSizes[d.image]))
  /\ nextPacketId' = 1
  /\ discard' = FALSE
  /\ UNCHANGED <<senderVars, damaged, readerPc, offset, delivered>>

(* The first packet of an image starts it over, whatever came before. *)
FirstPacket(d) ==
  /\ Receive(d)
  /\ PacketId(d) = 0
  /\ d.size = HeaderPayload
  /\ currentImageId' = ImageId(d)
  /\ byteCount' = ImageSizes[d.image]
  /\ offset' = 0
  /\ data' = Resize(Written(d), RoundUp(ImageSizes[d.image]))
  /\ nextPacketId' = 1
  /\ discard' = FALSE
  /\ UNCHANGED <<senderVars, damaged, readerPc, delivered>>

FirstPacketWrongSize(d) ==
  /\ Receive(d)
  /\ PacketId(d) = 0
  /\ d.size # HeaderPayload
  /\ currentImageId' = ImageId(d)
  /\ nextPacketId' = MinusOne
  /\ discard' = TRUE
  /\ offset' = 0
  /\ data' = Written(d)
  /\ UNCHANGED <<senderVars, damaged, readerPc, byteCount, delivered>>

(* The packet id is not compared. *)
ExpectedAnyPacket(d) == ~discard /\ ImageId(d) = currentImageId

Expected(d) ==
  /\ ~discard
  /\ ImageId(d) = currentImageId
  /\ PacketId(d) = nextPacketId

(* Not the next packet of the current image: skip until a first packet. *)
Skip(d) ==
  /\ Receive(d)
  /\ PacketId(d) # 0
  /\ ~Expected(d)
  /\ discard' = TRUE
  /\ currentImageId' = ImageId(d)
  /\ nextPacketId' = MinusOne
  /\ offset' = 0
  /\ data' = Written(d)
  /\ UNCHANGED <<senderVars, damaged, readerPc, byteCount, delivered>>

ExpectedSize ==
  LET remaining == byteCount - offset
  IN  IF remaining < MaxPayload THEN remaining ELSE MaxPayload

WrongSize(d) ==
  /\ Receive(d)
  /\ PacketId(d) # 0
  /\ Expected(d)
  /\ d.size # ExpectedSize
  /\ discard' = TRUE
  /\ nextPacketId' = MinusOne
  /\ data' = Written(d)
  /\ UNCHANGED <<senderVars, damaged, readerPc, currentImageId, offset,
                 byteCount, delivered>>

(* The expected packet: take it; with the last one, return the image. *)
Accept(d) ==
  /\ Receive(d)
  /\ PacketId(d) # 0
  /\ Expected(d)
  /\ d.size = ExpectedSize
  /\ offset' = offset + d.size
  /\ nextPacketId' = (nextPacketId + 1) % IdModulus
  /\ \/ /\ offset' < byteCount
        /\ data' = Written(d)
        /\ UNCHANGED <<readerPc, delivered>>
     \/ /\ offset' = byteCount
        /\ data' = Resize(Written(d), byteCount)
        /\ readerPc' = "idle"
        /\ delivered' = delivered \union {data'}
  /\ UNCHANGED <<senderVars, damaged, currentImageId, discard, byteCount>>

(* receive_from fails: readPreview throws and its thread ends. *)
ReceiveFails ==
  /\ readerPc = "receive"
  /\ readerPc' = "failed"
  /\ UNCHANGED <<senderVars, network, damaged, currentImageId, nextPacketId,
                 discard, offset, byteCount, data, delivered>>

-----------------------------------------------------------------------------
SenderNext == SendHeader \/ SendPiece \/ NextImage \/ SendFails

Process(d) ==
  FirstPacket(d) \/ FirstPacketWrongSize(d) \/ Skip(d) \/ WrongSize(d) \/ Accept(d)

ReaderNext == Call \/ ReceiveFails \/ \E d \in network : Process(d)

Next == SenderNext \/ ReaderNext \/ \E d \in network : Lose(d)

Spec == Init /\ [][Next]_vars

(* What is on its way, and not lost, is received: the network delivers and *)
(* the reader thread runs. The server need not send, nor anything fail.    *)
FairSpec ==
  /\ Spec
  /\ WF_vars(Call)
  /\ WF_vars(\E d \in network : Process(d))

-----------------------------------------------------------------------------
Datagrams == [image : Images, packet : Nat, offset : Nat, size : 1..MaxPayload]

(* The variables keep their types: the ids keep their width, and the       *)
(* offset never passes the end of the image.                               *)
TypeOK ==
  /\ senderPc \in {"header", "data", "ended"}
  /\ sending \in 1..(Len(ImageSizes) + 1)
  /\ sentPackets \in Nat
  /\ sentBytes \in Nat
  /\ network \subseteq Datagrams
  /\ damaged \subseteq Images
  /\ readerPc \in {"idle", "receive", "failed"}
  /\ currentImageId \in 0..(IdModulus - 1)
  /\ nextPacketId \in 0..(IdModulus - 1)
  /\ discard \in BOOLEAN
  /\ offset \in 0..byteCount
  /\ byteCount \in Nat

WholeImage(k) == [i \in 0..(ImageSizes[k] - 1) |-> <<k, i>>]

(* readPreview returns nothing but whole images, each byte in its place:   *)
(* packets of two images are never mixed, and no byte is left from an      *)
(* image that was discarded, however the network loses, delays, reorders   *)
(* or repeats packets.                                                     *)
DeliveredWhole == \A f \in delivered : \E k \in Images : f = WholeImage(k)

(* An image without a byte has this id. *)
EmptyHasId(id) == \E k \in Images : ImageSizes[k] = 0 /\ (k - 1) % IdModulus = id

(* Each receive_from may write MAX_PAYLOAD bytes at the offset; they are   *)
(* inside the vector, also for the last, short packet of an image and for  *)
(* the packets that are discarded (ImageLoader.cpp:130). This fails after  *)
(* the first packet of an empty image, and only there: the vector is then  *)
(* resized to no byte at all, and stays so until an image with bytes       *)
(* begins, whatever is received in between.                                *)
ReceiveFits ==
  readerPc = "receive" =>
    \/ (offset + MaxPayload - 1) \in DOMAIN data
    \/ /\ DOMAIN data = {} /\ byteCount = 0 /\ offset = 0
       /\ \E k \in Images : ImageSizes[k] = 0

(* assert(byteCount > offset), ImageLoader.cpp:149, for every packet that  *)
(* can arrive, unless the ids have wrapped around and it is taken for one  *)
(* of an empty image.                                                      *)
RemainingIsPositive ==
  readerPc = "receive" =>
    \A d \in network : PacketId(d) # 0 /\ Expected(d) =>
      byteCount > offset \/ (byteCount = 0 /\ EmptyHasId(ImageId(d)))

(* The image that was returned, and 0 for bytes that are of no one image. *)
ImageOf(f) ==
  IF \E k \in Images : f = WholeImage(k)
  THEN CHOOSE k \in Images : f = WholeImage(k) ELSE 0

(* An image with more packets than there are ids is discarded at the first *)
(* one whose id is 0 again; an empty one is never done, as no packet of it *)
(* follows the first.                                                      *)
Spoilt ==
  {k \in Images : ImageSizes[k] = 0 \/ \E p \in Pieces(k) : p >= IdModulus}

Channel == INSTANCE PreviewChannel WITH
  Last     <- Len(ImageSizes),
  Spoilt   <- Spoilt,
  current  <- sending,
  damaged  <- damaged \cup Spoilt,
  returned <- {ImageOf(f) : f \in delivered}

(* transferData and readPreview implement the channel of whole images, over *)
(* a network that loses datagrams and keeps their order: losing packets    *)
(* costs the images they belong to and no other (ImageLoader.cpp:52-57),   *)
(* and images are returned in the order they were taken, each once. This   *)
(* is so as long as the ids of images do not wrap around; for two images   *)
(* that share one, see LostIsDiscarded.                                    *)
ImplementsChannel == Channel!Spec

(* "When packets are lost, the whole image is discarded"                   *)
(* (ImageLoader.cpp:53): no byte that is returned is of an image that lost *)
(* a packet. It fails when the packets lost are of 2^16 images in a row,   *)
(* or of as many as there are ids: the rest of an image then completes the *)
(* one that had its id before.                                             *)
LostIsDiscarded ==
  \A f \in delivered : \A i \in DOMAIN f : f[i][1] \notin damaged

(* readPreview waits for nothing but datagrams: each image that was sent   *)
(* is returned, unless it lost one or the thread has ended. A packet that  *)
(* is not expected, or the end of an image, never leaves it stuck.         *)
SentArrives ==
  \A k \in Images :
    k < sending ~> \/ WholeImage(k) \in delivered
                   \/ k \in damaged \cup Spoilt
                   \/ readerPc = "failed"

=============================================================================

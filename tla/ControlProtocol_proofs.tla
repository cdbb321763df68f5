----------------------- MODULE ControlProtocol_proofs -----------------------
(***************************************************************************)
(* Proofs about ControlProtocol: for every set of connections, whatever    *)
(* they send, whatever the size of the buffer and the cameras attached, the*)
(* server executes no command put together from another connection's       *)
(* bytes, and no query returns while its completion handler may still run. *)
(*                                                                         *)
(* The argument: a connection is accepted at most once (AcceptedOnce), so  *)
(* nothing of it was read when the server reads its command; the command is*)
(* then in front of the buffer (CommandInFront) and what is read over it   *)
(* comes from the same connection.                                         *)
(***************************************************************************)
EXTENDS ControlProtocol, SequenceTheorems, TLAPS

Busy == pc \in {"read", "available", "dispatch"}

(* A connection is in the backlog at most once, and before that, while it  *)
(* is there, and until its command is read, none of its bytes was read.    *)
AcceptedOnce ==
  /\ \A q \in Queries :
       query[q] = "idle" => consumed[q] = 0 /\ \A i \in DOMAIN backlog : backlog[i] # q
  /\ \A i \in DOMAIN backlog :
       /\ consumed[backlog[i]] = 0
       /\ \A j \in DOMAIN backlog : backlog[i] = backlog[j] => i = j
  /\ Busy =>
       /\ serving \in Queries
       /\ query[serving] # "idle"
       /\ \A i \in DOMAIN backlog : backlog[i] # serving
  /\ pc = "read" => consumed[serving] = 0

(* The command read is the beginning of what the client sent. *)
CommandInFront ==
  pc = "available" =>
    /\ consumed[serving] = CommandSize
    /\ \A i \in 1..CommandSize : buffer[i] = request[serving][i]

(* Only a query that waits for its read has one. *)
PendingWaits ==
  \A q \in Queries : pending[q] => query[q] \in {"waiting", "closing"}

IInv == TypeOK /\ AcceptedOnce /\ CommandInFront /\ CommandIsOwn /\ PendingWaits

-----------------------------------------------------------------------------
(* The bytes of a connection. *)

LEMMA UnreadBytes ==
  ASSUME TypeOK, NEW q \in Queries
  PROVE  /\ request[q] \in Seq(Nat)
         /\ arrived[q] \in Nat /\ consumed[q] \in Nat
         /\ consumed[q] <= arrived[q] /\ arrived[q] <= Len(request[q])
         /\ Unread(q) \in Seq(Nat)
         /\ Len(Unread(q)) = arrived[q] - consumed[q]
         /\ \A i \in 1..Len(Unread(q)) : Unread(q)[i] = request[q][consumed[q] + i]
<1>1. /\ request[q] \in Seq(Nat) /\ Len(request[q]) \in Nat
      /\ written[q] \in Nat /\ arrived[q] \in Nat /\ consumed[q] \in Nat
      /\ written[q] <= Len(request[q])
      /\ arrived[q] <= written[q] /\ consumed[q] <= arrived[q]
  BY DEF TypeOK
<1> DEFINE s == request[q]
           m == consumed[q] + 1
           n == arrived[q]
<1>2. m \in Int /\ n \in Int /\ \A i \in m..n : s[i] \in Nat
  BY <1>1
<1>3. Unread(q) = SubSeq(s, m, n)
  BY DEF Unread
<1>4. /\ m <= n + 1
      /\ n - m + 1 = arrived[q] - consumed[q]
      /\ \A i \in Nat : m + i - 1 = consumed[q] + i
  BY <1>1
<1> HIDE DEF s, m, n
<1>5. /\ Unread(q) \in Seq(Nat)
      /\ Len(Unread(q)) = n - m + 1
      /\ \A i \in 1..(n - m + 1) : Unread(q)[i] = s[m + i - 1]
  BY <1>2, <1>3, <1>4, SubSeqProperties
<1>6. /\ Len(Unread(q)) = arrived[q] - consumed[q]
      /\ \A i \in 1..Len(Unread(q)) : Unread(q)[i] = request[q][consumed[q] + i]
  BY <1>4, <1>5 DEF s
<1>7. arrived[q] <= Len(request[q])
  BY <1>1
<1> QED
  BY <1>1, <1>5, <1>6, <1>7

LEMMA FillBuffer ==
  ASSUME TypeOK, NEW bytes \in Seq(Nat)
  PROVE  /\ Fill(bytes) \in [1..BufferSize -> Nat]
         /\ \A i \in 1..BufferSize :
              Fill(bytes)[i] = IF i <= Len(bytes) THEN bytes[i] ELSE buffer[i]
  BY BufferAssumption DEF TypeOK, Fill

LEMMA MemoryBytes ==
  ASSUME TypeOK, NEW n \in Nat
  PROVE  /\ Memory(1, n) \in Seq(Nat)
         /\ Len(Memory(1, n)) = n
         /\ \A i \in 1..n : i <= BufferSize => Memory(1, n)[i] = buffer[i]
<1>1. \A i \in 1..n :
        1 + i - 1 = i /\ (IF i <= BufferSize THEN buffer[i] ELSE Junk) \in Nat
  BY BufferAssumption DEF TypeOK, Junk
<1>2. Memory(1, n) = [i \in 1..n |-> IF i <= BufferSize THEN buffer[i] ELSE Junk]
  BY <1>1 DEF Memory
<1> QED
  BY <1>1, <1>2

LEMMA CommandBytes ==
  ASSUME TypeOK
  PROVE  /\ Command \in Seq(Nat)
         /\ Len(Command) = CommandSize
         /\ \A i \in 1..CommandSize : Command[i] = buffer[i]
<1>1. CommandSize \in Nat /\ \A i \in 1..CommandSize : i <= BufferSize
  BY BufferAssumption DEF CommandSize
<1> QED
  BY <1>1, MemoryBytes DEF Command

(* What the server answers is a text. *)
LEMMA AnswersAreTexts ==
  /\ Success \in Texts
  /\ Failure \in Texts
  /\ NotSupported \in Texts
  /\ \A n \in 0..Len(Attached) : ListText(SubSeq(Attached, 1, n)) \in Texts
  /\ \A n \in 1..Len(Attached) :
       [i \in 1..n |-> << <<i - 1>>, <<Junk>>, <<Junk>> >>] \in Texts
  /\ TypeOK => << <<Memory(1, CommandSize + available)>> >> \in Texts
<1> DEFINE Field == Seq(Nat)
           Line  == Seq(Seq(Nat))
<1>1. Len(Attached) \in Nat
  BY AttachedAssumption
<1>2. Success \in Texts /\ Failure \in Texts /\ NotSupported \in Texts
  BY DEF Success, Failure, NotSupported, Junk, Texts
<1>3. ASSUME NEW n \in 0..Len(Attached)
      PROVE  ListText(SubSeq(Attached, 1, n)) \in Texts
  <2> DEFINE cameras == SubSeq(Attached, 1, n)
  <2>1. cameras \in Seq(Seq(Nat) \X Seq(Nat)) /\ Len(cameras) = n /\ n \in Nat
    BY <1>1, AttachedAssumption
  <2> HIDE DEF cameras
  <2>2. \A i \in 1..n : cameras[i] \in Seq(Nat) \X Seq(Nat)
    BY <2>1
  <2>3. \A i \in 1..n : << <<i - 1>>, cameras[i][1], cameras[i][2]>> \in Line
    BY <2>1, <2>2
  <2>4. ListText(cameras) \in Seq(Line)
    BY <2>1, <2>3 DEF ListText
  <2> QED
    BY <2>4 DEF cameras, Texts
<1>4. ASSUME NEW n \in 1..Len(Attached)
      PROVE  [i \in 1..n |-> << <<i - 1>>, <<Junk>>, <<Junk>> >>] \in Texts
  <2>1. n \in Nat /\ \A i \in 1..n : << <<i - 1>>, <<Junk>>, <<Junk>> >> \in Line
    BY <1>1 DEF Junk
  <2> QED
    BY <2>1 DEF Texts
<1>5. ASSUME TypeOK PROVE << <<Memory(1, CommandSize + available)>> >> \in Texts
  <2>1. CommandSize + available \in Nat
    BY <1>5, BufferAssumption DEF TypeOK, CommandSize
  <2>2. Memory(1, CommandSize + available) \in Field
    BY <1>5, <2>1, MemoryBytes
  <2> QED
    BY <2>2 DEF Texts
<1> QED
  BY <1>2, <1>3, <1>4, <1>5

-----------------------------------------------------------------------------
(* The steps of the server. *)

LEMMA AcceptStep == IInv /\ Accept => IInv'
<1> SUFFICES ASSUME IInv, Accept PROVE IInv'
  OBVIOUS
<1>1. /\ backlog \in Seq(Queries) /\ backlog # <<>>
      /\ DOMAIN backlog = 1..Len(backlog) /\ Len(backlog) \in Nat \ {0}
  BY DEF IInv, TypeOK, Accept
<1>2. /\ serving' \in Queries /\ serving' = backlog[1]
      /\ backlog' \in Seq(Queries)
      /\ Len(backlog') = Len(backlog) - 1
      /\ DOMAIN backlog' = 1..Len(backlog')
      /\ \A i \in DOMAIN backlog' :
           i + 1 \in DOMAIN backlog /\ backlog'[i] = backlog[i + 1]
  BY <1>1, HeadTailProperties DEF Accept
<1>3. TypeOK'
  BY <1>2 DEF IInv, TypeOK, Accept, requestVars, replyVars, clientVars, cameraVars
<1>4. AcceptedOnce'
  <2>1. 1 \in DOMAIN backlog /\ \A i \in DOMAIN backlog' : i + 1 # 1 /\ i \in Nat
    BY <1>1, <1>2
  <2> QED
    BY <1>1, <1>2, <2>1
    DEF IInv, AcceptedOnce, Busy, Accept, requestVars, clientVars
<1>5. CommandInFront' /\ CommandIsOwn' /\ PendingWaits'
  BY DEF IInv, CommandInFront, CommandIsOwn, PendingWaits, Accept, clientVars
<1> QED
  BY <1>3, <1>4, <1>5 DEF IInv

(* Reading changes the buffer and how much of one connection was read. *)
LEMMA ReadingKeepsTypes ==
  ASSUME TypeOK, serving \in Queries,
         NEW n \in Nat, n <= arrived[serving],
         consumed' = [consumed EXCEPT ![serving] = n],
         buffer' \in [1..BufferSize -> Nat],
         available' \in 0..BufferSize,
         pc' \in {"accept", "read", "available", "dispatch", "dead"},
         closed' \in [Queries -> BOOLEAN],
         UNCHANGED <<backlog, serving, request, written, arrived, reply,
                     clientVars, cameraVars>>
  PROVE  TypeOK'
<1>1. consumed' \in [Queries -> Nat]
  BY DEF TypeOK
<1>2. \A q \in Queries : consumed'[q] = IF q = serving THEN n ELSE consumed[q]
  BY DEF TypeOK
<1>3. arrived[serving] \in Nat
  BY DEF TypeOK
<1>4. \A q \in Queries : consumed'[q] \in 0..arrived'[q]
  BY <1>2, <1>3 DEF TypeOK
<1> QED
  BY <1>1, <1>4 DEF TypeOK, clientVars, cameraVars

(* It is done, or the connection closed, for an accepted connection. *)
LEMMA ServingKeepsOrder ==
  ASSUME TypeOK, AcceptedOnce, Busy,
         pc' \in {"accept", "available", "dispatch", "dead"},
         \A q \in Queries : q # serving => consumed'[q] = consumed[q],
         UNCHANGED <<backlog, serving, query>>
  PROVE  AcceptedOnce'
<1>1. \A i \in DOMAIN backlog : backlog[i] \in Queries /\ backlog[i] # serving
  BY DEF TypeOK, AcceptedOnce
<1>2. \A q \in Queries : query[q] = "idle" => q # serving
  BY DEF AcceptedOnce
<1>3. ~(pc' = "read")
  OBVIOUS
<1> QED
  BY <1>1, <1>2, <1>3 DEF AcceptedOnce

LEMMA ReadCommandStep == IInv /\ ReadCommand => IInv'
<1> SUFFICES ASSUME IInv, ReadCommand PROVE IInv'
  OBVIOUS
<1> DEFINE bytes == SubSeq(Unread(serving), 1, CommandSize)
<1>1. serving \in Queries /\ consumed[serving] = 0 /\ Busy
  BY DEF IInv, AcceptedOnce, Busy, ReadCommand
<1>2. /\ Unread(serving) \in Seq(Nat)
      /\ Len(Unread(serving)) = arrived[serving]
      /\ arrived[serving] \in Nat
      /\ arrived[serving] >= CommandSize
      /\ \A i \in 1..Len(Unread(serving)) :
           Unread(serving)[i] = request[serving][i]
  <2>1. /\ arrived[serving] \in Nat
        /\ Len(Unread(serving)) = arrived[serving] - 0
        /\ \A i \in 1..Len(Unread(serving)) :
             Unread(serving)[i] = request[serving][0 + i]
        /\ Unread(serving) \in Seq(Nat)
    BY <1>1, UnreadBytes DEF IInv
  <2> QED
    BY <2>1 DEF ReadCommand
<1>3. /\ bytes \in Seq(Nat)
      /\ Len(bytes) = CommandSize
      /\ \A i \in 1..CommandSize : bytes[i] = request[serving][i]
  BY <1>2, SubSeqProperties DEF CommandSize
<1>4. /\ buffer' \in [1..BufferSize -> Nat]
      /\ \A i \in 1..CommandSize : buffer'[i] = request[serving][i]
  <2>1. /\ buffer' = Fill(bytes)
        /\ \A i \in 1..CommandSize : i \in 1..BufferSize /\ i <= CommandSize
    BY BufferAssumption DEF ReadCommand, CommandSize
  <2> HIDE DEF bytes
  <2> QED
    BY <1>3, <2>1, FillBuffer DEF IInv
<1>5. \A q \in Queries :
        consumed'[q] = IF q = serving THEN CommandSize ELSE consumed[q]
  BY <1>1 DEF ReadCommand, IInv, TypeOK
<1>6. TypeOK'
  <2>1. CommandSize \in Nat /\ CommandSize <= arrived[serving]
    BY <1>2 DEF CommandSize
  <2> QED
    BY <1>1, <1>4, <2>1, ReadingKeepsTypes
    DEF IInv, TypeOK, ReadCommand, replyVars
<1>7. AcceptedOnce'
  BY <1>1, <1>5, ServingKeepsOrder DEF IInv, ReadCommand, clientVars
<1>8. CommandInFront' /\ CommandIsOwn' /\ PendingWaits'
  BY <1>1, <1>4, <1>5
  DEF IInv, CommandInFront, CommandIsOwn, PendingWaits, ReadCommand, clientVars
<1> QED
  BY <1>6, <1>7, <1>8 DEF IInv

LEMMA ReadShortStep == IInv /\ ReadShort => IInv'
<1> SUFFICES ASSUME IInv, ReadShort PROVE IInv'
  OBVIOUS
<1>1. serving \in Queries /\ Busy /\ pc' = "accept"
  BY DEF IInv, AcceptedOnce, Busy, ReadShort, Hangup
<1>2. /\ arrived[serving] \in Nat /\ arrived[serving] <= arrived[serving]
      /\ Fill(Unread(serving)) \in [1..BufferSize -> Nat]
  BY <1>1, UnreadBytes, FillBuffer DEF IInv
<1>3. \A q \in Queries : q # serving => consumed'[q] = consumed[q]
  BY <1>1 DEF ReadShort, IInv, TypeOK
<1>4. TypeOK'
  <2>1. closed' \in [Queries -> BOOLEAN]
    BY DEF ReadShort, Hangup, IInv, TypeOK
  <2> QED
    BY <1>1, <1>2, <2>1, ReadingKeepsTypes DEF IInv, TypeOK, ReadShort
<1>5. AcceptedOnce'
  BY <1>1, <1>3, ServingKeepsOrder DEF IInv, ReadShort, clientVars
<1>6. CommandInFront' /\ CommandIsOwn' /\ PendingWaits'
  BY <1>1
  DEF IInv, CommandInFront, CommandIsOwn, PendingWaits, ReadShort, clientVars
<1> QED
  BY <1>4, <1>5, <1>6 DEF IInv

LEMMA ReadTooMuchStep == IInv /\ ReadTooMuch => IInv'
<1> SUFFICES ASSUME IInv, ReadTooMuch PROVE IInv'
  OBVIOUS
<1>1. serving \in Queries /\ Busy /\ pc' = "accept"
  BY DEF IInv, AcceptedOnce, Busy, ReadTooMuch, Hangup
<1>2. /\ Unread(serving) \in Seq(Nat)
      /\ Len(Unread(serving)) = arrived[serving] - consumed[serving]
      /\ arrived[serving] \in Nat /\ consumed[serving] \in Nat
      /\ Len(Unread(serving)) > BufferSize
  BY <1>1, UnreadBytes DEF IInv, ReadTooMuch
<1>3. /\ consumed[serving] + BufferSize \in Nat
      /\ consumed[serving] + BufferSize <= arrived[serving]
  BY <1>2, BufferAssumption
<1>4. Fill(SubSeq(Unread(serving), 1, BufferSize)) \in [1..BufferSize -> Nat]
  <2>1. SubSeq(Unread(serving), 1, BufferSize) \in Seq(Nat)
    BY <1>2, BufferAssumption
  <2> QED
    BY <2>1, FillBuffer DEF IInv
<1>5. \A q \in Queries : q # serving => consumed'[q] = consumed[q]
  BY <1>1 DEF ReadTooMuch, IInv, TypeOK
<1>6. TypeOK'
  <2>1. closed' \in [Queries -> BOOLEAN]
    BY DEF ReadTooMuch, Hangup, IInv, TypeOK
  <2> QED
    BY <1>1, <1>3, <1>4, <2>1, ReadingKeepsTypes DEF IInv, TypeOK, ReadTooMuch
<1>7. AcceptedOnce'
  BY <1>1, <1>5, ServingKeepsOrder DEF IInv, ReadTooMuch, clientVars
<1>8. CommandInFront' /\ CommandIsOwn' /\ PendingWaits'
  BY <1>1
  DEF IInv, CommandInFront, CommandIsOwn, PendingWaits, ReadTooMuch, clientVars
<1> QED
  BY <1>6, <1>7, <1>8 DEF IInv

(* What is read over the command follows it in the same request. *)
LEMMA ReadMoreStep == IInv /\ ReadMore => IInv'
<1> SUFFICES ASSUME IInv, ReadMore PROVE IInv'
  OBVIOUS
<1> DEFINE read == SubSeq(request[serving], 1, arrived[serving])
<1>1. /\ serving \in Queries /\ Busy /\ pc' = "dispatch"
      /\ consumed[serving] = CommandSize
  BY DEF IInv, AcceptedOnce, CommandInFront, Busy, ReadMore
<1>2. /\ request[serving] \in Seq(Nat)
      /\ Unread(serving) \in Seq(Nat)
      /\ Len(Unread(serving)) = arrived[serving] - CommandSize
      /\ arrived[serving] \in Nat
      /\ CommandSize <= arrived[serving]
      /\ arrived[serving] <= Len(request[serving])
      /\ \A i \in 1..Len(Unread(serving)) :
           Unread(serving)[i] = request[serving][CommandSize + i]
  BY <1>1, UnreadBytes DEF IInv
<1>3. \A q \in Queries :
        consumed'[q] = IF q = serving THEN arrived[serving] ELSE consumed[q]
  BY <1>1 DEF ReadMore, IInv, TypeOK
<1>4. /\ buffer' \in [1..BufferSize -> Nat]
      /\ \A i \in 1..BufferSize :
           buffer'[i] = IF i <= Len(Unread(serving)) THEN Unread(serving)[i]
                        ELSE buffer[i]
  BY <1>2, FillBuffer DEF IInv, ReadMore
<1>5. /\ available' \in 0..BufferSize
      /\ available' = Len(Unread(serving))
  BY <1>2 DEF ReadMore
<1>6. TypeOK'
  <2>1. arrived[serving] <= arrived[serving]
    BY <1>2
  <2>2. pc' \in {"dispatch"} /\ closed' \in [Queries -> BOOLEAN]
    BY <1>1 DEF IInv, TypeOK, ReadMore, replyVars
  <2> QED
    BY <1>1, <1>2, <1>4, <1>5, <2>1, <2>2, ReadingKeepsTypes
    DEF IInv, ReadMore, replyVars
<1>7. AcceptedOnce'
  BY <1>1, <1>3, ServingKeepsOrder DEF IInv, ReadMore, clientVars
<1>8. CommandIsOwn'
  <2>1. /\ read \in Seq(Nat)
        /\ Len(read) = arrived[serving]
        /\ \A i \in 1..arrived[serving] : read[i] = request[serving][i]
    BY <1>2
  <2>2. SubSeq(request'[serving'], 1, consumed'[serving']) = read
    BY <1>1, <1>3 DEF ReadMore
  <2>3. /\ Command' \in Seq(Nat)
        /\ Len(Command') = CommandSize
        /\ \A i \in 1..CommandSize : Command'[i] = buffer'[i]
    <3>1. \A i \in 1..CommandSize :
            /\ i <= BufferSize /\ i \in 1..BufferSize
            /\ 1 + i - 1 = i /\ buffer'[i] \in Nat
      BY <1>4, BufferAssumption DEF CommandSize
    <3>2. Command' = [i \in 1..CommandSize |->
                        IF 1 + i - 1 <= BufferSize THEN buffer'[1 + i - 1]
                        ELSE Junk]
      BY DEF Command, Memory
    <3>3. Command' = [i \in 1..CommandSize |-> buffer'[i]]
      BY <3>1, <3>2
    <3> QED
      BY <3>1, <3>3 DEF CommandSize
  <2>4. \A i \in 1..CommandSize :
          Command'[i] = IF i <= Len(Unread(serving)) THEN read[CommandSize + i]
                        ELSE read[i]
    <3> SUFFICES ASSUME NEW i \in 1..CommandSize
                 PROVE  Command'[i] = IF i <= Len(Unread(serving))
                                      THEN read[CommandSize + i] ELSE read[i]
      OBVIOUS
    <3>1. i \in 1..BufferSize /\ i \in 1..arrived[serving]
      BY <1>2, BufferAssumption DEF CommandSize
    <3>2. buffer[i] = request[serving][i]
      BY DEF IInv, CommandInFront, ReadMore
    <3>3. CASE i <= Len(Unread(serving))
      <4>1. i \in 1..Len(Unread(serving)) /\ CommandSize + i \in 1..arrived[serving]
        BY <1>2, <3>3 DEF CommandSize
      <4> HIDE DEF read
      <4> QED
        BY <1>2, <1>4, <2>1, <2>3, <3>1, <3>3, <4>1
    <3>4. CASE ~(i <= Len(Unread(serving)))
      <4> HIDE DEF read
      <4> QED
        BY <1>4, <2>1, <2>3, <3>1, <3>2, <3>4
    <3> QED
      BY <3>3, <3>4
  <2> HIDE DEF read
  <2>5. Len(read) >= CommandSize
    BY <1>2, <2>1
  <2>6. \A i \in 1..CommandSize : \E j \in DOMAIN read : Command'[i] = read[j]
    <3> SUFFICES ASSUME NEW i \in 1..CommandSize
                 PROVE  \E j \in DOMAIN read : Command'[i] = read[j]
      OBVIOUS
    <3>1. CASE i <= Len(Unread(serving))
      <4>1. CommandSize + i \in DOMAIN read
        BY <1>2, <2>1, <3>1 DEF CommandSize
      <4> QED
        BY <2>4, <3>1, <4>1
    <3>2. CASE ~(i <= Len(Unread(serving)))
      <4>1. i \in DOMAIN read
        BY <1>2, <2>1 DEF CommandSize
      <4> QED
        BY <2>4, <3>2, <4>1
    <3> QED
      BY <3>1, <3>2
  <2>7. available' = 0 => Command' = SubSeq(read, 1, CommandSize)
    <3> SUFFICES ASSUME available' = 0
                 PROVE  Command' = SubSeq(read, 1, CommandSize)
      OBVIOUS
    <3>1. \A i \in 1..CommandSize : Command'[i] = read[i]
      BY <1>5, <2>4 DEF CommandSize
    <3>2. /\ SubSeq(read, 1, CommandSize) \in Seq(Nat)
          /\ Len(SubSeq(read, 1, CommandSize)) = CommandSize
          /\ \A i \in 1..CommandSize : SubSeq(read, 1, CommandSize)[i] = read[i]
      BY <1>2, <2>1 DEF CommandSize
    <3> QED
      BY <2>3, <3>1, <3>2, SeqEqual
  <2> QED
    BY <2>2, <2>5, <2>6, <2>7 DEF CommandIsOwn
<1>9. CommandInFront' /\ PendingWaits'
  BY <1>1 DEF IInv, CommandInFront, PendingWaits, ReadMore, clientVars
<1> QED
  BY <1>6, <1>7, <1>8, <1>9 DEF IInv

LEMMA RespondStep ==
  ASSUME IInv, NEW text \in Texts, Respond(text),
         abilitiesList' \in Lists, portInfoList' \in Lists
  PROVE  IInv'
<1>1. serving \in Queries /\ Busy /\ pc' = "accept"
  BY DEF IInv, AcceptedOnce, Busy, Respond, Hangup
<1>2. TypeOK'
  BY <1>1 DEF IInv, TypeOK, Respond, Hangup, requestVars, clientVars
<1>3. AcceptedOnce'
  BY <1>1, ServingKeepsOrder DEF IInv, Respond, requestVars, clientVars
<1>4. CommandInFront' /\ CommandIsOwn' /\ PendingWaits'
  BY <1>1 DEF IInv, CommandInFront, CommandIsOwn, PendingWaits, Respond, clientVars
<1> QED
  BY <1>2, <1>3, <1>4 DEF IInv

(* The cached lists of libgphoto2 keep their type. *)
LEMMA CameraStep ==
  ASSUME abilitiesList \in Lists, portInfoList \in Lists,
         NEW m, NEW p,
         SelectCamera(m, p) \/ SelectCameraThrows(m) \/ UNCHANGED cameraVars
  PROVE  abilitiesList' \in Lists /\ portInfoList' \in Lists
BY DEF SelectCamera, SelectCameraThrows, SetAbilities, SetAbilitiesThrows,
       SetPortInfo, SetPortInfoThrows, AfterUse, Returned, Lists, cameraVars

LEMMA DispatchStep ==
  IInv /\ (EchoOnly \/ ListCameras \/ Select \/ SelectFails
           \/ SelectWithoutPort \/ Unsupported) => IInv'
<1> SUFFICES ASSUME IInv,
                    EchoOnly \/ ListCameras \/ Select \/ SelectFails
                    \/ SelectWithoutPort \/ Unsupported
             PROVE  IInv'
  OBVIOUS
<1>1. abilitiesList' \in Lists /\ portInfoList' \in Lists
  <2>1. \/ SelectCamera(Model, Port)
        \/ SelectCameraThrows(Model)
        \/ UNCHANGED cameraVars
    BY DEF EchoOnly, ListCameras, Select, SelectFails, SelectWithoutPort, Unsupported
  <2> QED
    BY <2>1, CameraStep DEF IInv, TypeOK
<1>2. \E text \in Texts : Respond(text)
  <2>1. CASE EchoOnly
    BY <2>1, AnswersAreTexts DEF EchoOnly, IInv
  <2>2. CASE ListCameras
    BY <2>2, AnswersAreTexts DEF ListCameras
  <2>3. CASE Select \/ SelectFails \/ SelectWithoutPort \/ Unsupported
    BY <2>3, AnswersAreTexts DEF Select, SelectFails, SelectWithoutPort, Unsupported
  <2> QED
    BY <2>1, <2>2, <2>3
<1> QED
  BY <1>1, <1>2, RespondStep

LEMMA ListCrashesStep == IInv /\ ListCrashes => IInv'
<1> SUFFICES ASSUME IInv, ListCrashes PROVE IInv'
  OBVIOUS
<1>1. Busy /\ pc' = "dead"
  BY DEF Busy, ListCrashes
<1>2. TypeOK'
  BY <1>1
  DEF IInv, TypeOK, ListCrashes, requestVars, replyVars, clientVars, cameraVars
<1>3. AcceptedOnce'
  BY <1>1, ServingKeepsOrder DEF IInv, ListCrashes, requestVars, clientVars
<1>4. CommandInFront' /\ CommandIsOwn' /\ PendingWaits'
  BY <1>1
  DEF IInv, CommandInFront, CommandIsOwn, PendingWaits, ListCrashes, clientVars
<1> QED
  BY <1>2, <1>3, <1>4 DEF IInv

-----------------------------------------------------------------------------
(* The steps of the network and of the clients: no byte the server has read*)
(* changes, and a command that was read stays the client's.                *)

LEMMA ServerUndisturbed ==
  ASSUME CommandInFront, CommandIsOwn,
         UNCHANGED <<pc, serving, buffer, available, request, consumed>>
  PROVE  CommandInFront' /\ CommandIsOwn'
BY DEF CommandInFront, CommandIsOwn, Command, Memory

LEMMA DeliverStep == \A q \in Queries : IInv /\ Deliver(q) => IInv'
<1> SUFFICES ASSUME NEW q \in Queries, IInv, Deliver(q) PROVE IInv'
  OBVIOUS
<1>1. /\ arrived' \in [Queries -> Nat]
      /\ arrived'[q] = arrived[q] + 1
      /\ \A r \in Queries : r # q => arrived'[r] = arrived[r]
      /\ \A r \in Queries : arrived[r] \in Nat /\ written[r] \in Nat
  BY DEF Deliver, IInv, TypeOK
<1>2. \A r \in Queries : arrived'[r] \in 0..written[r] /\ consumed[r] \in 0..arrived'[r]
  BY <1>1 DEF Deliver, IInv, TypeOK
<1>3. TypeOK'
  BY <1>1, <1>2
  DEF IInv, TypeOK, Deliver, serverVars, replyVars, clientVars, cameraVars
<1>4. AcceptedOnce' /\ PendingWaits'
  BY DEF IInv, AcceptedOnce, PendingWaits, Busy, Deliver, serverVars, clientVars
<1>5. CommandInFront' /\ CommandIsOwn'
  BY ServerUndisturbed DEF IInv, Deliver, serverVars
<1> QED
  BY <1>3, <1>4, <1>5 DEF IInv

LEMMA ConnectStep == \A q \in Queries : IInv /\ Connect(q) => IInv'
<1> SUFFICES ASSUME NEW q \in Queries, IInv, Connect(q) PROVE IInv'
  OBVIOUS
<1>1. /\ Len(backlog) \in Nat
      /\ DOMAIN backlog = 1..Len(backlog)
      /\ backlog' \in Seq(Queries)
      /\ DOMAIN backlog' = 1..(Len(backlog) + 1)
      /\ \A i \in DOMAIN backlog : backlog'[i] = backlog[i]
      /\ backlog'[Len(backlog) + 1] = q
  <2>1. backlog \in Seq(Queries) /\ backlog' = Append(backlog, q)
    BY DEF IInv, TypeOK, Connect
  <2> QED
    BY <2>1, AppendProperties
<1>2. /\ consumed[q] = 0
      /\ \A i \in DOMAIN backlog : backlog[i] # q
      /\ Busy => serving # q
  BY DEF IInv, AcceptedOnce, Connect
<1>3. TypeOK'
  BY <1>1 DEF IInv, TypeOK, Connect, requestVars, replyVars, cameraVars
<1>4. AcceptedOnce'
  <2>1. \A i \in DOMAIN backlog' : i \in DOMAIN backlog \/ backlog'[i] = q
    BY <1>1
  <2>2. \A i \in DOMAIN backlog' :
          backlog'[i] = q => i = Len(backlog) + 1
    BY <1>1, <1>2
  <2>3. /\ query'[q] = "connected"
        /\ \A r \in Queries : r # q => query'[r] = query[r]
    BY DEF IInv, TypeOK, Connect
  <2>4. \A r \in Queries :
          query'[r] = "idle" =>
            consumed'[r] = 0 /\ \A i \in DOMAIN backlog' : backlog'[i] # r
    BY <1>1, <2>1, <2>3 DEF IInv, AcceptedOnce, Connect, requestVars
  <2>5. \A i \in DOMAIN backlog' :
          /\ consumed'[backlog'[i]] = 0
          /\ \A j \in DOMAIN backlog' : backlog'[i] = backlog'[j] => i = j
    BY <1>1, <1>2, <2>1, <2>2 DEF IInv, AcceptedOnce, Connect, requestVars
  <2>6. Busy' =>
          /\ serving' \in Queries
          /\ query'[serving'] # "idle"
          /\ \A i \in DOMAIN backlog' : backlog'[i] # serving'
    BY <1>1, <1>2, <2>1, <2>3 DEF IInv, AcceptedOnce, Connect, Busy
  <2> QED
    BY <2>4, <2>5, <2>6 DEF IInv, AcceptedOnce, Connect, requestVars
<1>5. CommandInFront' /\ CommandIsOwn'
  BY ServerUndisturbed DEF IInv, Connect, requestVars
<1>6. PendingWaits'
  BY DEF IInv, TypeOK, PendingWaits, Connect
<1> QED
  BY <1>3, <1>4, <1>5, <1>6 DEF IInv

(* A query returns, with an answer or without. *)
LEMMA ReturnStep ==
  ASSUME IInv, NEW q \in Queries, NEW text \in Texts, Return(q, text),
         UNCHANGED <<serverVars, requestVars, replyVars, cameraVars>>
  PROVE  IInv'
<1>1. /\ query' = [query EXCEPT ![q] = "returned"]
      /\ pending' = [pending EXCEPT ![q] = FALSE]
      /\ result' = [result EXCEPT ![q] = text]
  BY DEF Return
<1>2. TypeOK'
  BY <1>1 DEF IInv, TypeOK, serverVars, requestVars, replyVars, cameraVars
<1>3. AcceptedOnce'
  <2>1. \A r \in Queries : query'[r] = "idle" => query[r] = "idle"
    BY <1>1 DEF IInv, TypeOK
  <2> QED
    BY <2>1 DEF IInv, AcceptedOnce, Busy, serverVars, requestVars
<1>4. CommandInFront' /\ CommandIsOwn'
  BY ServerUndisturbed DEF IInv, serverVars, requestVars
<1>5. PendingWaits'
  BY <1>1 DEF IInv, TypeOK, PendingWaits
<1> QED
  BY <1>2, <1>3, <1>4, <1>5 DEF IInv

LEMMA ClientReturnsStep ==
  \A q \in Queries :
    IInv /\ (ConnectFails(q) \/ ReadCompletes(q) \/ Cancelled(q)) => IInv'
<1> SUFFICES ASSUME NEW q \in Queries, IInv,
                    ConnectFails(q) \/ ReadCompletes(q) \/ Cancelled(q)
             PROVE  IInv'
  OBVIOUS
<1>1. <<>> \in Texts
  BY DEF Texts
<1>2. reply[q] # None => reply[q] \in Texts
  BY DEF IInv, TypeOK
<1>3. \E text \in Texts : Return(q, text)
  BY <1>1, <1>2 DEF ConnectFails, ReadCompletes, Cancelled
<1>4. UNCHANGED <<serverVars, requestVars, replyVars, cameraVars>>
  BY DEF ConnectFails, ReadCompletes, Cancelled
<1> QED
  BY <1>3, <1>4, ReturnStep

LEMMA SendStep == \A q \in Queries : IInv /\ Send(q) => IInv'
<1> SUFFICES ASSUME NEW q \in Queries, IInv, Send(q) PROVE IInv'
  OBVIOUS
<1>1. /\ written' \in [Queries -> Nat]
      /\ written'[q] = Len(request[q]) /\ Len(request[q]) \in Nat
      /\ \A r \in Queries : r # q => written'[r] = written[r]
  BY DEF IInv, TypeOK, Send
<1>2. \A r \in Queries :
        written'[r] \in 0..Len(request[r]) /\ arrived[r] \in 0..written'[r]
  <2>1. \A r \in Queries :
          /\ written[r] \in 0..Len(request[r]) /\ arrived[r] \in 0..written[r]
          /\ written[r] \in Nat /\ arrived[r] \in Nat
    BY DEF IInv, TypeOK
  <2> QED
    BY <1>1, <2>1
<1>3. TypeOK'
  BY <1>1, <1>2 DEF IInv, TypeOK, Send, serverVars, replyVars, cameraVars
<1>4. AcceptedOnce'
  <2>1. \A r \in Queries : query'[r] = "idle" => query[r] = "idle"
    BY DEF IInv, TypeOK, Send
  <2> QED
    BY <2>1 DEF IInv, AcceptedOnce, Busy, Send, serverVars
<1>5. CommandInFront' /\ CommandIsOwn'
  BY ServerUndisturbed DEF IInv, Send, serverVars
<1>6. PendingWaits'
  BY DEF IInv, TypeOK, PendingWaits, Send
<1> QED
  BY <1>3, <1>4, <1>5, <1>6 DEF IInv

LEMMA TimeoutStep == \A q \in Queries : IInv /\ Timeout(q) => IInv'
<1> SUFFICES ASSUME NEW q \in Queries, IInv, Timeout(q) PROVE IInv'
  OBVIOUS
<1>1. TypeOK'
  BY DEF IInv, TypeOK, Timeout, serverVars, requestVars, replyVars, cameraVars
<1>2. AcceptedOnce'
  <2>1. \A r \in Queries : query'[r] = "idle" => query[r] = "idle"
    BY DEF IInv, TypeOK, Timeout
  <2> QED
    BY <2>1 DEF IInv, AcceptedOnce, Busy, Timeout, serverVars, requestVars
<1>3. CommandInFront' /\ CommandIsOwn'
  BY ServerUndisturbed DEF IInv, Timeout, serverVars, requestVars
<1>4. PendingWaits'
  BY DEF IInv, TypeOK, PendingWaits, Timeout
<1> QED
  BY <1>1, <1>2, <1>3, <1>4 DEF IInv

-----------------------------------------------------------------------------
(* The invariants. *)

LEMMA Establishes == Init => IInv
<1> SUFFICES ASSUME Init PROVE IInv
  OBVIOUS
<1>1. buffer \in [1..BufferSize -> Nat]
  BY DEF Init, Junk
<1>2. \A q \in Queries : request[q] \in Seq(Nat) /\ Len(request[q]) \in Nat
  BY RequestsAssumption DEF Init
<1>3. request \in [Queries -> Seq(Nat)]
  BY <1>2 DEF Init
<1>4. TypeOK
  <2>1. \A q \in Queries :
          /\ request[q] \in Requests[q]
          /\ written[q] \in 0..Len(request[q])
          /\ arrived[q] \in 0..written[q]
          /\ consumed[q] \in 0..arrived[q]
    BY <1>2 DEF Init
  <2>2. /\ written \in [Queries -> Nat] /\ arrived \in [Queries -> Nat]
        /\ consumed \in [Queries -> Nat]
    BY DEF Init
  <2>3. available \in 0..BufferSize /\ abilitiesList \in Lists /\ portInfoList \in Lists
    BY BufferAssumption DEF Init, CameraInit, Lists
  <2>4. /\ reply \in [Queries -> Texts \union {None}]
        /\ result \in [Queries -> Texts \union {None}]
        /\ closed \in [Queries -> BOOLEAN] /\ pending \in [Queries -> BOOLEAN]
        /\ query \in [Queries ->
                    {"idle", "connected", "waiting", "closing", "returned"}]
    BY DEF Init
  <2> QED
    BY <1>1, <1>3, <2>1, <2>2, <2>3, <2>4 DEF Init, TypeOK
<1>5. AcceptedOnce /\ CommandInFront /\ CommandIsOwn /\ PendingWaits
  BY DEF Init, AcceptedOnce, Busy, CommandInFront, CommandIsOwn, PendingWaits
<1> QED
  BY <1>4, <1>5 DEF IInv

LEMMA Preserves == IInv /\ [Next]_vars => IInv'
<1> SUFFICES ASSUME IInv, [Next]_vars PROVE IInv'
  OBVIOUS
<1>1. CASE Accept
  BY <1>1, AcceptStep
<1>2. CASE ReadCommand
  BY <1>2, ReadCommandStep
<1>3. CASE ReadShort
  BY <1>3, ReadShortStep
<1>4. CASE ReadMore
  BY <1>4, ReadMoreStep
<1>5. CASE ReadTooMuch
  BY <1>5, ReadTooMuchStep
<1>6. CASE EchoOnly \/ ListCameras \/ Select \/ SelectFails
           \/ SelectWithoutPort \/ Unsupported
  BY <1>6, DispatchStep
<1>7. CASE ListCrashes
  BY <1>7, ListCrashesStep
<1>8. CASE ClientNext
  BY <1>8, ConnectStep, ClientReturnsStep, SendStep, TimeoutStep
  DEF ClientNext, ClientStep
<1>9. CASE \E q \in Queries : Deliver(q)
  BY <1>9, DeliverStep
<1>10. CASE UNCHANGED vars
  BY <1>10
  DEF IInv, TypeOK, AcceptedOnce, Busy, CommandInFront, CommandIsOwn, Command,
      Memory, PendingWaits, vars, serverVars, requestVars, replyVars,
      clientVars, cameraVars
<1> QED
  BY <1>1, <1>2, <1>3, <1>4, <1>5, <1>6, <1>7, <1>8, <1>9, <1>10
  DEF Next, ServerNext

LEMMA Invariant == Spec => []IInv
BY Establishes, Preserves, PTL DEF Spec

(* The types of the variables, and the bounds: the buffer keeps its size,  *)
(* the server never counts more bytes than fit into it, and no more arrive *)
(* or are read of a request than were written.                             *)
THEOREM TypeCorrect == Spec => []TypeOK
<1>1. IInv => TypeOK
  BY DEF IInv
<1> QED
  BY <1>1, Invariant, PTL

(* Server::run never executes a command for a connection that did not send *)
(* a whole one, and every byte of it was sent by that connection, whatever *)
(* earlier connections left in the buffer they all share.                  *)
THEOREM OwnCommand == Spec => []CommandIsOwn
<1>1. IInv => CommandIsOwn
  BY DEF IInv
<1> QED
  BY <1>1, Invariant, PTL

(* Client::query never returns while the completion handler, which refers  *)
(* to its local variables, may still be called.                            *)
THEOREM NothingDangles == Spec => []NoDanglingHandler
<1>1. IInv => NoDanglingHandler
  BY DEF IInv, PendingWaits, NoDanglingHandler
<1> QED
  BY <1>1, Invariant, PTL

=============================================================================

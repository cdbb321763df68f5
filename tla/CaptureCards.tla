---------------------------- MODULE CaptureCards ----------------------------
(***************************************************************************)
(* server/CaptureCard::detect and the UserspaceDevices it starts from.     *)
(*                                                                         *)
(* udev lists the devices there are; each is looked up one after the       *)
(* other, those of video4linux (MAJOR 81) are sorted, opened and asked for *)
(* their bus, and grouped into cards. Devices come and go meanwhile. A     *)
(* device is a record: the type and number its name is made of, its major  *)
(* number, whether it answers to video4linux, as a media controller or to  *)
(* neither, and the bus and card it answers with.                          *)
(***************************************************************************)
EXTENDS Integers, Sequences, SequencesExt

CONSTANT Devices

ASSUME DevicesAssumption ==
  /\ IsFiniteSet(Devices)
  /\ \A d \in Devices :
       /\ d.type \in Nat /\ d.num \in Nat     \* types are ranked by their names
       /\ d.answers \in {"v4l2", "media", "neither"}
       /\ \A e \in Devices : d.type = e.type /\ d.num = e.num => d = e

VARIABLES
  detecting,   \* the next statement of detect
  present,     \* the devices that are there
  scan,        \* the names udev listed and matchProperty has yet to look up
  devices,     \* userspaceDevices, those before the current one left out
  current,     \* the device that is open, and its bus and card once known
  captureCards,
  answered     \* history: devices in the order they answered, with answers

cardVars == <<detecting, present, scan, devices, current, captureCards,
              answered>>

NoDevice == [device |-> {}, answer |-> <<>>]

CardsInit ==
  /\ detecting = "no"
  /\ present = Devices
  /\ scan = <<>>
  /\ devices = <<>>
  /\ current = NoDevice
  /\ captureCards = <<>>
  /\ answered = <<>>

(* A device is plugged or unplugged, at any time. *)
Replug(d) ==
  /\ present' = IF d \in present THEN present \ {d} ELSE present \cup {d}
  /\ UNCHANGED <<detecting, scan, devices, current, captureCards, answered>>

-----------------------------------------------------------------------------
(* UserspaceDevice::matchProperty({"MAJOR", "81"}). *)

(* udev lists the devices by their place in /sys, which is any order here. *)
Scan ==
  /\ detecting = "no"
  /\ scan' \in SetToSeqs(present)
  /\ detecting' = "match"
  /\ UNCHANGED <<present, devices, current, captureCards, answered>>

(* A device that has gone meanwhile is a null pointer, of which udev knows *)
(* no property.                                                            *)
Match ==
  /\ detecting = "match" /\ scan # <<>>
  /\ scan' = Tail(scan)
  /\ devices' = IF Head(scan) \in present /\ Head(scan).major = 81
                THEN Append(devices, Head(scan)) ELSE devices
  /\ UNCHANGED <<detecting, present, current, captureCards, answered>>

(* By type, then by number. *)
Precedes(d, e) == d.type < e.type \/ (d.type = e.type /\ d.num < e.num)

Sort ==
  /\ detecting = "match" /\ scan = <<>>
  /\ \E sorted \in SetToSeqs(ToSet(devices)) :
       IsSorted(sorted, Precedes) /\ devices' = sorted
  /\ detecting' = "open"
  /\ UNCHANGED <<present, scan, current, captureCards, answered>>

-----------------------------------------------------------------------------
(* The loop of detect, once for each of devices. *)

Open ==
  /\ detecting = "open" /\ devices # <<>>
  /\ Head(devices) \in present
  /\ current' = [device |-> {Head(devices)}, answer |-> <<>>]
  /\ detecting' = "query"
  /\ UNCHANGED <<present, scan, devices, captureCards, answered>>

CannotOpen ==
  /\ detecting = "open" /\ devices # <<>>
  /\ devices' = Tail(devices)
  /\ UNCHANGED <<detecting, present, scan, current, captureCards, answered>>

(* What the ioctl kind tells of the current device. *)
Reply(kind) ==
  LET d == Head(devices)
  IN  IF d \in present /\ d.answers = kind THEN << [bus |-> d.bus, card |-> d.card] >>
      ELSE <<>>

(* VIDIOC_QUERYCAP. *)
QueryCap ==
  /\ detecting = "query"
  /\ current' = [current EXCEPT !.answer = Reply("v4l2")]
  /\ detecting' = IF Reply("v4l2") = <<>> THEN "media" ELSE "close"
  /\ UNCHANGED <<present, scan, devices, captureCards, answered>>

(* MEDIA_IOC_DEVICE_INFO. A controller without a bus gives its driver for  *)
(* one, and for a model: what it gives is in the record.                   *)
MediaInfo ==
  /\ detecting = "media"
  /\ current' = [current EXCEPT !.answer = Reply("media")]
  /\ detecting' = "close"
  /\ UNCHANGED <<present, scan, devices, captureCards, answered>>

NewCard(d, answer) ==
  [busInfo |-> answer.bus, card |-> answer.card, devNodes |-> <<d>>]

(* Only the last card is looked at. *)
AddToLast(cards, d, answer) ==
  IF cards # <<>> /\ Last(cards).busInfo = answer.bus
  THEN [cards EXCEPT ![Len(cards)].devNodes = Append(@, d)]
  ELSE Append(cards, NewCard(d, answer))

(* To the first card on the same bus, or to a new one. *)
Add(cards, d, answer) ==
  LET same == {i \in DOMAIN cards : cards[i].busInfo = answer.bus}
  IN  IF same = {} THEN Append(cards, NewCard(d, answer))
      ELSE [cards EXCEPT ![Min(same)].devNodes = Append(@, d)]

Close ==
  /\ detecting = "close"
  /\ IF current.answer = <<>>
     THEN UNCHANGED <<captureCards, answered>>
     ELSE /\ captureCards' = Add(captureCards, Head(devices), current.answer[1])
          /\ answered' = Append(answered, <<Head(devices), current.answer[1]>>)
  /\ current' = NoDevice
  /\ devices' = Tail(devices)
  /\ detecting' = "open"
  /\ UNCHANGED <<present, scan>>

DetectStep ==
  Scan \/ Match \/ Sort \/ Open \/ CannotOpen \/ QueryCap \/ MediaInfo \/ Close

Detected == detecting = "open" /\ devices = <<>>

-----------------------------------------------------------------------------
Cards == [busInfo : {d.bus : d \in Devices}, card : {d.card : d \in Devices},
          devNodes : Seq(Devices)]

CardsTypeOK ==
  /\ detecting \in {"no", "match", "open", "query", "media", "close"}
  /\ present \subseteq Devices
  /\ scan \in Seq(Devices)
  /\ devices \in Seq(Devices)
  /\ current.device \subseteq Devices
  /\ captureCards \in Seq(Cards)

(* detect: the cards are the devices that answered, grouped by their bus,  *)
(* whatever was unplugged meanwhile and in whichever order udev lists      *)
(* them: one card for each bus, with all of its devices once and in the    *)
(* order of their names, called what the first of them is called.          *)
OnBus(bus) == {a \in ToSet(answered) : a[2].bus = bus}

CardsAreGroups ==
  /\ \A i, j \in DOMAIN answered : i < j => Precedes(answered[i][1], answered[j][1])
  /\ {captureCards[i].busInfo : i \in DOMAIN captureCards}
       = {answered[i][2].bus : i \in DOMAIN answered}
  /\ \A i, j \in DOMAIN captureCards :
       captureCards[i].busInfo = captureCards[j].busInfo => i = j
  /\ \A i \in DOMAIN captureCards :
       LET group == OnBus(captureCards[i].busInfo)
           nodes == captureCards[i].devNodes
       IN  /\ IsSorted(nodes, Precedes) /\ ToSet(nodes) = {a[1] : a \in group}
           /\ \E a \in group : a[1] = nodes[1] /\ a[2].card = captureCards[i].card

=============================================================================

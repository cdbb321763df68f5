# rckam: verification project

rckam operates a camera from a remote computer. A server runs next to the
camera, a GTK client shows a live preview and asks the server for things, and a
tracker turns the head the camera stands on; an older Qt client shows previews
that come over TCP. This directory holds TLA+ models of these programs, above
all of what a unit test reaches least (threads, datagrams, a server shared by
connections, a counter driven by interrupts, drivers and devices that fail half
way), what TLC checks of them, and proofs of the main results for every size.

Every definition is translated from the source; `PROJECT.json` maps each one to
its lines. Comments in the modules give the code's names.

## The system

| Part | State | Operations | What is hard | What makes it correct |
|---|---|---|---|---|
| preview pipeline, `client/ImageLoader`, `MainWindow`, `ImagePreview` | two buffers with a mutex, a condition variable and a flag each; two private indexes; `stop_`; two thread handles | `start`, `stop`, `isRunning`, destructor on the GUI thread; `readPreviews`, `setPreviews` on their own | interleaving, lost and spurious wakeups, an exception in either thread, destruction while they run | images shown in order, once, whole; no buffer shared; nobody sleeps for ever; nothing destroyed in use |
| preview transfer, `CameraController::transferData` and `ImageLoader::readPreview` | sender's image and packet number; receiver's ids, offset, vector | send header and pieces; receive, accept, skip, discard | lost, late, repeated, reordered datagrams; 16-bit ids; empty images; writes at an offset before the packet is examined | only whole images are returned, every write is inside the vector, a loss costs no other image |
| control protocol, `Server::run`, `Client::query`, `Client::listCameras` | the server's command buffer, kept from one connection to the next; the client's pending read | accept, read, dispatch, respond; connect, send, time out | requests in pieces, short, or too long; one thread for all connections; a timeout racing the answer | a command is the connection's own, and is dispatched as it was sent; every query returns; nobody waits for ever |
| gphoto2 camera, `Camera`, `CameraList`, `CameraController::selectCamera` and `listCameras` | two static cached lists, the abilities and port that are set, the last list of cameras | set abilities, set port, list | a failure half way, a list cached but not loaded, a list freed while it is used | a client whose selection fails is told |
| encoders, `tracker/Encoder` | levels of two contacts, last contact, counter | `interrupt` on pigpio's thread, `reset`, `counter` | bouncing, reversals, `reset` without the mutex | the counter is the position |
| motors, `PanTiltMotors`, `Tb6612fng` | GPIO levels, PWM duty, goto monitors | pan, tilt, `gotoPosition`, `setZero`, drive, standby | callbacks racing the calls that install them, a goal that is reached before the motor is started, a failure between two writes | a motor told to stop stops; a goto ends where it should |
| controller, `Controller`, `Joystick`, `Mcp3008` | pins, the SPI, the last readings | the constructors, the script of motions, the joystick loop, the destructors | any GPIO or SPI call failing; ten bits in two bytes made a signed deflection | each motor turns as the stick was held, and nothing is left running by a run that returns |
| HDMI capture, `CameraController::startHdmiCapture`, `stopHdmiCapture` | one V4L2 buffer, the stream, a stop flag | ioctl sequences on one thread, a stop from another | any ioctl failing, frames at any time, unplugging, a stop at any time | program and driver agree whose the buffer is; a stop ends the loop |
| capture cards, `CaptureCard::detect`, `UserspaceDevice` | the list of cards | scan, match, sort, open, two ioctls, group | devices that come and go between the steps, udev's order | one card per bus, with all its devices in order |
| options, `Program`, `*Options` | what was given on the command line and in a response file | parse, usage, version | two sources, defaults, required options, switches | the command line wins; no run without what is required |
| main programs and exceptions | exit status, pigpio | main, `run`, the handlers | an exception from anywhere | what was opened is closed, the status says what happened |
| Qt client, `client-qt5` | a receive buffer, files in `/tmp`, `stop_` | `start`, `read` on a thread, the window's life, the destructor | TCP in pieces, a broken connection, the window closed at any time | the files are the images sent; the preview outlives the reader |
| common support | a mutex around a stream | logging, shims of the operating system | nothing | not modelled |

How they interact: the two client threads and the GUI thread share memory under
mutexes and condition variables; the reader calls `readPreview`, which receives
from a UDP socket what `transferData` sends; before the window opens, the client
asks the server over TCP for its cameras; `Server::run` calls the
`CameraController` on its own thread, and before that `main` detects the capture
cards. The tracker is a program of its own, in which pigpio calls the encoders on
a thread of its own; the Qt client is one as well, and its server is not in this
repository. All four parse their options the same way.

## Modules

| Module | What it is |
|---|---|
| `PreviewHandoff` | abstract: a bounded FIFO of images |
| `ImageLoader` | the two loader threads and the GUI thread; implements `PreviewHandoff` |
| `ImageLoader_proofs` | its safety properties and the refinement, proved |
| `PreviewChannel` | abstract: a stream of whole images that may be damaged |
| `PreviewTransfer` | the UDP stream of images, both ends and the network; implements `PreviewChannel` where the network keeps the order |
| `PreviewTransfer_proofs` | types, integrity and bounds, proved |
| `PreviewChannel_proofs` | the refinement of `PreviewChannel`, proved |
| `Camera` | the cached lists of libgphoto2 and the selected camera, as operators on their state |
| `ControlProtocol` | server and clients over TCP; extends `Camera` |
| `ControlProtocol_proofs` | whose command is executed, and the life of a handler, proved |
| `Encoder` | a quadrature encoder, `interrupt` and `reset` |
| `Encoder_proofs` | the counter is exact, proved |
| `Tb6612fng` | the H-bridge: its pins, the writes, the modes |
| `PanTiltMotors` | two motors, their callbacks and both threads; extends `Tb6612fng` |
| `PanTiltMotors_proofs` | motors do what they are told, whatever the callbacks do, proved |
| `HdmiCapture` | the capture thread, the one that stops it, and the driver |
| `HdmiCapture_proofs` | who has the buffer, proved |
| `Options` | the options, parsing and usage, as operators |
| `CaptureCards` | detection of the capture cards |
| `Controller` | the joystick's controller; extends `Tb6612fng` |
| `QtClient` | the Qt client's two threads and its TCP stream |
| `Programs` | the four programs from main to exit; composes `Options`, `CaptureCards`, `Controller` and `QtClient` |
| `Programs_proofs` | types, options, the cards detected, what the motors are told and what the tracker leaves behind, the files of the Qt client and the life of its preview, proved |
| `MC*` | instances for TLC; `MCDevices` is one of `PanTiltMotors`, `Encoder` and `HdmiCapture` |

### ImageLoader

Each thread is a control point per access to shared state: test `stop_`, lock,
test the predicate of `wait`, release and sleep in one step, check `stop_` again,
work, publish, unlock with the notification. `std::condition_variable` is the
loop the standard defines, and a sleeper may wake at any time. `stop_` is a
plain `bool` read without the mutex it is written under, formally a race; each
read is a step that sees the value before or after the write. An exception ends
either thread and releases its mutex; `readPreviews` and `setPreviews` are
inside wrappers that catch it. The GUI thread's actions are the toggle handler of
`MainWindow`, `start`, `stop`, the destructors and their joins. The socket opens
once: `start` on an open socket throws into GTK, which aborts. `isRunning` asks
whether a thread is joinable; `ImageLoader.hpp:50` says "executing", and a thread
that has ended counts, so that a stopped preview cannot be started again
(`OnlyFirstStartFails`).
Decoding an image is one step that may throw. How many bytes arrive, and how, is
left to `PreviewTransfer`.

### PreviewTransfer

A datagram is its image, its packet number, and the bytes it carries; its ids on
the wire are these modulo `IdModulus` (2^16). Bytes are `<<image, position>>`, so
that an image put together from the wrong pieces is seen. `InOrder` and
`Duplicates` choose the network: what is sent may always be lost. `readPreview`
has one action per outcome of a packet: first packet, first packet of the wrong
size, skipped, wrong size, accepted, and the failure of `receive_from`. The
sizes the code compares are kept; payloads are one or two bytes instead of 1468.
`PreviewChannel` is what remains of it without packets: images are sent, damaged,
or returned in order, with none left out that lost nothing. The refinement maps
the images returned to `returned` byte by byte. An image of more packets than there
are ids is never returned, and neither is an empty one (`Spoilt`). Empty images are
sent, since nothing on the server asks for a size: the header of one makes the
client resize its vector to nothing and receive the next packet, of up to 1468
bytes, at its beginning, which `ReceiveFits` names as its one exception. Two images
with one id may be taken for one another when all between them is lost and their
packets have the same sizes: `LostIsDiscarded` fails of ids that wrap around.

### ControlProtocol and Camera

The action names follow `Server::run` from top to bottom: `Accept`,
`ReadCommand` or `ReadShort`, `ReadMore` or `ReadTooMuch`, then one action per
branch of the switch and per exception. `buffer` is the array that lives as long
as `run` and is never cleared; its first contents are any. A command is two
bytes instead of four, a field one. `Deliver` brings a request to the server a
byte at a time, so `available()` sees any prefix. `Client::query` is `Connect`,
`Send`, then `ReadCompletes` or `Timeout` and `Cancelled`, and sends only a
command; other clients may send arguments, stop half way, or send too much.
`listCameras` answers from a list that has been freed when there is a camera in
it, so that the names may be anything, or the process dies. The two lists in
`Camera` are cached as soon as they are created: a later call finds the pointer and
does not ask whether the list was loaded (`Returned`), so that a selection may
succeed or fail with one that was not. Not modelled: the exceptions of `accept` and
`available`, which end the server.

### Encoder

The shaft has four phases; each quarter of a cycle changes one contact, which
calls `interrupt`. `Count` reads the counter and `Store` writes it: `reset` on
the main thread may come between. The callback to the user, called with the
mutex held, is in `PanTiltMotors`.

### Tb6612fng and PanTiltMotors

`Tb6612fng` is the bridge: three pins a motor and `stby`, the writes of the
program as data, and the table of modes of `Tb6612fng.hpp:33-40`. An operation
of `PanTiltMotors` is the sequence of its writes, callbacks and resets; the main
thread takes them one at a time, and so does the alert thread with those of a
stop. Motors turn in between as the bridge drives them, and their counts wait in
`lag` for the alert thread. `Interrupt` counts, then `PassesBy` or `Arrives` is
`GotoMonitor::callback`. Its `setCallback(nullptr)` destroys the function object
that runs it: what follows is the stop, or the end of the program (`Ends`), which
may also come at any other time and leaves the bridge as it is. The main thread
calls the operations in any order, of which the script and the joystick loop of
`Controller::run` are instances, with `gotoPosition` as in the call commented out
at `Controller.cpp:78`. `Careful` restricts the order: `gotoPosition` and
`setZero` are called when the motors have come to rest (`AtRest`, for which nothing
in the code waits), and a motor with a callback is not started by `pan` or `tilt`.
It does not restrict the goals: `gotoPosition` may be to where a motor is
(`IsSentNowhere`), which then runs away. `commanded` is a history variable, what
was asked of each motor last and from where. The pins of the directions and
standby may be at any level at first, since the constructor only makes them outputs;
that the PWM is off then, as pigpio leaves it, is an assumption. The counting
itself, one step here, is `Encoder`'s part; duties are zero or not.

### HdmiCapture

One action per statement of `startHdmiCapture`, from `Open` (unchecked) over the
five steps of the set-up to the loop `Test`, `Queue`, `Select`, `Dequeue` and the
ioctl after it, which is `STREAMON` again (`StreamOnAgain`). `Fails` is the error
of each. `call` is the descriptor as well: each call opens a new one and none is
ever closed, so that `owner`, the descriptor whose buffers the driver has, keeps
later calls from setting a format. `Frame` and `Unplug` are the driver's.
`SetUp`, `Loop` and `Ended` are the statements the thread may be at.

### Options

A command line and a response file are sequences of names with values. `Store`
is `po::store`: what was stored first stays. `IsRefused` is what boost throws
for, `Parse` the order of `Options::parse`: the command line, the file it names,
`notify` (where required options are missed), then the switches. The server and
the tracker have copies of it (`ServerParse`, `TrackerParse`). `HelpLine` is the
width of a line of help, checked for every width of terminal against what boost
asserts of it.

### CaptureCards

`Scan` takes udev's list, `Match` looks up one name after the other, `Sort` puts
those of `MAJOR` 81 in the one order that is sorted by type and number, and
`Open`, `QueryCap`, `MediaInfo` and `Close` treat one of them. `Replug` plugs or unplugs any device at any step.
`answered` is a history variable.

### Controller

`run` is a sequence of statements, `todo`: the writes of the script and of a
`Round` of the loop, and `sleep`, `glance` (what is read for the log), `steer`
(a reading of the stick, replaced by the writes it leads to) and `check` (the
switch). `directionValue` is the arithmetic of `Joystick`, `read` that of
`Mcp3008`. `Throws` is an exception of any statement that can throw; `Destroys`
the destructors, which leave the bridge as it is.

### QtClient

`gui` follows `rckamGui` and the destructors at its end, `reader` the loop of
`ImageLoader::read`. A piece is a part of the stream, half a size or a byte of an
image; `coming` is the one the server sends next, pieces arrive one at a time
(`Arrives`), and the connection may break between any two (`Breaks`). The reader
takes a size for that of the image its last piece belongs to, so that one piece
too few or too many would shift every later image. `files` are the files in `/tmp`
of this run and an earlier one.

### Programs

`program` says which of the four runs, `at` where its main function is. `Runs`,
`PrintsHelp`, `PrintsVersion` and `Refuses` are the outcomes of parsing;
`StatusOf` is the order of the exception handlers of `run`. What the server does
once it serves is in `ControlProtocol`, and the window of the GTK client in
`ImageLoader`: here they are single steps.

## What TLC checks

| Run | Question | Result |
|---|---|---|
| `ImageLoaderThreads` | every interleaving of the three threads: safety, refinement of `PreviewHandoff`, and that every image is shown and the reader comes back | holds |
| `ImageLoaderStop` | "notifies threads for streaming previews to stop" (`ImageLoader.hpp:48`) | violated: `stop` notifies without the mutexes the threads wait under, so one that has just tested its predicate sleeps on |
| `PreviewTransferUdp` | integrity and bounds with loss, reordering and duplicates, an empty image among the others | holds, but for what is received after the header of the empty image |
| `PreviewTransferOrder` | a network that loses datagrams and keeps their order, packet ids that wrap around, an empty image: refinement of `PreviewChannel`, and that each image that lost nothing is returned in the end | holds |
| `PreviewTransferCollision` | "When packets are lost, the whole image is discarded" (`client/ImageLoader.cpp:53`) with image ids that wrap around | violated: after the loss of all images between two with one id, the end of the second completes the beginning of the first |
| `ControlProtocol` | requests in pieces: whose command is executed, timeouts, liveness | holds |
| `ControlProtocolDispatch` | "dispatch the client commands" (`Server.hpp:43`) | violated: the first byte of a selection's model is put over its command, which is looked at afterwards |
| `Devices` | the motors: operations against callbacks, when motions end before others start: each motor does what it was told, never turns astray, and a goto ends; the encoder: bouncing contacts, reversals in phase 0, concurrent resets; HDMI capture against stops, unplugging and failing ioctls: whose the buffer is, and that a stop ends the loop | holds, but for motors that are sent to where they are |
| `Goto` | "go to the specidied absolute position" (`PanTiltMotors.hpp:77`) | violated: a motor that is there already is started and runs away |
| `EncoderReversal` | "get the current pan position" (`PanTiltMotors.hpp:71`) for a shaft that turns back anywhere | violated: half a cycle forth and back is counted as a turn |
| `Joystick` | "returns a percentage of X motion (value in [-100, +100]" (`Joystick.hpp:42`) | violated: with the stick at its end the duty is 20 |
| `Programs` | the four programs from command line to exit: options, cards, what the motors are told, what the Qt client saves, what is left behind, and that a program told to quit does | holds |

Each property of a passing run has a mutant: a plausible bug (a missing
notification, the wrong buffer, an id not compared, a size not rounded, a guard
dropped) written as a second form of a definition, under which TLC finds the
property violated.

`Devices` checks three parts that share nothing and drive devices each, one of
them a behaviour: `device` says which, and the variables of the others stay as they
are. `LostIsDiscarded`, `NeverAway` and `DutyIsPercentage` are what the repository
says of itself where it does otherwise; the passing runs check what is true there
instead: `DeliveredWhole` without ids that wrap around, `GotoIsObeyed`, which says of
a motor sent to where it is that it runs away, and `MovesAsTold` with a duty of 5 to
20.

### Bounds, and why they are enough

- `MaxImages = 5`: the two buffers are each used at least twice, by both
  threads, through several starts and stops. The theorems hold for any number.
- Images of no, two, three, four and eight bytes, two bytes a datagram: images that
  fill their last packet and images that do not, one with a single packet, one with
  equal pieces that could be mistaken for each other, and an empty one before and
  after others. `IdModulus` is 4 where image ids must not wrap around, and then one
  image has more packets than ids; it is 3 in `PreviewTransferCollision`, where the
  fourth image has the id of the first. The theorems cover all sizes.
- Two connections and a buffer of six bytes, with requests of one, two, eight
  and nine: one fits twice over, one overflows by a byte. One client sends any
  of them, the other lists; both orders occur, so the buffer holds either's rest.
- Motors: positions one either way and one count not yet reported; a target is
  then reached from either side, passed, or the position itself. All interleavings of writes, counts
  and callbacks of both motors occur at that size.
- Three calls of `startHdmiCapture`: one that ends, one that is refused because
  of it, and one more. The theorem holds for any number.
- Four devices: two of one card with one of another between them in the order of
  names, and one that is not video4linux; all orders, all subsets, unplugged and
  plugged in at every step.
- Readings of 0, 396, 397, 512, 627, 628 and 1023: both ends, the middle, and
  both sides of the dead zone.
- Images of one, no and two bytes, each piece read or not yet come.
- Command lines and response files of up to two arguments, among them a value
  that is none, one option twice, options nobody knows, and channels out of
  range. The theorems hold for any, and for any readings and images.
- Three turns either way: the invariant relates only adjacent turns. The theorem
  holds for any number.

`CHECK_DEADLOCK FALSE` where the system stops: after the destructor, after the
last image, when every query has returned, when the tracker has ended, after the
last call of `startHdmiCapture`, and when a program has exited.

### Fairness

- `ImageLoader`: each thread that can run does; strong fairness of taking a mutex
  only says that spurious wakeups of the other thread cannot keep it for ever;
  decoding returns. Nothing is assumed of the network, of the user (who need
  not stop or quit), of exceptions or of spurious wakeups.
- `PreviewTransfer`: the reader thread runs, and the network delivers or loses what
  it has. Nothing is assumed of the server, which may stop at any time, or of
  failures.
- `ControlProtocol`: the server's thread runs, TCP delivers what was written, and
  a connected client goes on to send and, after a second, to give up, as
  `Client::query` does. A client that connects and then does nothing for ever
  blocks the server for ever: `BacklogIsServed` does not hold of such clients
  and does not claim to. Nothing is assumed of failures.
- `PanTiltMotors`: both threads run, pigpio reports every count, and a motor that
  the bridge drives turns. `GotoEnds` promises nothing in standby, or when the
  program ends.
- `HdmiCapture`: the capture thread runs, an ioctl that cannot succeed fails, and
  a camera that streams delivers frames. `StopEnds` needs the last: `VIDIOC_DQBUF`
  blocks, and a stop is seen between two frames only. Nothing is assumed of
  other failures.
- `Programs`: the threads of a program run, and the server of the Qt client sends
  or goes away, because `~ImageLoader` joins a thread that may be in a blocking
  read. Users, devices and failures are free.

## What is proved

tlapm checks every theorem for all values of the constants. Between them the
theorems state every invariant and every action property that a passing run
checks, and both refinements. Each follows one argument: an inductive invariant,
established by `Init`, preserved by every action, and implying the property. TLC
checked the properties first.

- **`ImageLoader_proofs`**, from `MaxImages \in Nat` alone: `TypeOK`,
  `WorkerOwnsBuffer`, `ShownInOrder`, `NoSleepOnReadyBuffer`, `NotBothAsleep`,
  `QuietWhenDestroyed`, `OnlyFirstStartFails`, and `Implements`, that every
  behaviour implements `PreviewHandoff`. None is inductive alone: `MutexInv`
  says who holds which mutex, `FlagInv` what a control point knows of its flag,
  `HandleInv` how handles follow threads, and `Contents` how the private indexes,
  flags and buffers form a queue of at most two. The refinement maps the queue to
  the full buffers from the setter's index on.
- **`PreviewTransfer_proofs`**, from `SizesAssumption` (sizes are naturals, 0
  included, and there are at least two ids) and `FirstPacketAssumption` (a piece is not taken for
  a first packet). `TypeCorrect` (`TypeOK`), `NoOverrun` (`ReceiveFits`) and
  `AssertionHolds` (`RemainingIsPositive`) hold for any sizes, with any loss,
  reordering and duplication, and however ids wrap around: `SafeInv` says how
  large the vector is and where the offset may be, which no id decides. Both name
  the empty image: after its header nothing fits (`Emptied`), and a packet that
  has its id would fail the assertion.
  `Integrity` (`DeliveredWhole`) is claimed when no id wraps around (`NoWrap`): its
  invariant says that the bytes before the offset are those of the current image.
  With ids that wrap around it does not hold: `PreviewTransferCollision`.
- **`PreviewChannel_proofs`**: `Implementation`, that every step of the packets is
  a step of `PreviewChannel` or leaves it alone, when the network repeats nothing
  and keeps the order and ids do not wrap around (`Orderly`). `OrderInv` is the
  strengthening: what lies in the network follows what the reader has taken
  (`HeldOrder`), of an image that was returned nothing is left (`ReturnedInv`), an
  image that lost a packet never gets it back (`DamagedInv`), and of one that did
  not, each packet sent is in the network or was taken in sequence (`IntactInv`).
  Empty images, and those of more packets than ids, are among the `Spoilt`. The run
  `PreviewTransferOrder` checks the same refinement with packet ids that wrap
  around, where the theorem says nothing.
- **`ControlProtocol_proofs`**, from `BufferAssumption`, `RequestsAssumption` and
  `AttachedAssumption`, for any number of connections and any bytes they send:
  `TypeCorrect`, `OwnCommand` (`CommandIsOwn`) and `NothingDangles`
  (`NoDanglingHandler`). `CommandInFront` says which bytes of the shared buffer
  are of this connection at each point of `Server::run`; `PendingWaits` that a
  read is pending only inside `query`; `AcceptedOnce` that no connection is served
  twice.
- **`Encoder_proofs`**, when the shaft turns back in phase 0 only: `TypeCorrect`
  and `CountCorrect`. The invariant says which contact changed last, in terms of
  the way the shaft came, and whether a turn just completed has bounced back.
  `EncoderReversal` shows why the hypothesis is needed.
- **`PanTiltMotors_proofs`**: `TypeCorrect` for any order of operations, and when
  the main thread is `Careful`, `TurnObeyed` (`TurnIsObeyed`), `GotoObeyed`
  (`GotoIsObeyed`) and `NotAstray` (`NeverAstray`), for all goals: of a motor sent
  to where it is they say that it runs away, clockwise. `MotorInv` tells for each motor
  what the writes still in `todo` will make of its pins and its callback: of an
  operation of the main thread any suffix, between the stops of the alert thread
  (`MainInv`), and what is true of a motor that turns (`TurnInv`) or goes to a
  position (`GotoInv`) meanwhile. Without `Careful` they do not hold; the hazards
  in `PROJECT.json` say how.
- **`HdmiCapture_proofs`**, for any number of calls: `TypeCorrect` and
  `BufferIsShared` (`BufferAlternates`). The invariant adds `SetUpInv`: during the
  set-up nobody but this call has buffers, none is queued, and streaming starts
  with `StreamOn`.
- **`Programs_proofs`**, for any command lines, response files, finite set of
  devices, readings from 0 to 1023 and images. The parts have an invariant each,
  and `TypeCorrect` (`TypeOK`) follows from `MainInv` with all of them.
  - `CommandLineWins` (`ExplicitWins`): what is parsed is `Parse` of what was given
    (`ParsedInv`). `HelpFitsTerminal` is about the widths of help.
  - `NothingLeftRunning` (`LeavesNothingRunning`): for each motor the statements
    that run has still to execute end with a duty of 0, or leave alone a motor
    that stands (`MotorsInv`), so that none is driven when run has returned; after
    an exception the motors stay as they were driven, and the theorem says of that
    end only that the SPI is closed and pigpio terminated. Replacing a `steer` or a `check` by what it leads to
    keeps that, because a turn of the loop stops both motors after steering them
    (`RoundStops`).
  - `MotorsMoveAsTold` (`MovesAsTold`): every `sleep` still in `todo` will find the
    bridge as the script or the stick wants it (`SleepsInv`). `Will` is the level a
    pin will have at a statement: that of the last write before it. The lemmas on
    `Will` say what becomes of it when the first statement is executed or
    replaced; those on `directionValue` what becomes of a reading, rounding
    included.
  - `CardsGrouped` (`CardsAreGroups`): the devices not yet asked are in order and
    behind those that answered (`InOrderSoFar`), and the cards are the groups of
    these (`AreGroups`), which one more answer keeps (`AddKeepsGroups`) because it
    finds at most one card on its bus.
  - `ImagesSaved` (`SavedAsSent`): what is in the socket, and then what is coming,
    continues the stream (`StreamFrom`) from the piece the reader expects next
    (`Expected`), which follows from how much it has read of the size or image
    after those saved (`BufferInv`).
  - `ReaderHasPreview` (`PreviewOutlivesReader`): where the main thread is when the
    reader exists (`WindowInv`).

Only model-checked: the liveness properties (`ReceivedIsShown`, `ReaderComesBack`,
`SentArrives`, `QueryReturns`, `BacklogIsServed`, `GotoEnds`, `StopEnds`,
`QuitEnds`), since fairness and ENABLED are beyond the prover, and the refinement
of `PreviewChannel` with packet ids that wrap around.

## Known limits of the code

What the models contain, as the code does, and no property denies. Paths are
below `src/`.

Client and transfer
- `stop` does not interrupt `receive_from`: with a silent server the destructor
  waits in `join`.
- The preview widget is deleted before the loader is told to stop
  (`client/MainWindow.cpp:71`), and `Gtk::Image::set` is called on the setter
  thread (`client/ImagePreview.cpp:40`).
- A `size_t` on the wire depends on the word size of both ends.
- `CameraController::listCameras` writes an index, a model and a port on each line,
  and `Client::listCameras` reads a model and a port; its loop goes round once more
  after the last line and adds a camera without a name. `query` takes the error code
  by value, so that a failed query gives the list of that camera alone, and
  `Application::run` shows the window whatever came.

Server
- HDMI: `open` is not checked and the descriptor never closed; the stream is
  started again at the end instead of stopped, so that a second call is refused;
  a stop before the loop is forgotten; a time-out of `select` counts as a frame,
  and `VIDIOC_DQBUF` then blocks until there is one; the format strings of the
  messages have no directives, so that boost throws `too_many_args` instead of
  the exception meant.
- Devices are chosen by `MAJOR` 81 only, where `CaptureCard.hpp:47` says
  ":capture:"; `getSysattrs` iterates the tags; udev objects are never released.
- The server ignores its option `port`.
- The arguments of a selection are taken behind the command, though they were read
  to the front of the buffer: the first four bytes of them are lost and as many of
  an earlier connection, or of memory never written, end them.
- A list of libgphoto2 that was created but not loaded stays cached.

Tracker
- `gotoPosition` called while a motor turns: its callback may stop the motor before
  it is started, and then nothing stops it. The only call is in a comment.
- The encoders assume both contacts high at their construction.
- An exception leaves `run` with the motors as they were driven, and the write of
  standby is not checked.
- A channel above 7 is only an assertion; `Mcp3008::read` takes a `char` for
  unsigned, as it is on ARM.

All programs
- "Unified behavior of all programs" (`common/Program.hpp:80`): the server and
  the tracker do not use it and exit with 0 after an exception.
- `--help` without a required option aborts, since `notify` comes first.

Qt client
- It shows the file it read at its start again and again, and without
  `/tmp/preview0000.jpg` nothing at all; the exception that says so is kept in
  `threadException_` and never looked at.
- The image is replaced on the reader's thread while the window paints it.

## Not modelled, and why

- `CameraController::run`, the capture loop, and the Qt client's `Camera.cpp` are
  compiled out (`#if 0`), so `transferData` has no counterpart in the build.
- `Camera`'s captures and files, and the rest of `CameraController`: calls of
  libgphoto2 passed on.
- `ImagePreview`'s drawing in both clients, and the life of the GTK widgets: the
  event loop is the single actor.
- The words of a command line, the wording of help and messages, and the
  properties, tags and links of a `UserspaceDevice`, which nothing reads.
- `common/LockedOstream`, `Debug` and `SystemCompatibility`: a mutex around one
  statement, and shims that nothing else calls but for the size of the terminal,
  which is in `Options`.

## Plan

Modelled, checked and proved so far: everything above. What is left:

1. `PreviewTransfer` with ids that wrap around: `Implementation` and `Integrity`
   from a weaker hypothesis than `NoWrap`, one that bounds how many images in a row
   may be lost.
2. `Encoder`: the largest error of the counter for a shaft that turns back
   anywhere, instead of none for one that does so in phase 0.
3. `PanTiltMotors`: what remains of `TurnIsObeyed` without `Careful`.

------------------------------ MODULE Programs ------------------------------
(***************************************************************************)
(* The four programs from main to exit: rckam-server, rckam-tracker and    *)
(* the two clients, one GTK and one Qt, both called rckam-client.          *)
(*                                                                         *)
(* Each parses its options and does what they ask: the server detects the  *)
(* capture cards and serves, the tracker lets the Controller run, and each *)
(* client opens a window. What they leave behind, and the status they exit *)
(* with, is the matter of this module; the parts are CaptureCards,         *)
(* Controller and QtClient. How the server serves and the window of the    *)
(* GTK client shows previews is in ControlProtocol and ImageLoader.        *)
(***************************************************************************)
EXTENDS Options, CaptureCards, Controller, QtClient

CONSTANTS
  CommandLines,   \* for each program, the arguments it may be called with
  ResponseFiles   \* and what may be in the file they name

VARIABLES
  program,    \* which program runs: "server", "tracker", "gtk" or "qt"
  at,         \* where its main function is
  args, file, \* the command line, and the response file
  parsed,     \* what parse returned, and what was given
  printed,    \* what the program has printed instead of running
  gpio,       \* pigpio is initialised
  status      \* the exit status

mainVars == <<program, at, args, file, parsed, printed, gpio, status>>

vars == <<mainVars, cardVars, controllerVars, qtVars>>

ProgramNames == {"server", "tracker", "gtk", "qt"}

(* The statuses a program exits with, as a shell tells them.               *)
MinusOne == 255
Aborted  == 134
Running  == 256     \* it has not
Statuses == {Running, Aborted, MinusOne, 0, 1, 2, 3}

NoFile == File("missing", <<>>)

NotParsed == [action |-> "none", given |-> Nothing]

Init ==
  /\ program \in ProgramNames
  /\ at = "main"
  /\ args \in CommandLines[program]
  /\ file \in ResponseFiles[program]
  /\ parsed = NotParsed
  /\ printed = "nothing"
  /\ gpio = FALSE
  /\ status = Running
  /\ CardsInit /\ ControllerInit /\ QtInit
  /\ program # "tracker" =>                   \* nothing of theirs
       stby = 0 /\ \A m \in Motors : in1[m] = 0 /\ in2[m] = 0
  /\ program # "qt" => files = <<>>

partsUnchanged == UNCHANGED <<cardVars, controllerVars, qtVars>>

-----------------------------------------------------------------------------
(* Parsing and dispatch. *)

OptionsOf(name) ==
  CASE name = "server"  -> ServerOptions
    [] name = "tracker" -> TrackerOptions
    [] name = "gtk"     -> ClientOptions
    [] name = "qt"      -> QtOptions

UsageOf(name, given) ==
  CASE name = "server"  -> ServerUsage(given)
    [] name = "tracker" -> TrackerUsage(given)
    [] OTHER            -> Usage(given)

ParseOptions ==
  /\ at = "main"
  /\ at' = "dispatch"
  /\ parsed' = CASE program = "server"  -> ServerParse(args, file)
                 [] program = "tracker" -> TrackerParse(args, file)
                 [] program = "gtk"     -> ClientParse(args, file)
                 [] program = "qt"      -> QtParse(args, file)
  /\ UNCHANGED <<program, args, file, printed, gpio, status>> /\ partsUnchanged

Leaves(code, text) ==
  /\ at' = "exited"
  /\ status' = code
  /\ printed' = text
  /\ UNCHANGED <<program, args, file, parsed, gpio>>

Exits(code) == Leaves(code, printed)

(* Of what was given only the channels of the ADC matter below. *)
ChannelOptions == {"switchChannel", "vrxChannel", "vryChannel"}

OnlyChannels(given) ==
  [n \in ChannelOptions \cap DOMAIN given |-> given[n]]

(* run of common/Program.hpp, and the mains of server and tracker. *)
Runs ==
  /\ at = "dispatch" /\ parsed.action = "RUN"
  /\ at' = "run"
  /\ args' = <<>> /\ file' = NoFile   \* forgotten, as is the rest of them
  /\ parsed' = [parsed EXCEPT !.given = OnlyChannels(@)]
  /\ UNCHANGED <<program, printed, gpio, status>> /\ partsUnchanged

PrintsHelp ==
  /\ at = "dispatch" /\ parsed.action = "HELP"
  /\ Leaves(0, UsageOf(program, parsed.given)) /\ partsUnchanged

PrintsVersion ==
  /\ at = "dispatch" /\ parsed.action = "VERSION"
  /\ Leaves(0, "version") /\ partsUnchanged

AbortStatus == IF program \in {"server", "tracker"} THEN MinusOne ELSE 1

Refuses ==
  /\ at = "dispatch" /\ parsed.action = "ABORT"
  /\ Exits(AbortStatus) /\ partsUnchanged

-----------------------------------------------------------------------------
(* Exceptions. All the classes of common/Exceptions are ExceptionData; asio *)
(* and boost::format throw others of boost's, the standard library its own. *)

Bases == [rckam |-> {"ExceptionData", "boost", "std"},
          boost |-> {"boost", "std"},
          std   |-> {"std"}]

(* The handlers of run, in their order. *)
StatusOf(kind) ==
  IF "ExceptionData" \in Bases[kind] THEN 1
  ELSE IF "boost" \in Bases[kind] THEN 2 ELSE 3

-----------------------------------------------------------------------------
(* rckam-server: every exception is logged, and the status is 0. *)

IsRunning(name) == program = name /\ at = "run"

Detects ==
  /\ IsRunning("server")
  /\ \/ DetectStep
     \/ \E d \in Devices : Replug(d)
  /\ UNCHANGED <<mainVars, controllerVars, qtVars>>

(* udev has no memory for a context or an enumeration. *)
CannotDetect ==
  /\ IsRunning("server") /\ detecting = "no"
  /\ Exits(0) /\ partsUnchanged

Serves ==
  /\ IsRunning("server") /\ Detected
  /\ at' = "serving"
  /\ UNCHANGED <<program, args, file, parsed, printed, gpio, status>> /\ partsUnchanged

(* Server's constructor or run throws; nobody stops a server. *)
ServerEnds == at = "serving" /\ Exits(0) /\ partsUnchanged

-----------------------------------------------------------------------------
(* rckam-tracker. *)

gpioInitialise ==
  /\ IsRunning("tracker") /\ ~gpio
  /\ gpio' = TRUE
  /\ UNCHANGED <<program, at, args, file, parsed, printed, status>> /\ partsUnchanged

CannotInitialise ==
  /\ IsRunning("tracker") /\ ~gpio
  /\ Exits(MinusOne) /\ partsUnchanged

Channels ==
  {ValueOf(TrackerOptions, parsed.given, n) : n \in ChannelOptions}

Tracks ==
  /\ IsRunning("tracker") /\ gpio
  /\ ControllerStep(Channels) \/ Throws \/ Destroys
  /\ UNCHANGED <<mainVars, cardVars, qtVars>>

(* An assertion on the number of a channel: SIGABRT. *)
Asserts ==
  /\ IsRunning("tracker") /\ stage = "joystick"
  /\ \E c \in Channels : ~IsChannel(c)
  /\ Exits(Aborted) /\ partsUnchanged

gpioTerminate ==
  /\ IsRunning("tracker") /\ stage = "over"
  /\ gpio' = FALSE
  /\ at' = "exited" /\ status' = 0
  /\ UNCHANGED <<program, args, file, parsed, printed>> /\ partsUnchanged

-----------------------------------------------------------------------------
(* The GTK client. *)

(* Application's constructor builds the window, out of a resource. *)
Constructs ==
  /\ IsRunning("gtk")
  /\ at' = "listing"
  /\ UNCHANGED <<program, args, file, parsed, printed, gpio, status>>
  /\ partsUnchanged

(* A widget is missing: GtkmmException, which run handles. *)
LacksWidget ==
  /\ IsRunning("gtk")
  /\ Exits(StatusOf("rckam")) /\ partsUnchanged

(* Application::run asks the server for its cameras, and whatever comes of *)
(* it, shows the window: the error stays behind in listCameras.            *)
ListsCameras ==
  /\ at = "listing"
  /\ at' = "window"
  /\ UNCHANGED <<program, args, file, parsed, printed, gpio, status>>
  /\ partsUnchanged

(* run throws, the address being none, or the main loop passes on what a   *)
(* handler has thrown. Logged, with a status of 0.                         *)
RunThrows == at \in {"listing", "window"} /\ Exits(0) /\ partsUnchanged

WindowCloses == at = "window" /\ Exits(0) /\ partsUnchanged

-----------------------------------------------------------------------------
(* The Qt client. *)

Shown ==
  /\ IsRunning("qt")
  /\ guiStep \/ CannotStart \/ Closes \/ readerStep \/ Arrives \/ Breaks
  /\ UNCHANGED <<mainVars, cardVars, controllerVars>>

(* Past the start, only exec's result is thrown. *)
Kinds == IF reader = "none" THEN DOMAIN Bases ELSE {"rckam"}

QtExits ==
  /\ IsRunning("qt") /\ ~window
  /\ \/ gui = "returned" /\ Exits(0)
     \/ gui = "thrown" /\ \E kind \in Kinds : Exits(StatusOf(kind))
  /\ partsUnchanged

-----------------------------------------------------------------------------
ServerStep  == Detects \/ CannotDetect \/ Serves \/ ServerEnds
TrackerStep == gpioInitialise \/ CannotInitialise \/ Tracks \/ Asserts \/ gpioTerminate
GtkStep     == Constructs \/ LacksWidget \/ ListsCameras \/ RunThrows \/ WindowCloses
QtStep      == Shown \/ QtExits

Next ==
  \/ ParseOptions \/ Runs \/ PrintsHelp \/ PrintsVersion \/ Refuses
  \/ ServerStep \/ TrackerStep \/ GtkStep \/ QtStep

Spec == Init /\ [][Next]_vars

(* The threads of a program run, and the server of the Qt client sends or  *)
(* goes away. Users and devices do what they like.                         *)
FairSpec ==
  /\ Spec
  /\ WF_vars(ParseOptions \/ Runs \/ PrintsHelp \/ PrintsVersion \/ Refuses)
  /\ WF_vars(Tracks \/ Asserts \/ gpioTerminate)
  /\ WF_vars(IsRunning("qt") /\ guiStep /\ UNCHANGED <<mainVars, cardVars, controllerVars>>)
  /\ WF_vars(IsRunning("qt") /\ readerStep /\ UNCHANGED <<mainVars, cardVars, controllerVars>>)
  /\ WF_vars(IsRunning("qt") /\ Arrives /\ UNCHANGED <<mainVars, cardVars, controllerVars>>)
  /\ WF_vars(QtExits)

-----------------------------------------------------------------------------
(* The variables keep their types. *)
TypeOK ==
  /\ program \in ProgramNames
  /\ at \in {"main", "dispatch", "run", "serving", "listing", "window", "exited"}
  /\ parsed.action \in {"none", "RUN", "HELP", "VERSION", "ABORT"}
  /\ printed \in {"nothing", "version", "defaults", "markdown", "text"}
  /\ gpio \in BOOLEAN
  /\ status \in Statuses /\ (status = Running <=> at # "exited")
  /\ CardsTypeOK /\ ControllerTypeOK /\ QtTypeOK

(* Options::parse: an option has the value it has on the command line, if  *)
(* not, the one in the response file, and its default otherwise; and no    *)
(* program runs without what it requires, or with a value that is none.    *)
ExplicitWins ==
  at = "dispatch" /\ parsed.action = "RUN" =>
    LET options == OptionsOf(program)
        inFile  == "response-file" \in Names(args)
        value(n) == ValueOf(options, parsed.given, n)
    IN  /\ \A n \in options.required : n \in DOMAIN parsed.given
        /\ \A n \in options.required \cup DOMAIN options.defaults :
             /\ value(n) # Bad
             /\ value(n) = IF n \in Names(args) THEN ValueIn(args, n)
                           ELSE IF inFile /\ n \in Names(file.args) THEN ValueIn(file.args, n)
                           ELSE options.defaults[n]

(* rckam-tracker: whatever fails, a program that ends by itself has closed *)
(* the SPI and terminated pigpio; and when it was ended by the joystick no *)
(* motor is driven, whatever the last motion was.                          *)
LeavesNothingRunning ==
  /\ at = "exited" /\ status # Aborted => ~gpio /\ ~spi
  /\ stage = "returned" => \A m \in Motors : ~IsDriven(m)

(* A program that is told to quit does: the tracker when its joystick is   *)
(* pressed or anything fails, and the Qt client when its window is closed, *)
(* although the reader is joined and cannot be woken, as long as the       *)
(* server sends or goes away.                                              *)
IsQuitting ==
  \/ program = "tracker" /\ stage = "run" /\ todo = standby
  \/ stage = "thrown"
  \/ gui \in {"closed", "failed", "thrown"}

QuitEnds == IsQuitting ~> at = "exited"

=============================================================================

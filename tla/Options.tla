------------------------------- MODULE Options ------------------------------
(***************************************************************************)
(* The options of the four programs, and what parsing makes of a command   *)
(* line and a response file: operators only.                               *)
(*                                                                         *)
(* An argument is the name of an option and its value; a switch has none.  *)
(* Values are numbers, addresses among them. A response file is missing,   *)
(* cannot be read, or has arguments. boost's parsing of words, and the     *)
(* wording of help and messages, are left out.                             *)
(***************************************************************************)
EXTENDS Integers, Sequences

NoValue == 0
Bad     == -1    \* text where a number is expected, or nothing

Argument(name, value) == [name |-> name, value |-> value]

File(state, args) == [state |-> state, args |-> args]

(* The port of common/Rckam.hpp. *)
dataPort    == 12345

Switches == {"help", "help-md", "help-defaults", "version"}

(* The options of every program; the others have a default, or must be     *)
(* there.                                                                  *)
CommonOptions == [defaults |-> <<>>, required |-> {}]

ServerOptions == [CommonOptions EXCEPT !.defaults = [port |-> 11005]]

(* Channels of the ADC, and GPIO pins by their BCM numbers. *)
TrackerOptions == [CommonOptions EXCEPT !.defaults =
  [switchChannel |-> 7, vrxChannel |-> 6, vryChannel |-> 5,
   ain1 |-> 16, ain2 |-> 20, pwmA |-> 13, bin1 |-> 14, bin2 |-> 15,
   pwmB |-> 18, stby |-> 23, pwmFreq |-> 200,
   panA |-> 2, panB |-> 3, tiltA |-> 19, tiltB |-> 26]]

ClientOptions == [defaults |-> [n \in {"data-port"} |-> dataPort],
                  required |-> {"ip-address"}]

(* The Qt client has a copy of them. *)
QtOptions == [defaults |-> [n \in {"data-port"} |-> dataPort],
              required |-> {"ip-address"}]

-----------------------------------------------------------------------------
(* Parsing: what is given is a function from options to values. *)

Nothing == <<>>

Known(options) == Switches \cup {"response-file"} \cup options.required
                    \cup DOMAIN options.defaults

Names(args) == {args[i].name : i \in DOMAIN args}

ValueIn(args, name) ==
  args[CHOOSE i \in DOMAIN args : args[i].name = name].value

(* boost::program_options throws: an option nobody knows, or one that is   *)
(* to be stored and is there twice or has no value it could have.          *)
IsRefused(options, args, given) ==
  \/ ~(Names(args) \subseteq Known(options))
  \/ \E i, j \in DOMAIN args :
       /\ args[i].name \notin DOMAIN given
       /\ args[i].value = Bad \/ (i # j /\ args[i].name = args[j].name)

(* What was stored last counts. *)
StoreLast(args, given) ==
  [n \in DOMAIN given \cup Names(args) |->
     IF n \in Names(args) THEN ValueIn(args, n) ELSE given[n]]

(* store: what was stored first stays. *)
Store(args, given) ==
  [n \in DOMAIN given \cup Names(args) |->
     IF n \in DOMAIN given THEN given[n] ELSE ValueIn(args, n)]

(* Options::parse, on what was stored: its result, and what is given. *)
ActionOf(given) ==
  IF DOMAIN given \cap {"help", "help-md", "help-defaults"} # {} THEN "HELP"
  ELSE IF "version" \in DOMAIN given THEN "VERSION"
  ELSE "RUN"

(* A response file named in the response file is not read. What is required *)
(* is required of those who ask for help, too: notify comes first.         *)
Parse(options, args, file) ==
  LET first   == Store(args, Nothing)
      hasFile == "response-file" \in DOMAIN first
      given   == IF hasFile THEN Store(file.args, first) ELSE first
      aborts  == \/ IsRefused(options, args, Nothing)
                 \/ hasFile /\ file.state \in {"missing", "unreadable"}
                 \/ hasFile /\ IsRefused(options, file.args, first)
                 \/ ~(options.required \subseteq DOMAIN given)
  IN  IF aborts THEN [action |-> "ABORT", given |-> Nothing]
      ELSE [action |-> ActionOf(given), given |-> given]

(* The server and the tracker have each a copy of parse, which differs in  *)
(* where it keeps the version switch; the clients call the common one.     *)
ServerParse(args, file)  == Parse(ServerOptions, args, file)
TrackerParse(args, file) == Parse(TrackerOptions, args, file)
ClientParse(args, file)  == Parse(ClientOptions, args, file)
QtParse(args, file)      == Parse(QtOptions, args, file)

(* The members that hold the options, once notified. *)
ValueOf(options, given, name) ==
  IF name \in DOMAIN given THEN given[name] ELSE options.defaults[name]

-----------------------------------------------------------------------------
(* What usage prints: the defaults, or the options in one of two formats. *)

Usage(given) ==
  CASE "help-defaults" \in DOMAIN given -> "defaults"
    [] "help-md" \in DOMAIN given       -> "markdown"
    [] OTHER                            -> "text"

ServerUsage(given)  == Usage(given)
TrackerUsage(given) == Usage(given)

(* The width of a line of help, and of what is left to the description of  *)
(* an option, in a format and on a terminal of some columns; what is no    *)
(* terminal has none. As unsigned numbers, which these never leave.        *)
DefaultLine == 80
MARKDOWN_LINE_LENGTH == 120

TerminalColumns(terminal) ==
  IF terminal = {} THEN DefaultLine ELSE CHOOSE c \in terminal : TRUE

HelpLine(format, terminal) ==
  LET columns == TerminalColumns(terminal)
  IN  CASE format = "markdown" ->
             [line |-> MARKDOWN_LINE_LENGTH - 2,
              description |-> MARKDOWN_LINE_LENGTH - 52]
        [] format = "text" /\ columns < 50 ->
             [line |-> DefaultLine, description |-> DefaultLine \div 2]
        [] OTHER -> [line |-> columns, description |-> columns - 50]

=============================================================================

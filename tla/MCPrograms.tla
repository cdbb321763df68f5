----------------------------- MODULE MCPrograms -----------------------------
(* Instances of Programs for TLC.                                          *)
EXTENDS Programs

(* Three devices of two cards: video0 and v4l-subdev0 on one bus, video1   *)
(* on the other in between; and one which is none of video4linux.          *)
MCDevices ==
  { [type |-> 1, num |-> 0, major |-> 81, answers |-> "v4l2",  bus |-> "a", card |-> "A"],
    [type |-> 1, num |-> 1, major |-> 81, answers |-> "v4l2",  bus |-> "b", card |-> "B"],
    [type |-> 2, num |-> 0, major |-> 81, answers |-> "media", bus |-> "a", card |-> "a"],
    [type |-> 3, num |-> 0, major |-> 1,  answers |-> "neither", bus |-> "c", card |-> "c"] }

MCReadings == {0, 396, 397, 512, 627, 628, 1023}

(* An image of one byte, one of none, and one of two. *)
MCSizes == <<1, 0, 2>>

Switch(name) == Argument(name, NoValue)

Own(name) ==
  CASE name = "server"  -> {Argument("port", 1), Argument("port", Bad)}
    [] name = "tracker" -> {Argument("switchChannel", 0),
                            Argument("switchChannel", 8), Argument("ain1", Bad)}
    [] OTHER -> {Argument("ip-address", 1), Argument("ip-address", 2),
                 Argument("data-port", 1)}

Response == Argument("response-file", 1)

Arguments(name) == Own(name) \cup {Switch("help"), Switch("help-md"),
                                 Switch("version"), Switch("other")}

UpTo(n, set) == UNION {[1..k -> set] : k \in 0..n}

MCCommandLines ==
  [name \in ProgramNames |-> UpTo(2, Arguments(name) \cup {Response})]

MCResponseFiles ==
  [name \in ProgramNames |-> {File("there", lines) : lines \in UpTo(2, Arguments(name))}
      \cup {File("missing", <<>>), File("unreadable", <<>>)}]

(* The pins of the tracker are all different, unless options say otherwise. *)
TrackerPins == {"ain1", "ain2", "pwmA", "bin1", "bin2", "pwmB", "stby",
          "panA", "panB", "tiltA", "tiltB"}

ASSUME PinsDiffer ==
  \A p, q \in TrackerPins : TrackerOptions.defaults[p] = TrackerOptions.defaults[q] => p = q

(* What boost asserts of a description of options, for every terminal. *)
ASSUME HelpFits ==
  \A terminal \in {{}} \cup {{columns} : columns \in 0..300} :
    \A format \in {"text", "markdown"} :
      LET help == HelpLine(format, terminal)
      IN  help.description \in 0..(help.line - 2)

=============================================================================

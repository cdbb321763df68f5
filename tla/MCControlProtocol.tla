-------------------------- MODULE MCControlProtocol -------------------------
(* Instances of ControlProtocol for TLC: models and ports are one byte.    *)
EXTENDS ControlProtocol, TLC

CONSTANTS q1, q2

TwoQueries   == {q1, q2}
KnownModels  == {<<65>>}
KnownPorts   == {<<66>>}
OneAttached  == << << <<65>>, <<66>> >> >>

Selection == SELECT_CAMERA \o <<65, Tab, 66, 0>>

\* What Client::query sends; a selection whose command is repeated, which is
\* what it takes to be executed; half a command; and a probe followed by more
\* than the buffer can take. In pieces they also give a selection without a
\* port, one of an unknown model, a plain probe and an unknown command.
LongRequests ==
  {LIST_CAMERAS, SELECT_CAMERA \o Selection, <<2>>,
   ECHO_ONLY \o [i \in 1..7 |-> 1]}

\* One client sends any of them, the other a list request.
RequestsOf ==
  (q1 :> LongRequests) @@ (q2 :> {LIST_CAMERAS})

\* Both clients send a selection and its arguments.
SelectionsOf ==
  (q1 :> {Selection}) @@ (q2 :> {Selection})
=============================================================================

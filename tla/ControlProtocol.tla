--------------------------- MODULE ControlProtocol --------------------------
(***************************************************************************)
(* The control connection: Server::run, which accepts one TCP connection   *)
(* at a time, reads a command, executes it and answers, and Client::query, *)
(* which sends a command and waits for the answer for one second.          *)
(*                                                                         *)
(* Requests and answers are sequences of bytes, abstracted to a few values:*)
(* a command is two bytes long (four in the code), its number and a zero.  *)
(* The buffer the server reads into lives as long as run() and keeps what  *)
(* earlier connections left in it.  TCP delivers the bytes of a request in *)
(* order, in pieces of any size; a connection closed by the server while   *)
(* it holds unread bytes may be reset, which loses the answer.             *)
(***************************************************************************)
EXTENDS Camera, FiniteSets

CONSTANTS
  Queries,      \* the connections of the clients, one request each
  Requests,     \* what each of them may send
  BufferSize,   \* COMMAND_BUFFER_SIZE, 512
  Attached,     \* the cameras, a sequence of <<model, port>>
  None          \* no answer yet

ECHO_ONLY     == <<0, 0>>
LIST_CAMERAS  == <<2, 0>>
SELECT_CAMERA == <<3, 0>>
CommandSize   == 2

Tab  == 9
Junk == 255    \* a byte of whatever is in memory

ASSUME BufferAssumption == BufferSize \in Nat /\ BufferSize > CommandSize
ASSUME RequestsAssumption ==
  /\ DOMAIN Requests = Queries
  /\ \A q \in Queries : Requests[q] \subseteq Seq(Nat)
ASSUME AttachedAssumption == Attached \in Seq(Seq(Nat) \X Seq(Nat))

VARIABLES
  pc,          \* Server::run: "accept", "read", "available", "dispatch", "dead"
  backlog,     \* connections nobody has accepted yet
  serving,     \* the connection being served
  buffer,      \* the command buffer
  available,   \* number of bytes that followed the command
  query,       \* Client::query for each connection: "idle", "connected",
               \* "waiting", "closing" or "returned"
  request,     \* what the client sends
  written,     \* how much of it the client gave to its socket
  arrived,     \* how much of it has reached the server
  consumed,    \* how much of it the server has read
  reply,       \* the answer of the server
  closed,      \* the server has closed the connection
  pending,     \* the asynchronous read has not completed
  result       \* what query returned; an empty text if it failed

serverVars  == <<pc, backlog, serving, buffer, available>>
requestVars == <<request, written, arrived, consumed>>
replyVars   == <<reply, closed>>
clientVars  == <<query, pending, result>>
vars == <<serverVars, requestVars, replyVars, clientVars, cameraVars>>

Init ==
  /\ pc = "accept"
  /\ backlog = <<>>
  /\ serving = None
  /\ \E byte \in {0, Junk} : buffer = [i \in 1..BufferSize |-> byte]
  /\ available = 0
  /\ query = [q \in Queries |-> "idle"]
  /\ request \in [Queries -> UNION {Requests[q] : q \in Queries}]
  /\ \A q \in Queries : request[q] \in Requests[q]
  /\ written = [q \in Queries |-> 0]
  /\ arrived = [q \in Queries |-> 0]
  /\ consumed = [q \in Queries |-> 0]
  /\ reply = [q \in Queries |-> None]
  /\ closed = [q \in Queries |-> FALSE]
  /\ pending = [q \in Queries |-> FALSE]
  /\ result = [q \in Queries |-> None]
  /\ CameraInit

-----------------------------------------------------------------------------
(* The bytes of a connection, seen from the server. *)

Unread(q) == SubSeq(request[q], consumed[q] + 1, arrived[q])

(* The client's end is closed when query returns, and before that when it  *)
(* times out; the bytes written before arrive first.                       *)
Eof(q) == query[q] \in {"closing", "returned"} /\ arrived[q] = written[q]

(* A read puts bytes at the start of the buffer, whatever is there. *)
Fill(bytes) ==
  [i \in 1..BufferSize |-> IF i <= Len(bytes) THEN bytes[i] ELSE buffer[i]]

(* n bytes of memory from the one at position first of the buffer on. *)
Memory(first, n) ==
  [i \in 1..n |->
    IF first + i - 1 <= BufferSize THEN buffer[first + i - 1] ELSE Junk]

Command == Memory(1, CommandSize)

UpTo(byte, s) ==
  LET hits == {i \in DOMAIN s : s[i] = byte}
  IN  IF hits = {} THEN s
      ELSE SubSeq(s, 1, (CHOOSE i \in hits : \A j \in hits : i <= j) - 1)

(* parse: as many bytes as were available, from where arguments would be   *)
(* if the command were still in front of them, split at the tabs.          *)
Arguments == Memory(CommandSize + 1, available)

HasSecond == \E i \in DOMAIN Arguments : Arguments[i] = Tab

CString(s) == UpTo(0, s)

Model == CString(UpTo(Tab, Arguments))

Port ==
  CString(UpTo(Tab,
    SubSeq(Arguments, Len(UpTo(Tab, Arguments)) + 2, Len(Arguments))))

(* Answers are texts: a sequence of lines, each a sequence of fields. *)
Success      == << << <<2>> >> >>
Failure      == << << <<3>>, <<Junk>> >> >>
NotSupported == << << <<0, 1>> >> >>

ListText(cameras) ==
  [i \in 1..Len(cameras) |-> << <<i - 1>>, cameras[i][1], cameras[i][2]>>]

-----------------------------------------------------------------------------
(* Server::run *)

Accept ==
  /\ pc = "accept"
  /\ backlog # <<>>
  /\ serving' = Head(backlog)
  /\ backlog' = Tail(backlog)
  /\ pc' = "read"
  /\ UNCHANGED <<buffer, available, requestVars, replyVars, clientVars,
                 cameraVars>>

(* The socket is destroyed at the end of the loop's body. *)
Hangup ==
  /\ closed' = [closed EXCEPT ![serving] = TRUE]
  /\ pc' = "accept"

ReadCommand ==
  /\ pc = "read"
  /\ Len(Unread(serving)) >= CommandSize
  /\ buffer' = Fill(SubSeq(Unread(serving), 1, CommandSize))
  /\ consumed' = [consumed EXCEPT ![serving] = CommandSize]
  /\ pc' = "available"
  /\ UNCHANGED <<backlog, serving, available, request, written, arrived,
                 replyVars, clientVars, cameraVars>>

(* A short message, not refused. *)
ReadShortUnchecked ==
  /\ pc = "read"
  /\ Len(Unread(serving)) < CommandSize
  /\ Eof(serving)
  /\ buffer' = Fill(Unread(serving))
  /\ consumed' = [consumed EXCEPT ![serving] = arrived[serving]]
  /\ pc' = "available"
  /\ UNCHANGED <<backlog, serving, available, request, written, arrived,
                 replyVars, clientVars, cameraVars>>

(* A short message that waits for more. *)
ReadShortBlocks ==
  /\ pc = "read"
  /\ Len(Unread(serving)) < CommandSize
  /\ Eof(serving)
  /\ UNCHANGED vars

(* The client has closed before a whole command: give up. *)
ReadShort ==
  /\ pc = "read"
  /\ Len(Unread(serving)) < CommandSize
  /\ Eof(serving)
  /\ buffer' = Fill(Unread(serving))
  /\ consumed' = [consumed EXCEPT ![serving] = arrived[serving]]
  /\ Hangup
  /\ UNCHANGED <<backlog, serving, available, request, written, arrived,
                 reply, clientVars, cameraVars>>

(* More than the buffer can take is read like anything else. *)
ReadMoreUnchecked ==
  /\ pc = "available"
  /\ available' = Len(Unread(serving))
  /\ buffer' = Fill(Unread(serving))
  /\ consumed' = [consumed EXCEPT ![serving] = arrived[serving]]
  /\ pc' = "dispatch"
  /\ UNCHANGED <<backlog, serving, request, written, arrived, replyVars,
                 clientVars, cameraVars>>

(* Whatever has arrived by now is read too, to the start of the buffer. *)
ReadMore ==
  /\ pc = "available"
  /\ Len(Unread(serving)) <= BufferSize
  /\ available' = Len(Unread(serving))
  /\ buffer' = Fill(Unread(serving))
  /\ consumed' = [consumed EXCEPT ![serving] = arrived[serving]]
  /\ pc' = "dispatch"
  /\ UNCHANGED <<backlog, serving, request, written, arrived, replyVars,
                 clientVars, cameraVars>>

(* More than the buffer can take: what fits is read, and given up. *)
ReadTooMuch ==
  /\ pc = "available"
  /\ Len(Unread(serving)) > BufferSize
  /\ buffer' = Fill(SubSeq(Unread(serving), 1, BufferSize))
  /\ consumed' = [consumed EXCEPT ![serving] = consumed[serving] + BufferSize]
  /\ Hangup
  /\ UNCHANGED <<backlog, serving, available, request, written, arrived,
                 reply, clientVars, cameraVars>>

(* sendResponse; an error, from a client that has gone, is only logged. *)
Respond(text) ==
  /\ pc = "dispatch"
  /\ reply' = [reply EXCEPT ![serving] = text]
  /\ Hangup
  /\ UNCHANGED <<backlog, serving, buffer, available, requestVars, clientVars>>

EchoOnly ==
  /\ Command = ECHO_ONLY
  /\ Respond(<< <<Memory(1, CommandSize + available)>> >>)
  /\ UNCHANGED cameraVars

(* cameraList_ is assigned a copy of a list that is freed at once, and the *)
(* answer is put together from the freed list: with a camera in it, the    *)
(* names read may be anything. Only a failure to create the list throws.   *)
ListCameras ==
  /\ Command = LIST_CAMERAS
  /\ \/ Respond(Failure)
     \/ \E n \in 0..Len(Attached) : Respond(ListText(SubSeq(Attached, 1, n)))
     \/ \E n \in 1..Len(Attached) :
          Respond([i \in 1..n |-> << <<i - 1>>, <<Junk>>, <<Junk>> >>])
  /\ UNCHANGED cameraVars

(* Or the process is killed; so it is when autodetection fails. *)
ListCrashes ==
  /\ pc = "dispatch"
  /\ Command = LIST_CAMERAS
  /\ pc' = "dead"
  /\ UNCHANGED <<backlog, serving, buffer, available, requestVars, replyVars,
                 clientVars, cameraVars>>

Select ==
  /\ Command = SELECT_CAMERA
  /\ HasSecond
  /\ Respond(Success)
  /\ SelectCamera(Model, Port)

SelectFails ==
  /\ Command = SELECT_CAMERA
  /\ HasSecond
  /\ Respond(Failure)
  /\ SelectCameraThrows(Model)

(* arguments.at(1) throws. *)
SelectWithoutPort ==
  /\ Command = SELECT_CAMERA
  /\ ~HasSecond
  /\ Respond(Failure)
  /\ UNCHANGED cameraVars

Unsupported ==
  /\ Command \notin {ECHO_ONLY, LIST_CAMERAS, SELECT_CAMERA}
  /\ Respond(NotSupported)
  /\ UNCHANGED cameraVars

ServerNext ==
  \/ Accept \/ ReadCommand \/ ReadShort \/ ReadMore \/ ReadTooMuch
  \/ EchoOnly \/ ListCameras \/ ListCrashes
  \/ Select \/ SelectFails \/ SelectWithoutPort \/ Unsupported

-----------------------------------------------------------------------------
(* The network. *)

Deliver(q) ==
  /\ arrived[q] < written[q]
  /\ arrived' = [arrived EXCEPT ![q] = @ + 1]
  /\ UNCHANGED <<serverVars, request, written, consumed, replyVars, clientVars,
                 cameraVars>>

-----------------------------------------------------------------------------
(* Client::query *)

Return(q, text) ==
  /\ query' = [query EXCEPT ![q] = "returned"]
  /\ pending' = [pending EXCEPT ![q] = FALSE]
  /\ result' = [result EXCEPT ![q] = text]

Connect(q) ==
  /\ query[q] = "idle"
  /\ pc # "dead"
  /\ backlog' = Append(backlog, q)
  /\ query' = [query EXCEPT ![q] = "connected"]
  /\ UNCHANGED <<pc, serving, buffer, available, requestVars, replyVars,
                 pending, result, cameraVars>>

(* connect or write fails. *)
ConnectFails(q) ==
  /\ query[q] \in {"idle", "connected"}
  /\ Return(q, <<>>)
  /\ UNCHANGED <<serverVars, requestVars, replyVars, cameraVars>>

(* write, then async_read. *)
Send(q) ==
  /\ query[q] = "connected"
  /\ written' = [written EXCEPT ![q] = Len(request[q])]
  /\ query' = [query EXCEPT ![q] = "waiting"]
  /\ pending' = [pending EXCEPT ![q] = TRUE]
  /\ UNCHANGED <<serverVars, request, arrived, consumed, replyVars, result,
                 cameraVars>>

(* The connection has ended: the read completes, with the answer unless    *)
(* the server died or bytes it never read have reset the connection.       *)
ReadCompletes(q) ==
  /\ query[q] \in {"waiting", "closing"}
  /\ \/ closed[q] /\ reply[q] # None /\ Return(q, reply[q])
     \/ closed[q] /\ (reply[q] = None \/ consumed[q] < written[q])
          /\ Return(q, <<>>)
     \/ pc = "dead" /\ ~closed[q] /\ Return(q, <<>>)
  /\ UNCHANGED <<serverVars, requestVars, replyVars, cameraVars>>

(* The second is over, and the pending read forgotten. *)
TimeoutReturns(q) ==
  /\ query[q] = "waiting"
  /\ query' = [query EXCEPT ![q] = "returned"]
  /\ result' = [result EXCEPT ![q] = <<>>]
  /\ UNCHANGED <<serverVars, requestVars, replyVars, pending, cameraVars>>

(* The second is over, and nothing happens. *)
TimeoutIgnored(q) ==
  /\ query[q] = "waiting"
  /\ UNCHANGED vars

(* The second is over: close the socket, which cancels the read. *)
Timeout(q) ==
  /\ query[q] = "waiting"
  /\ query' = [query EXCEPT ![q] = "closing"]
  /\ UNCHANGED <<serverVars, requestVars, replyVars, pending, result,
                 cameraVars>>

(* run() until the cancelled read completes; it may have completed with    *)
(* the answer just before.                                                 *)
Cancelled(q) ==
  /\ query[q] = "closing"
  /\ Return(q, <<>>)
  /\ UNCHANGED <<serverVars, requestVars, replyVars, cameraVars>>

ClientStep(q) ==
  Send(q) \/ ReadCompletes(q) \/ Timeout(q) \/ Cancelled(q)

ClientNext ==
  \E q \in Queries : Connect(q) \/ ConnectFails(q) \/ ClientStep(q)

-----------------------------------------------------------------------------
Next == ServerNext \/ ClientNext \/ \E q \in Queries : Deliver(q)

Spec == Init /\ [][Next]_vars

(* The server thread runs, TCP delivers what was written, time passes and  *)
(* a connected client goes on to send and, after a second, to give up, as  *)
(* query does. Nothing is assumed of failures.                             *)
Fairness ==
  /\ WF_vars(ServerNext)
  /\ \A q \in Queries :
       /\ WF_vars(Deliver(q))
       /\ WF_vars(ClientStep(q))

FairSpec == Spec /\ Fairness

-----------------------------------------------------------------------------
Texts == Seq(Seq(Seq(Nat)))

(* The variables keep their types: the buffer keeps its size, and no more  *)
(* bytes arrive or are read than were written.                             *)
TypeOK ==
  /\ pc \in {"accept", "read", "available", "dispatch", "dead"}
  /\ backlog \in Seq(Queries)
  /\ serving \in Queries \union {None}
  /\ buffer \in [1..BufferSize -> Nat]
  /\ available \in 0..BufferSize
  /\ query \in [Queries ->
                 {"idle", "connected", "waiting", "closing", "returned"}]
  /\ request \in [Queries -> Seq(Nat)]
  /\ written \in [Queries -> Nat]
  /\ arrived \in [Queries -> Nat]
  /\ consumed \in [Queries -> Nat]
  /\ \A q \in Queries :
       /\ request[q] \in Requests[q]
       /\ written[q] \in 0..Len(request[q])
       /\ arrived[q] \in 0..written[q]
       /\ consumed[q] \in 0..arrived[q]
  /\ reply \in [Queries -> Texts \union {None}]
  /\ closed \in [Queries -> BOOLEAN]
  /\ pending \in [Queries -> BOOLEAN]
  /\ result \in [Queries -> Texts \union {None}]
  /\ abilitiesList \in Lists
  /\ portInfoList \in Lists

(* A command is executed only for a connection that sent a whole one, and  *)
(* it is put together from the bytes of that connection: what an earlier   *)
(* connection left in the shared buffer is never taken for a command.      *)
CommandIsOwn ==
  pc = "dispatch" =>
    LET read == SubSeq(request[serving], 1, consumed[serving]) IN
    /\ Len(read) >= CommandSize
    /\ \A i \in 1..CommandSize : \E j \in DOMAIN read : Command[i] = read[j]
    /\ available = 0 => Command = SubSeq(read, 1, CommandSize)

(* query's completion handler refers to its local variables: the read has  *)
(* completed, or its cancellation has, before query returns.               *)
NoDanglingHandler ==
  \A q \in Queries : query[q] = "returned" => ~pending[q]

(* A query returns within its second, whatever the server does: also when  *)
(* the server is waiting for the rest of a request, and so for the client. *)
QueryReturns ==
  \A q \in Queries : query[q] = "connected" ~> query[q] = "returned"

(* A client that is slow or sends too little holds up the single-threaded  *)
(* server only until it gives up: every connection in the backlog is served*)
(* and closed, unless the server dies.                                     *)
BacklogIsServed ==
  \A q \in Queries :
    (\E i \in DOMAIN backlog : backlog[i] = q) ~> (closed[q] \/ pc = "dead")

(* Server.hpp:43 says that run() will "dispatch the client commands": the  *)
(* command executed is the one the client sent.                            *)
CommandIsDispatched ==
  pc = "dispatch" => Command = SubSeq(request[serving], 1, CommandSize)

=============================================================================

------------------------------ MODULE QtClient ------------------------------
(***************************************************************************)
(* client-qt5: the older client, which reads previews from a TCP socket.   *)
(*                                                                         *)
(* rckamGui loads the window, connects the ImageLoader and lets Qt run     *)
(* until the window is closed; what it constructed it then destroys the    *)
(* other way round. Meanwhile the reader thread saves each image that      *)
(* comes to a file of its own in /tmp, and shows the user the file it has  *)
(* read at its start.                                                      *)
(*                                                                         *)
(* The server at the other end, which this repository no longer has, sends *)
(* images, each after its size, and closes. TCP delivers what it sent in   *)
(* order and in pieces: of a size two, of an image one byte at a time.     *)
(***************************************************************************)
EXTENDS Integers, Sequences, SequencesExt

CONSTANT Sizes   \* of the images the server sends, one after the other

ASSUME SizesAssumption == Sizes \in Seq(Nat)

VARIABLES
  gui,        \* what the main thread does in rckamGui
  window,     \* the engine, and the preview in it, exist
  stop,       \* stop_
  reader,     \* where the reader thread is
  socket,     \* the pieces that have come and have not been read
  coming,     \* the piece that the server sends next
  count,      \* how many pieces the reader is to read
  buffer,     \* receive_buffer
  files,      \* /tmp/preview0000.jpg, 0001 and so on, as far as they exist
  saved       \* i, the number of images saved

readVars == <<socket, count, buffer>>

qtVars == <<gui, window, stop, reader, readVars, coming, files, saved>>

(* A piece is that of an image, numbered from 1: byte b of it, and before  *)
(* the bytes -1 and 0, the two pieces of its size.                         *)
Piece(i, b) == [image |-> i, byte |-> b]

Image(i) == [b \in 1..Sizes[i] |-> Piece(i, b)]

(* The server sends the pieces of one image after those of the other.      *)
After(piece) ==
  IF piece.byte = Sizes[piece.image] THEN Piece(piece.image + 1, -1)
  ELSE Piece(piece.image, piece.byte + 1)

End == Piece(Len(Sizes) + 1, -1)

OldFile == << Piece(0, 1) >>

QtInit ==
  /\ gui = "engine"
  /\ window = FALSE
  /\ stop = FALSE
  /\ reader = "none"
  /\ socket = <<>>
  /\ coming = Piece(1, -1)
  /\ count = 0
  /\ buffer = <<>>
  /\ files \in { <<>>, << OldFile >> }
  /\ saved = 0

-----------------------------------------------------------------------------
(* rckamGui. *)

LoadEngine ==
  /\ gui = "engine"
  /\ window' = TRUE
  /\ gui' = "start"
  /\ UNCHANGED <<stop, reader, readVars, coming, files, saved>>

(* ImageLoader::start: connects, and starts the thread. *)
start ==
  /\ gui = "start"
  /\ reader' = "read file"
  /\ gui' = "exec"
  /\ UNCHANGED <<window, stop, readVars, coming, files, saved>>

(* The window, or the preview in it, is not found, or connect fails. *)
CannotStart ==
  /\ gui \in {"engine", "start"}
  /\ window' = TRUE
  /\ gui' = "thrown"
  /\ UNCHANGED <<stop, reader, readVars, coming, files, saved>>

(* The user closes the window, and exec returns 0, or something else. *)
Closes ==
  /\ gui = "exec"
  /\ gui' \in {"closed", "failed"}
  /\ UNCHANGED <<window, stop, reader, readVars, coming, files, saved>>

(* ~ImageLoader. *)
StopsLoader ==
  /\ gui \in {"closed", "failed"}
  /\ stop' = TRUE
  /\ gui' = IF gui = "closed" THEN "join" ELSE "join, failed"
  /\ UNCHANGED <<window, reader, readVars, coming, files, saved>>

(* The thread is left alone. *)
DoesNotJoin ==
  /\ gui \in {"join", "join, failed"}
  /\ gui' = IF gui = "join" THEN "returned" ELSE "thrown"
  /\ UNCHANGED <<window, stop, reader, readVars, coming, files, saved>>

Joins ==
  /\ gui \in {"join", "join, failed"}
  /\ reader = "ended"
  /\ gui' = IF gui = "join" THEN "returned" ELSE "thrown"
  /\ UNCHANGED <<window, stop, reader, readVars, coming, files, saved>>

(* ~QQmlApplicationEngine, which is constructed before the loader. *)
DestroysEngine ==
  /\ gui \in {"returned", "thrown"} /\ window
  /\ window' = FALSE
  /\ UNCHANGED <<gui, stop, reader, readVars, coming, files, saved>>

guiStep == LoadEngine \/ start \/ StopsLoader \/ Joins \/ DestroysEngine

-----------------------------------------------------------------------------
(* ImageLoader::read, on the thread. An exception ends in readWrapper, and *)
(* threadException_ is never looked at.                                    *)

readerUnchanged == UNCHANGED <<gui, window, stop, coming>>

(* The file of an earlier run is read before anything else; without it     *)
(* file_size throws, and there are no previews at all.                     *)
ReadFile ==
  /\ reader = "read file"
  /\ reader' = IF files = <<>> THEN "ended" ELSE "test"
  /\ UNCHANGED <<readVars, files, saved>> /\ readerUnchanged

TestStop ==
  /\ reader = "test"
  /\ reader' = IF stop THEN "ended" ELSE "size"
  /\ count' = 2 /\ buffer' = <<>>
  /\ UNCHANGED <<socket, files, saved>> /\ readerUnchanged

Reading == reader \in {"size", "image"}

(* A read returns with what there is. *)
HasReadSome == buffer # <<>> \/ count = 0

(* transfer_exactly: a read returns when it has count pieces. *)
HasRead == Len(buffer) = count

Takes ==
  /\ Reading /\ ~HasRead /\ socket # <<>>
  /\ buffer' = Append(buffer, Head(socket))
  /\ socket' = Tail(socket)
  /\ UNCHANGED <<reader, count, files, saved>> /\ readerUnchanged

(* An error is retried, whether or not the reader is to stop. *)
EndOfFileRetried ==
  /\ Reading /\ ~HasRead /\ socket = <<>> /\ coming = End
  /\ UNCHANGED qtVars

(* The server has closed before all was there: an exception. *)
EndOfFile ==
  /\ Reading /\ ~HasRead /\ socket = <<>> /\ coming = End
  /\ reader' = "ended"
  /\ UNCHANGED <<readVars, files, saved>> /\ readerUnchanged

(* The size is that of the image whose pieces these are. *)
ReadSize ==
  /\ reader = "size" /\ HasRead
  /\ reader' = "image"
  /\ count' = Sizes[Last(buffer).image]
  /\ buffer' = <<>>
  /\ UNCHANGED <<socket, files, saved>> /\ readerUnchanged

(* The first image replaces the file that was read. *)
Save ==
  /\ reader = "image" /\ HasRead
  /\ reader' = "show"
  /\ files' = IF saved < Len(files) THEN [files EXCEPT ![saved + 1] = buffer]
              ELSE Append(files, buffer)
  /\ saved' = saved + 1
  /\ UNCHANGED readVars /\ readerUnchanged

(* loadFromData, of the file that was read at the start, and a sleep. *)
Shows ==
  /\ reader = "show"
  /\ reader' = "test"
  /\ UNCHANGED <<readVars, files, saved>> /\ readerUnchanged

readerStep ==
  ReadFile \/ TestStop \/ Takes \/ EndOfFile \/ ReadSize \/ Save \/ Shows

-----------------------------------------------------------------------------
(* The server and the network. *)

Arrives ==
  /\ coming # End
  /\ socket' = Append(socket, coming)
  /\ coming' = After(coming)
  /\ UNCHANGED <<gui, window, stop, reader, count, buffer, files, saved>>

(* The server, or the connection, goes away. *)
Breaks ==
  /\ coming # End
  /\ coming' = End
  /\ UNCHANGED <<gui, window, stop, reader, readVars, files, saved>>

-----------------------------------------------------------------------------
Pieces == UNION {{Piece(i, b) : b \in -1..Sizes[i]} : i \in DOMAIN Sizes}

QtTypeOK ==
  /\ gui \in {"engine", "start", "exec", "closed", "failed", "join",
              "join, failed", "returned", "thrown"}
  /\ {window, stop} \subseteq BOOLEAN
  /\ reader \in {"none", "read file", "test", "size", "image", "show", "ended"}
  /\ {socket, buffer} \subseteq Seq(Pieces) /\ coming \in Pieces \cup {End}
  /\ count \in Nat /\ saved \in 0..Len(files)
  /\ ToSet(files) \subseteq {OldFile} \cup Seq(Pieces)

(* ImageLoader::read: however TCP cuts the stream, and wherever it breaks, *)
(* each file the reader has written holds the bytes of one image, and the  *)
(* files are the images in the order they were sent.                       *)
SavedAsSent == \A k \in 1..saved : files[k] = Image(k)

(* rckamGui: the preview a reader is about to draw into exists, whenever   *)
(* the window is closed, because the loader is destroyed, and its thread   *)
(* joined, before the engine.                                              *)
PreviewOutlivesReader == reader \notin {"none", "ended"} => window

=============================================================================

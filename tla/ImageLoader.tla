----------------------------- MODULE ImageLoader ----------------------------
(***************************************************************************)
(* client/ImageLoader: the two threads that bring preview images from the  *)
(* data socket to the widget, and the GUI thread that starts, stops and    *)
(* destroys them.                                                          *)
(*                                                                         *)
(*   readPreviews  fills the empty buffer it is at, then moves on;         *)
(*   setPreviews   shows the full buffer it is at, then moves on;          *)
(*   GUI           runs MainWindow's toggle handler and destructors.       *)
(*                                                                         *)
(* Each buffer has a mutex, a condition variable and an "empty" flag.      *)
(* condition_variable::wait(lock, predicate) is the loop the library       *)
(* defines: test the predicate with the mutex held, release-and-sleep      *)
(* atomically, re-acquire, test again; a sleeper may wake spuriously.      *)
(* stop_ is a plain bool that the loops read without mutex_; every read is *)
(* a step of its own here, so each may see the value before or after the   *)
(* GUI thread's write.  mutex_ is taken by start and stop only, both on    *)
(* the GUI thread, so it never blocks anyone and is left out.              *)
(***************************************************************************)
EXTENDS Naturals, Sequences

CONSTANT MaxImages    \* bound: complete images the server sends

ASSUME MaxImagesAssumption == MaxImages \in Nat

Reader  == "readPreviews"
Setter  == "setPreviews"
Threads == {Reader, Setter}
Buffers == {0, 1}
Free    == "free"     \* a mutex nobody holds
Partial == 0          \* a buffer holding no image, or part of one

VARIABLES
  gui,          \* control point of the GUI thread
  caller,       \* who called stop(): the toggle, ~MainWindow or ~ImageLoader
  joinable,     \* std::thread::joinable() of the two thread handles
  socketOpen,   \* the data socket has been opened
  stop,         \* stop_
  pc,           \* control point of each loader thread
  index,        \* the buffer each loader thread is at
  owner,        \* mutexes_: the thread holding each of them
  buffersEmpty, \* buffersEmpty_
  buffers,      \* buffers_: the number of the image in each of them
  received,     \* images completely received from the socket
  shown         \* the images given to ImagePreview::set, in order

threadVars == <<pc, index, owner, buffersEmpty, buffers, received, shown>>
guiVars    == <<gui, caller, joinable, socketOpen, stop>>
vars       == <<guiVars, threadVars>>

GuiPoints == {"event loop", "spawn reader", "spawn setter", "stop", "notify 0",
              "notify 1", "join reader", "join setter", "exited", "aborted"}
Callers   == {"toggle", "~MainWindow", "~ImageLoader"}

(* Control points at which a loader thread holds the mutex of its buffer. *)
Critical  == {"test", "block", "check", "work", "publish"}
ThreadPoints == {"none", "loop", "lock", "sleep", "ended"} \union Critical

Init ==
  /\ gui = "event loop"
  /\ caller = "toggle"
  /\ joinable = [t \in Threads |-> FALSE]
  /\ socketOpen = FALSE
  /\ stop = TRUE
  /\ pc = [t \in Threads |-> "none"]
  /\ index = [t \in Threads |-> 0]
  /\ owner = [b \in Buffers |-> Free]
  /\ buffersEmpty = [b \in Buffers |-> TRUE]
  /\ buffers = [b \in Buffers |-> Partial]
  /\ received = 0
  /\ shown = <<>>

OtherBufferUnwrapped(b) == b + 1

OtherBuffer(b) == (b + 1) % 2

(* A reader that does not wait for its buffer to be shown. *)
ReadyReaderAlways(t) == t = Reader \/ ~buffersEmpty[index[t]]

(* What thread t waits for at its buffer: the reader an empty one, the     *)
(* setter a full one.                                                      *)
Ready(t) == buffersEmpty[index[t]] = (t = Reader)

(* isRunning as its comment describes it. *)
isExecuting == \E t \in Threads : joinable[t] /\ pc[t] # "ended"

isRunning == \E t \in Threads : joinable[t]

(* The control points once the threads sleeping on buffer b's condition    *)
(* variable have been notified.  At most one thread sleeps there when the  *)
(* other one notifies, so notify_one and notify_all are the same.          *)
Woken(b) == [t \in Threads |->
              IF pc[t] = "sleep" /\ index[t] = b THEN "lock" ELSE pc[t]]

-----------------------------------------------------------------------------
(* The loader threads.  Both loops have the same frame. *)

(* while (!stop_) *)
Enter(t) ==
  /\ pc[t] = "loop"
  /\ ~stop
  /\ pc' = [pc EXCEPT ![t] = "lock"]
  /\ UNCHANGED <<guiVars, index, owner, buffersEmpty, buffers, received, shown>>

Leave(t) ==
  /\ pc[t] = "loop"
  /\ stop
  /\ pc' = [pc EXCEPT ![t] = "ended"]
  /\ UNCHANGED <<guiVars, index, owner, buffersEmpty, buffers, received, shown>>

(* wait entered without the mutex. *)
LockUnguarded(t) ==
  /\ pc[t] = "lock"
  /\ owner' = [owner EXCEPT ![index[t]] = t]
  /\ pc' = [pc EXCEPT ![t] = "test"]
  /\ UNCHANGED <<guiVars, index, buffersEmpty, buffers, received, shown>>

(* Take the mutex: entering wait, or back in it after waking up. *)
Lock(t) ==
  /\ pc[t] = "lock"
  /\ owner[index[t]] = Free
  /\ owner' = [owner EXCEPT ![index[t]] = t]
  /\ pc' = [pc EXCEPT ![t] = "test"]
  /\ UNCHANGED <<guiVars, index, buffersEmpty, buffers, received, shown>>

(* The predicate of wait: the buffer is ready, or stop_. *)
Test(t) ==
  /\ pc[t] = "test"
  /\ pc' = [pc EXCEPT ![t] = IF Ready(t) \/ stop THEN "check" ELSE "block"]
  /\ UNCHANGED <<guiVars, index, owner, buffersEmpty, buffers, received, shown>>

(* A wait that sleeps with the mutex held. *)
BlockHoldingMutex(t) ==
  /\ pc[t] = "block"
  /\ pc' = [pc EXCEPT ![t] = "sleep"]
  /\ UNCHANGED <<guiVars, index, owner, buffersEmpty, buffers, received, shown>>

(* The predicate was false: release the mutex and sleep, in one step. *)
Block(t) ==
  /\ pc[t] = "block"
  /\ owner' = [owner EXCEPT ![index[t]] = Free]
  /\ pc' = [pc EXCEPT ![t] = "sleep"]
  /\ UNCHANGED <<guiVars, index, buffersEmpty, buffers, received, shown>>

SpuriousWakeup(t) ==
  /\ pc[t] = "sleep"
  /\ pc' = [pc EXCEPT ![t] = "lock"]
  /\ UNCHANGED <<guiVars, index, owner, buffersEmpty, buffers, received, shown>>

(* if (stop_) break; the lock is released at the end of the block. *)
Break(t) ==
  /\ pc[t] = "check"
  /\ stop
  /\ owner' = [owner EXCEPT ![index[t]] = Free]
  /\ pc' = [pc EXCEPT ![t] = "ended"]
  /\ UNCHANGED <<guiVars, index, buffersEmpty, buffers, received, shown>>

(* Handover without notify_one. *)
HandoverSilent(t) ==
  LET b == index[t] IN
  /\ pc[t] = "publish"
  /\ buffersEmpty' = [buffersEmpty EXCEPT ![b] = (t = Setter)]
  /\ index' = [index EXCEPT ![t] = OtherBuffer(b)]
  /\ owner' = [owner EXCEPT ![b] = Free]
  /\ pc' = [pc EXCEPT ![t] = "loop"]
  /\ UNCHANGED <<guiVars, buffers, received, shown>>

(* The end of an iteration: hand the buffer over, notify, move to the      *)
(* other buffer, and only then release the mutex.                          *)
Handover(t) ==
  LET b == index[t] IN
  /\ pc[t] = "publish"
  /\ buffersEmpty' = [buffersEmpty EXCEPT ![b] = (t = Setter)]
  /\ index' = [index EXCEPT ![t] = OtherBuffer(b)]
  /\ owner' = [owner EXCEPT ![b] = Free]
  /\ pc' = [Woken(b) EXCEPT ![t] = "loop"]
  /\ UNCHANGED <<guiVars, buffers, received, shown>>

(* readPreviews goes on to readPreview, which overwrites the buffer packet *)
(* by packet with the mutex held.                                          *)
BeginRead ==
  /\ pc[Reader] = "check"
  /\ ~stop
  /\ buffers' = [buffers EXCEPT ![index[Reader]] = Partial]
  /\ pc' = [pc EXCEPT ![Reader] = "work"]
  /\ UNCHANGED <<guiVars, index, owner, buffersEmpty, received, shown>>

(* readPreview returns with the next complete image. *)
ReadPreview ==
  /\ pc[Reader] = "work"
  /\ received < MaxImages
  /\ received' = received + 1
  /\ buffers' = [buffers EXCEPT ![index[Reader]] = received + 1]
  /\ pc' = [pc EXCEPT ![Reader] = "publish"]
  /\ UNCHANGED <<guiVars, index, owner, buffersEmpty, shown>>

(* setPreviews goes on to imagePreview_->set. *)
BeginSet ==
  /\ pc[Setter] = "check"
  /\ ~stop
  /\ pc' = [pc EXCEPT ![Setter] = "work"]
  /\ UNCHANGED <<guiVars, index, owner, buffersEmpty, buffers, received, shown>>

SetPreview ==
  /\ pc[Setter] = "work"
  /\ shown' = Append(shown, buffers[index[Setter]])
  /\ pc' = [pc EXCEPT ![Setter] = "publish"]
  /\ UNCHANGED <<guiVars, index, owner, buffersEmpty, buffers, received>>

(* readPreview or imagePreview_->set throws (a socket error, an image that *)
(* does not decode): unwinding releases the mutex, the wrapper keeps the   *)
(* exception and the thread ends without notifying anyone.                 *)
Throw(t) ==
  /\ pc[t] = "work"
  /\ owner' = [owner EXCEPT ![index[t]] = Free]
  /\ pc' = [pc EXCEPT ![t] = "ended"]
  /\ UNCHANGED <<guiVars, index, buffersEmpty, buffers, received, shown>>

-----------------------------------------------------------------------------
(* The GUI thread. *)

(* The toggle goes active and nothing is running: start opens the socket,  *)
(* sends a byte to the server, and prepares the shared state.              *)
Start ==
  /\ gui = "event loop"
  /\ ~isRunning
  /\ ~socketOpen
  /\ socketOpen' = TRUE
  /\ stop' = FALSE
  /\ buffersEmpty' = [b \in Buffers |-> TRUE]
  /\ gui' = "spawn reader"
  /\ UNCHANGED <<caller, joinable, pc, index, owner, buffers, received, shown>>

(* start throws: the socket is already open, or cannot be opened or        *)
(* written.  No handler catches it, and gtkmm aborts the program.          *)
StartFails ==
  /\ gui = "event loop"
  /\ ~isRunning
  /\ gui' = "aborted"
  /\ socketOpen' \in {socketOpen, TRUE}
  /\ UNCHANGED <<caller, joinable, stop, threadVars>>

(* A new thread's locals are fresh. *)
Spawn(t, next) ==
  /\ joinable' = [joinable EXCEPT ![t] = TRUE]
  /\ pc' = [pc EXCEPT ![t] = "loop"]
  /\ index' = [index EXCEPT ![t] = 0]
  /\ gui' = next
  /\ UNCHANGED <<caller, socketOpen, stop, owner, buffersEmpty, buffers,
                 received, shown>>

SpawnReader == gui = "spawn reader" /\ Spawn(Reader, "spawn setter")

SpawnSetter == gui = "spawn setter" /\ Spawn(Setter, "event loop")

(* The toggle goes inactive. *)
ToggleOff ==
  /\ gui = "event loop"
  /\ isRunning
  /\ gui' = "stop"
  /\ caller' = "toggle"
  /\ UNCHANGED <<joinable, socketOpen, stop, threadVars>>

(* The window is closed: ~MainWindow calls stop, ~ImageLoader again. *)
Quit ==
  /\ gui = "event loop"
  /\ gui' = "stop"
  /\ caller' = "~MainWindow"
  /\ UNCHANGED <<joinable, socketOpen, stop, threadVars>>

(* stop(): set the flag, notify each condition variable.  It holds mutex_, *)
(* but not the mutexes the waiting threads test stop_ under.               *)
StopSetFlag ==
  /\ gui = "stop"
  /\ stop' = TRUE
  /\ gui' = "notify 0"
  /\ UNCHANGED <<caller, joinable, socketOpen, threadVars>>

StopNotifyFirst ==
  /\ gui = "notify 0"
  /\ pc' = Woken(0)
  /\ gui' = "notify 1"
  /\ UNCHANGED <<caller, joinable, socketOpen, stop, index, owner,
                 buffersEmpty, buffers, received, shown>>

(* The second notification, and the return to whoever called stop. *)
StopNotifySecond ==
  /\ gui = "notify 1"
  /\ pc' = Woken(1)
  /\ \/ caller = "toggle" /\ gui' = "event loop" /\ UNCHANGED caller
     \/ caller = "~MainWindow" /\ gui' = "stop" /\ caller' = "~ImageLoader"
     \/ caller = "~ImageLoader" /\ gui' = "join reader" /\ UNCHANGED caller
  /\ UNCHANGED <<joinable, socketOpen, stop, index, owner, buffersEmpty,
                 buffers, received, shown>>

(* detach() in place of join(). *)
Detach(t, next) ==
  /\ joinable' = [joinable EXCEPT ![t] = FALSE]
  /\ gui' = next
  /\ UNCHANGED <<caller, socketOpen, stop, threadVars>>

(* if (thread.joinable()) thread.join(); *)
Join(t, next) ==
  /\ joinable[t] => pc[t] = "ended"
  /\ joinable' = [joinable EXCEPT ![t] = FALSE]
  /\ gui' = next
  /\ UNCHANGED <<caller, socketOpen, stop, threadVars>>

JoinReader == gui = "join reader" /\ Join(Reader, "join setter")

JoinSetter == gui = "join setter" /\ Join(Setter, "exited")

-----------------------------------------------------------------------------
(* Steps a running thread takes by itself. *)
ThreadStep(t) ==
  Enter(t) \/ Leave(t) \/ Test(t) \/ Block(t) \/ Break(t) \/ Handover(t)

WorkerNext ==
  \/ \E t \in Threads : ThreadStep(t) \/ Lock(t) \/ SpuriousWakeup(t) \/ Throw(t)
  \/ BeginRead \/ ReadPreview \/ BeginSet \/ SetPreview

(* Steps of the GUI thread inside a call. *)
GuiStep ==
  SpawnReader \/ SpawnSetter \/ StopSetFlag \/ StopNotifyFirst
    \/ StopNotifySecond \/ JoinReader \/ JoinSetter

GuiNext == Start \/ StartFails \/ ToggleOff \/ Quit \/ GuiStep

Next == WorkerNext \/ GuiNext

Spec == Init /\ [][Next]_vars

(* A runnable thread eventually runs, and a mutex released again and again *)
(* is eventually acquired.  Decoding an image returns.  Nothing is assumed *)
(* of the network, the user or spurious wakeups.                           *)
Fairness ==
  /\ \A t \in Threads : WF_vars(ThreadStep(t)) /\ SF_vars(Lock(t))
  /\ WF_vars(BeginRead) /\ WF_vars(BeginSet)
  /\ WF_vars(SetPreview \/ Throw(Setter))
  /\ WF_vars(GuiStep)

FairSpec == Spec /\ Fairness

-----------------------------------------------------------------------------
(* The variables keep their types: in particular the indexes stay inside   *)
(* the pairs of buffers, mutexes and condition variables.                  *)
TypeOK ==
  /\ gui \in GuiPoints
  /\ caller \in Callers
  /\ joinable \in [Threads -> BOOLEAN]
  /\ socketOpen \in BOOLEAN
  /\ stop \in BOOLEAN
  /\ pc \in [Threads -> ThreadPoints]
  /\ index \in [Threads -> Buffers]
  /\ owner \in [Buffers -> Threads \union {Free}]
  /\ buffersEmpty \in [Buffers -> BOOLEAN]
  /\ buffers \in [Buffers -> Nat]
  /\ received \in 0..MaxImages
  /\ shown \in Seq(Nat)

(* A thread works on a buffer, for as long as a network read or a decode   *)
(* takes, only while it holds the buffer's mutex and the flag says the     *)
(* buffer is its own.  So the reader never overwrites the image that the   *)
(* setter is showing.                                                      *)
WorkerOwnsBuffer ==
  \A t \in Threads :
    pc[t] \in {"work", "publish"} => owner[index[t]] = t /\ Ready(t)

(* The widget gets the images in order of arrival, none lost, repeated or  *)
(* half received, through any number of hand-overs between the two loops,  *)
(* which keep separate indexes into the pair of buffers.                   *)
ShownInOrder ==
  /\ Len(shown) <= received
  /\ \A k \in 1..Len(shown) : shown[k] = k

(* No thread sleeps on a buffer that is ready for it: the hand-over        *)
(* changes the flag and notifies under the mutex the waiter tests the flag *)
(* under, so, unlike the one of stop, its wakeup cannot be lost.           *)
NoSleepOnReadyBuffer ==
  \A t \in Threads : pc[t] = "sleep" => ~Ready(t)

(* The two loops never both sleep, each waiting for the other to hand it a *)
(* buffer: that takes the two private indexes to stay in step.             *)
NotBothAsleep == \E t \in Threads : pc[t] # "sleep"

(* The images handed over and not shown yet, oldest first, from the buffer *)
(* the setter shows next.                                                  *)
FirstUp ==
  IF pc[Setter] = "publish" THEN OtherBuffer(index[Setter]) ELSE index[Setter]

Waiting ==
  IF buffersEmpty[FirstUp] THEN <<>>
  ELSE IF pc[Setter] = "publish" \/ buffersEmpty[OtherBuffer(FirstUp)]
       THEN <<buffers[FirstUp]>>
       ELSE <<buffers[FirstUp], buffers[OtherBuffer(FirstUp)]>>

(* Images handed over by the reader. *)
Published == IF pc[Reader] = "publish" THEN received - 1 ELSE received

Handoff == INSTANCE PreviewHandoff WITH
  Capacity <- 2,
  produced <- Published,
  queue    <- Waiting,
  shown    <- shown

(* The two threads implement the abstract hand-off. *)
ImplementsHandoff == Handoff!Spec

(* The loader's mutexes and flags are destroyed after both threads are     *)
(* done with them: however the threads ended, by stop_ or by an exception, *)
(* no mutex is held once the destructor has returned.                      *)
QuietWhenDestroyed ==
  gui = "exited" =>
    /\ \A t \in Threads : pc[t] \in {"none", "ended"}
    /\ \A b \in Buffers : owner[b] = Free

(* Only the first start can bring the program down: socket_.open would     *)
(* throw on the second one, and isRunning, which stays true once a thread  *)
(* has been started, is what keeps the toggle from ever calling it.        *)
OnlyFirstStartFails ==
  [][gui' = "aborted" => gui = "aborted" \/ ~socketOpen]_vars

(* Every complete image is eventually shown, unless the stream is stopped  *)
(* or the setter has died.                                                 *)
ReceivedIsShown ==
  \A k \in 1..MaxImages :
    received >= k ~> (Len(shown) >= k \/ stop \/ pc[Setter] = "ended")

(* The reader always comes back to the socket for the next image, unless   *)
(* the stream is stopped or a thread has died.                             *)
ReaderComesBack ==
  pc[Reader] = "publish" ~>
    (pc[Reader] = "work" \/ stop \/ \E t \in Threads : pc[t] = "ended")

(* ImageLoader.hpp:48 says of stop() that it "notifies threads for         *)
(* streaming previews to stop": a thread asleep on a condition variable    *)
(* after stop_ has been set is woken up.                                   *)
StopWakesSleepers ==
  \A t \in Threads : (stop /\ pc[t] = "sleep") ~> pc[t] # "sleep"

=============================================================================

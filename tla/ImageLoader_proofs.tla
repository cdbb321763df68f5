------------------------- MODULE ImageLoader_proofs -------------------------
(***************************************************************************)
(* Proofs about ImageLoader, for every number of images.                   *)
(*                                                                         *)
(* The safety properties are not inductive by themselves.  IInv adds to    *)
(* them who holds which mutex, what each flag says about the threads, how  *)
(* the thread handles follow the threads, and, in Contents, how the two    *)
(* private indexes, the flags and the images in the buffers follow from    *)
(* how many images have been handed over and shown.                        *)
(***************************************************************************)
EXTENDS ImageLoader, SequenceTheorems, TLAPS

(* A mutex is held exactly by the thread inside the critical section of    *)
(* its buffer.                                                             *)
MutexInv ==
  \A b \in Buffers, t \in Threads :
    owner[b] = t <=> (pc[t] \in Critical /\ index[t] = b)

(* What the control point of a thread says about the flag of its buffer. *)
FlagInv ==
  \A t \in Threads :
    /\ pc[t] \in {"work", "publish"} => Ready(t)
    /\ pc[t] = "check" => Ready(t) \/ stop
    /\ pc[t] \in {"block", "sleep"} => ~Ready(t)

(* The thread handles, and what the GUI thread knows of the threads. *)
HandleInv ==
  /\ gui \notin {"join setter", "exited"} =>
       \A t \in Threads : joinable[t] <=> pc[t] # "none"
  /\ gui \in {"join setter", "exited"} => pc[Reader] \in {"none", "ended"}
  /\ gui = "join setter" => (joinable[Setter] <=> pc[Setter] # "none")
  /\ gui = "exited" => pc[Setter] \in {"none", "ended"}
  /\ gui = "spawn reader" => pc[Reader] = "none" /\ pc[Setter] = "none"
  /\ gui = "spawn setter" => pc[Setter] = "none"
  /\ \A t \in Threads : pc[t] = "none" => index[t] = 0
  /\ pc[Reader] = "none" => received = 0
  /\ pc[Setter] = "none" => shown = <<>>
  /\ socketOpen /\ gui \notin {"spawn reader", "join setter", "exited", "aborted"}
       => isRunning

(* Images whose buffer the setter has handed back. *)
Consumed == IF pc[Setter] = "publish" THEN Len(shown) - 1 ELSE Len(shown)

(* The two buffers as a queue of Published - Consumed images. *)
Contents ==
  LET r == index[Reader]
      s == index[Setter]
      o == OtherBuffer(s)
  IN
  /\ Published \in Nat
  /\ Consumed \in Nat
  /\ \/ Published = Consumed /\ r = s /\ buffersEmpty[s] /\ buffersEmpty[o]
     \/ /\ Published = Consumed + 1 /\ r = o
        /\ ~buffersEmpty[s] /\ buffersEmpty[o]
        /\ buffers[s] = Consumed + 1
     \/ /\ Published = Consumed + 2 /\ r = s
        /\ ~buffersEmpty[s] /\ ~buffersEmpty[o]
        /\ buffers[s] = Consumed + 1 /\ buffers[o] = Consumed + 2
  /\ pc[Reader] = "publish" => buffers[r] = received

InOrder == \A k \in 1..Len(shown) : shown[k] = k

IInv == TypeOK /\ MutexInv /\ FlagInv /\ HandleInv /\ Contents /\ InOrder

-----------------------------------------------------------------------------
(* There are two buffers, and OtherBuffer tells them apart. *)
LEMMA OtherBufferFacts ==
  \A b \in Buffers :
    /\ OtherBuffer(b) \in Buffers
    /\ OtherBuffer(b) # b
    /\ OtherBuffer(OtherBuffer(b)) = b
    /\ \A c \in Buffers : c # b => c = OtherBuffer(b)
BY DEF Buffers, OtherBuffer

(* Every step keeps the types. *)
LEMMA TypeStep ==
  ASSUME TypeOK, [Next]_vars
  PROVE  TypeOK'
<1> USE DEF TypeOK, Threads, Reader, Setter, Buffers, Free, Partial, GuiPoints,
       Callers, ThreadPoints, Critical, isRunning
<1>1. ASSUME NEW t \in Threads, Enter(t) PROVE TypeOK'
  BY <1>1 DEF Enter, guiVars, threadVars
<1>2. ASSUME NEW t \in Threads, Leave(t) PROVE TypeOK'
  BY <1>2 DEF Leave, guiVars, threadVars
<1>3. ASSUME NEW t \in Threads, Test(t) PROVE TypeOK'
  BY <1>3 DEF Test, guiVars, threadVars
<1>4. ASSUME NEW t \in Threads, Block(t) PROVE TypeOK'
  BY <1>4 DEF Block, guiVars, threadVars
<1>5. ASSUME NEW t \in Threads, Break(t) PROVE TypeOK'
  BY <1>5 DEF Break, guiVars, threadVars
<1>6. ASSUME NEW t \in Threads, Handover(t) PROVE TypeOK'
  <2>1. (t = Setter) \in BOOLEAN
    OBVIOUS
  <2>2. OtherBuffer(index[t]) \in Buffers
    BY OtherBufferFacts
  <2>3. QED
    BY <1>6, <2>1, <2>2 DEF Handover, Woken, guiVars, threadVars
<1>7. ASSUME NEW t \in Threads, Lock(t) PROVE TypeOK'
  BY <1>7 DEF Lock, guiVars, threadVars
<1>8. ASSUME NEW t \in Threads, SpuriousWakeup(t) PROVE TypeOK'
  BY <1>8 DEF SpuriousWakeup, guiVars, threadVars
<1>9. ASSUME NEW t \in Threads, Throw(t) PROVE TypeOK'
  BY <1>9 DEF Throw, guiVars, threadVars
<1>10. ASSUME BeginRead PROVE TypeOK'
  BY <1>10 DEF BeginRead, guiVars, threadVars
<1>11. ASSUME ReadPreview PROVE TypeOK'
  <2>1. received + 1 \in Nat /\ received + 1 \in 0..MaxImages
    <3>1. received \in 0..MaxImages /\ received < MaxImages
      BY <1>11 DEF ReadPreview
    <3>2. QED
      BY ONLY <3>1, MaxImagesAssumption
  <2>2. [buffers EXCEPT ![index[Reader]] = received + 1] \in [Buffers -> Nat]
    BY <2>1
  <2>3. QED
    BY <1>11, <2>1, <2>2 DEF ReadPreview, guiVars, threadVars
<1>12. ASSUME BeginSet PROVE TypeOK'
  BY <1>12 DEF BeginSet, guiVars, threadVars
<1>13. ASSUME SetPreview PROVE TypeOK'
  <2>1. buffers[index[Setter]] \in Nat
    OBVIOUS
  <2>2. Append(shown, buffers[index[Setter]]) \in Seq(Nat)
    BY <2>1, AppendProperties
  <2>3. QED
    BY <1>13, <2>2 DEF SetPreview, guiVars, threadVars
<1>14. ASSUME Start PROVE TypeOK'
  BY <1>14 DEF Start, guiVars, threadVars
<1>15. ASSUME StartFails PROVE TypeOK'
  BY <1>15 DEF StartFails, guiVars, threadVars
<1>16. ASSUME ToggleOff PROVE TypeOK'
  BY <1>16 DEF ToggleOff, guiVars, threadVars
<1>17. ASSUME Quit PROVE TypeOK'
  BY <1>17 DEF Quit, guiVars, threadVars
<1>18. ASSUME SpawnReader PROVE TypeOK'
  BY <1>18 DEF SpawnReader, Spawn, guiVars, threadVars
<1>19. ASSUME SpawnSetter PROVE TypeOK'
  BY <1>19 DEF SpawnSetter, Spawn, guiVars, threadVars
<1>20. ASSUME StopSetFlag PROVE TypeOK'
  BY <1>20 DEF StopSetFlag, guiVars, threadVars
<1>21. ASSUME StopNotifyFirst PROVE TypeOK'
  BY <1>21 DEF StopNotifyFirst, Woken, guiVars, threadVars
<1>22. ASSUME StopNotifySecond PROVE TypeOK'
  BY <1>22 DEF StopNotifySecond, Woken, guiVars, threadVars
<1>23. ASSUME JoinReader PROVE TypeOK'
  BY <1>23 DEF JoinReader, Join, guiVars, threadVars
<1>24. ASSUME JoinSetter PROVE TypeOK'
  BY <1>24 DEF JoinSetter, Join, guiVars, threadVars
<1>25. CASE UNCHANGED vars
  BY <1>25 DEF vars, guiVars, threadVars
<1>26. QED
  BY <1>1, <1>2, <1>3, <1>4, <1>5, <1>6, <1>7, <1>8, <1>9, <1>10, <1>11, <1>12,
     <1>13, <1>14, <1>15, <1>16, <1>17, <1>18, <1>19, <1>20, <1>21, <1>22,
     <1>23, <1>24, <1>25
  DEF Next, WorkerNext, ThreadStep, GuiNext, GuiStep

(* A mutex changes hands only when it is free, or by the thread that holds *)
(* it.                                                                     *)
LEMMA MutexStep ==
  ASSUME TypeOK, MutexInv, HandleInv, [Next]_vars
  PROVE  MutexInv'
<1> USE DEF TypeOK, MutexInv, Threads, Reader, Setter, Buffers, Free, Partial,
       Critical
<1>1. ASSUME NEW t \in Threads, Enter(t) PROVE MutexInv'
  BY <1>1 DEF Enter, guiVars, threadVars
<1>2. ASSUME NEW t \in Threads, Leave(t) PROVE MutexInv'
  BY <1>2 DEF Leave, guiVars, threadVars
<1>3. ASSUME NEW t \in Threads, Test(t) PROVE MutexInv'
  BY <1>3 DEF Test, guiVars, threadVars
<1>4. ASSUME NEW t \in Threads, Block(t) PROVE MutexInv'
  BY <1>4 DEF Block, guiVars, threadVars
<1>5. ASSUME NEW t \in Threads, Break(t) PROVE MutexInv'
  BY <1>5 DEF Break, guiVars, threadVars
<1>6. ASSUME NEW t \in Threads, Handover(t) PROVE MutexInv'
  BY <1>6, OtherBufferFacts DEF Handover, Woken, guiVars, threadVars
<1>7. ASSUME NEW t \in Threads, Lock(t) PROVE MutexInv'
  BY <1>7 DEF Lock, guiVars, threadVars
<1>8. ASSUME NEW t \in Threads, SpuriousWakeup(t) PROVE MutexInv'
  BY <1>8 DEF SpuriousWakeup, guiVars, threadVars
<1>9. ASSUME NEW t \in Threads, Throw(t) PROVE MutexInv'
  BY <1>9 DEF Throw, guiVars, threadVars
<1>10. ASSUME BeginRead PROVE MutexInv'
  BY <1>10 DEF BeginRead, guiVars, threadVars
<1>11. ASSUME ReadPreview PROVE MutexInv'
  BY <1>11 DEF ReadPreview, guiVars, threadVars
<1>12. ASSUME BeginSet PROVE MutexInv'
  BY <1>12 DEF BeginSet, guiVars, threadVars
<1>13. ASSUME SetPreview PROVE MutexInv'
  BY <1>13 DEF SetPreview, guiVars, threadVars
<1>14. ASSUME Start PROVE MutexInv'
  BY <1>14 DEF Start, guiVars, threadVars
<1>15. ASSUME StartFails PROVE MutexInv'
  BY <1>15 DEF StartFails, guiVars, threadVars
<1>16. ASSUME ToggleOff PROVE MutexInv'
  BY <1>16 DEF ToggleOff, guiVars, threadVars
<1>17. ASSUME Quit PROVE MutexInv'
  BY <1>17 DEF Quit, guiVars, threadVars
<1>18. ASSUME SpawnReader PROVE MutexInv'
  BY <1>18 DEF SpawnReader, Spawn, guiVars, threadVars, HandleInv
<1>19. ASSUME SpawnSetter PROVE MutexInv'
  BY <1>19 DEF SpawnSetter, Spawn, guiVars, threadVars, HandleInv
<1>20. ASSUME StopSetFlag PROVE MutexInv'
  BY <1>20 DEF StopSetFlag, guiVars, threadVars
<1>21. ASSUME StopNotifyFirst PROVE MutexInv'
  BY <1>21 DEF StopNotifyFirst, Woken, guiVars, threadVars
<1>22. ASSUME StopNotifySecond PROVE MutexInv'
  BY <1>22 DEF StopNotifySecond, Woken, guiVars, threadVars
<1>23. ASSUME JoinReader PROVE MutexInv'
  BY <1>23 DEF JoinReader, Join, guiVars, threadVars
<1>24. ASSUME JoinSetter PROVE MutexInv'
  BY <1>24 DEF JoinSetter, Join, guiVars, threadVars
<1>25. CASE UNCHANGED vars
  BY <1>25 DEF vars, guiVars, threadVars
<1>26. QED
  BY <1>1, <1>2, <1>3, <1>4, <1>5, <1>6, <1>7, <1>8, <1>9, <1>10, <1>11, <1>12,
     <1>13, <1>14, <1>15, <1>16, <1>17, <1>18, <1>19, <1>20, <1>21, <1>22,
     <1>23, <1>24, <1>25
  DEF Next, WorkerNext, ThreadStep, GuiNext, GuiStep

(* The flag of a buffer changes only under its mutex, so what a thread has *)
(* read of it stays true until it releases the mutex or is woken up.       *)
LEMMA FlagStep ==
  ASSUME TypeOK, MutexInv, HandleInv, Contents, FlagInv, [Next]_vars
  PROVE  FlagInv'
<1> USE DEF TypeOK, MutexInv, FlagInv, Threads, Reader, Setter, Buffers, Free,
       Partial, Critical, Ready
<1>1. ASSUME NEW t \in Threads, Enter(t) PROVE FlagInv'
  BY <1>1 DEF Enter, guiVars, threadVars
<1>2. ASSUME NEW t \in Threads, Leave(t) PROVE FlagInv'
  BY <1>2 DEF Leave, guiVars, threadVars
<1>3. ASSUME NEW t \in Threads, Test(t) PROVE FlagInv'
  BY <1>3 DEF Test, guiVars, threadVars
<1>4. ASSUME NEW t \in Threads, Block(t) PROVE FlagInv'
  BY <1>4 DEF Block, guiVars, threadVars
<1>5. ASSUME NEW t \in Threads, Break(t) PROVE FlagInv'
  BY <1>5 DEF Break, guiVars, threadVars
<1>6. ASSUME NEW t \in Threads, Handover(t) PROVE FlagInv'
  BY <1>6, OtherBufferFacts DEF Handover, Woken, guiVars, threadVars
<1>7. ASSUME NEW t \in Threads, Lock(t) PROVE FlagInv'
  BY <1>7 DEF Lock, guiVars, threadVars
<1>8. ASSUME NEW t \in Threads, SpuriousWakeup(t) PROVE FlagInv'
  BY <1>8 DEF SpuriousWakeup, guiVars, threadVars
<1>9. ASSUME NEW t \in Threads, Throw(t) PROVE FlagInv'
  BY <1>9 DEF Throw, guiVars, threadVars
<1>10. ASSUME BeginRead PROVE FlagInv'
  BY <1>10 DEF BeginRead, guiVars, threadVars
<1>11. ASSUME ReadPreview PROVE FlagInv'
  BY <1>11 DEF ReadPreview, guiVars, threadVars
<1>12. ASSUME BeginSet PROVE FlagInv'
  BY <1>12 DEF BeginSet, guiVars, threadVars
<1>13. ASSUME SetPreview PROVE FlagInv'
  BY <1>13 DEF SetPreview, guiVars, threadVars
<1>14. ASSUME Start PROVE FlagInv'
  BY <1>14 DEF Start, guiVars, threadVars, HandleInv, isRunning
<1>15. ASSUME StartFails PROVE FlagInv'
  BY <1>15 DEF StartFails, guiVars, threadVars
<1>16. ASSUME ToggleOff PROVE FlagInv'
  BY <1>16 DEF ToggleOff, guiVars, threadVars
<1>17. ASSUME Quit PROVE FlagInv'
  BY <1>17 DEF Quit, guiVars, threadVars
<1>18. ASSUME SpawnReader PROVE FlagInv'
  BY <1>18 DEF SpawnReader, Spawn, guiVars, threadVars, HandleInv
<1>19. ASSUME SpawnSetter PROVE FlagInv'
  BY <1>19 DEF SpawnSetter, Spawn, guiVars, threadVars, HandleInv
<1>20. ASSUME StopSetFlag PROVE FlagInv'
  BY <1>20 DEF StopSetFlag, guiVars, threadVars
<1>21. ASSUME StopNotifyFirst PROVE FlagInv'
  BY <1>21 DEF StopNotifyFirst, Woken, guiVars, threadVars
<1>22. ASSUME StopNotifySecond PROVE FlagInv'
  BY <1>22 DEF StopNotifySecond, Woken, guiVars, threadVars
<1>23. ASSUME JoinReader PROVE FlagInv'
  BY <1>23 DEF JoinReader, Join, guiVars, threadVars
<1>24. ASSUME JoinSetter PROVE FlagInv'
  BY <1>24 DEF JoinSetter, Join, guiVars, threadVars
<1>25. CASE UNCHANGED vars
  BY <1>25 DEF vars, guiVars, threadVars
<1>26. QED
  BY <1>1, <1>2, <1>3, <1>4, <1>5, <1>6, <1>7, <1>8, <1>9, <1>10, <1>11, <1>12,
     <1>13, <1>14, <1>15, <1>16, <1>17, <1>18, <1>19, <1>20, <1>21, <1>22,
     <1>23, <1>24, <1>25
  DEF Next, WorkerNext, ThreadStep, GuiNext, GuiStep

(* The handles follow the threads. *)
LEMMA HandleStep ==
  ASSUME TypeOK, HandleInv, [Next]_vars
  PROVE  HandleInv'
<1> USE DEF TypeOK, HandleInv, Threads, Reader, Setter, Buffers, Free, Partial,
       isRunning
<1>1. ASSUME NEW t \in Threads, Enter(t) PROVE HandleInv'
  BY <1>1 DEF Enter, guiVars, threadVars
<1>2. ASSUME NEW t \in Threads, Leave(t) PROVE HandleInv'
  BY <1>2 DEF Leave, guiVars, threadVars
<1>3. ASSUME NEW t \in Threads, Test(t) PROVE HandleInv'
  BY <1>3 DEF Test, guiVars, threadVars
<1>4. ASSUME NEW t \in Threads, Block(t) PROVE HandleInv'
  BY <1>4 DEF Block, guiVars, threadVars
<1>5. ASSUME NEW t \in Threads, Break(t) PROVE HandleInv'
  BY <1>5 DEF Break, guiVars, threadVars
<1>6. ASSUME NEW t \in Threads, Handover(t) PROVE HandleInv'
  BY <1>6 DEF Handover, Woken, guiVars, threadVars
<1>7. ASSUME NEW t \in Threads, Lock(t) PROVE HandleInv'
  BY <1>7 DEF Lock, guiVars, threadVars
<1>8. ASSUME NEW t \in Threads, SpuriousWakeup(t) PROVE HandleInv'
  BY <1>8 DEF SpuriousWakeup, guiVars, threadVars
<1>9. ASSUME NEW t \in Threads, Throw(t) PROVE HandleInv'
  BY <1>9 DEF Throw, guiVars, threadVars
<1>10. ASSUME BeginRead PROVE HandleInv'
  BY <1>10 DEF BeginRead, guiVars, threadVars
<1>11. ASSUME ReadPreview PROVE HandleInv'
  BY <1>11 DEF ReadPreview, guiVars, threadVars
<1>12. ASSUME BeginSet PROVE HandleInv'
  BY <1>12 DEF BeginSet, guiVars, threadVars
<1>13. ASSUME SetPreview PROVE HandleInv'
  BY <1>13 DEF SetPreview, guiVars, threadVars
<1>14. ASSUME Start PROVE HandleInv'
  BY <1>14 DEF Start, guiVars, threadVars
<1>15. ASSUME StartFails PROVE HandleInv'
  BY <1>15 DEF StartFails, guiVars, threadVars
<1>16. ASSUME ToggleOff PROVE HandleInv'
  BY <1>16 DEF ToggleOff, guiVars, threadVars
<1>17. ASSUME Quit PROVE HandleInv'
  BY <1>17 DEF Quit, guiVars, threadVars
<1>18. ASSUME SpawnReader PROVE HandleInv'
  BY <1>18 DEF SpawnReader, Spawn, guiVars, threadVars
<1>19. ASSUME SpawnSetter PROVE HandleInv'
  BY <1>19 DEF SpawnSetter, Spawn, guiVars, threadVars
<1>20. ASSUME StopSetFlag PROVE HandleInv'
  BY <1>20 DEF StopSetFlag, guiVars, threadVars
<1>21. ASSUME StopNotifyFirst PROVE HandleInv'
  BY <1>21 DEF StopNotifyFirst, Woken, guiVars, threadVars
<1>22. ASSUME StopNotifySecond PROVE HandleInv'
  BY <1>22 DEF StopNotifySecond, Woken, guiVars, threadVars
<1>23. ASSUME JoinReader PROVE HandleInv'
  BY <1>23 DEF JoinReader, Join, guiVars, threadVars
<1>24. ASSUME JoinSetter PROVE HandleInv'
  BY <1>24 DEF JoinSetter, Join, guiVars, threadVars
<1>25. CASE UNCHANGED vars
  BY <1>25 DEF vars, guiVars, threadVars
<1>26. QED
  BY <1>1, <1>2, <1>3, <1>4, <1>5, <1>6, <1>7, <1>8, <1>9, <1>10, <1>11, <1>12,
     <1>13, <1>14, <1>15, <1>16, <1>17, <1>18, <1>19, <1>20, <1>21, <1>22,
     <1>23, <1>24, <1>25
  DEF Next, WorkerNext, ThreadStep, GuiNext, GuiStep

(* Handing over, showing and overwriting keep the two buffers a queue. *)
LEMMA ContentsStep ==
  ASSUME TypeOK, MutexInv, FlagInv, HandleInv, Contents, [Next]_vars
  PROVE  Contents'
<1> USE DEF TypeOK, Contents, Threads, Reader, Setter, Buffers, Free, Partial,
       Published, Consumed
<1>1. ASSUME NEW t \in Threads, Enter(t) PROVE Contents'
  BY <1>1 DEF Enter, guiVars, threadVars
<1>2. ASSUME NEW t \in Threads, Leave(t) PROVE Contents'
  BY <1>2 DEF Leave, guiVars, threadVars
<1>3. ASSUME NEW t \in Threads, Test(t) PROVE Contents'
  BY <1>3 DEF Test, guiVars, threadVars
<1>4. ASSUME NEW t \in Threads, Block(t) PROVE Contents'
  BY <1>4 DEF Block, guiVars, threadVars
<1>5. ASSUME NEW t \in Threads, Break(t) PROVE Contents'
  BY <1>5 DEF Break, guiVars, threadVars
<1>6. ASSUME NEW t \in Threads, Handover(t) PROVE Contents'
  <2> DEFINE r == index[Reader]  s == index[Setter]  o == OtherBuffer(s)
  <2>1. CASE t = Reader
    <3>1. /\ pc[Reader] = "publish" /\ buffersEmpty[r] /\ buffers[r] = received
          /\ Published = received - 1
      BY <1>6, <2>1 DEF Handover, FlagInv, Ready
    <3>2. /\ buffersEmpty' = [buffersEmpty EXCEPT ![r] = FALSE]
          /\ index' = [index EXCEPT ![Reader] = OtherBuffer(r)]
          /\ UNCHANGED <<buffers, received, shown>>
          /\ pc'[Reader] = "loop"
          /\ pc'[Setter] = "publish" <=> pc[Setter] = "publish"
      BY <1>6, <2>1 DEF Handover, Woken
    <3>3. Published' = Published + 1 /\ Consumed' = Consumed
      BY <3>1, <3>2
    <3>4. CASE Published = Consumed /\ r = s /\ buffersEmpty[s] /\ buffersEmpty[o]
      BY <3>1, <3>2, <3>3, <3>4, OtherBufferFacts
    <3>5. CASE /\ Published = Consumed + 1 /\ r = o
               /\ ~buffersEmpty[s] /\ buffersEmpty[o]
               /\ buffers[s] = Consumed + 1
      BY <3>1, <3>2, <3>3, <3>5, OtherBufferFacts
    <3>6. QED
      BY <3>1, <3>4, <3>5
  <2>2. CASE t = Setter
    <3>1. /\ pc[Setter] = "publish" /\ ~buffersEmpty[s]
          /\ Consumed = Len(shown) - 1
      BY <1>6, <2>2 DEF Handover, FlagInv, Ready
    <3>2. /\ buffersEmpty' = [buffersEmpty EXCEPT ![s] = TRUE]
          /\ index' = [index EXCEPT ![Setter] = o]
          /\ UNCHANGED <<buffers, received, shown>>
          /\ pc'[Setter] = "loop"
          /\ pc'[Reader] = "publish" <=> pc[Reader] = "publish"
      BY <1>6, <2>2 DEF Handover, Woken
    <3>3. Published' = Published /\ Consumed' = Consumed + 1
      BY <3>1, <3>2
    <3>4. CASE /\ Published = Consumed + 1 /\ r = o
               /\ ~buffersEmpty[s] /\ buffersEmpty[o]
               /\ buffers[s] = Consumed + 1
      BY <3>1, <3>2, <3>3, <3>4, OtherBufferFacts
    <3>5. CASE /\ Published = Consumed + 2 /\ r = s
               /\ ~buffersEmpty[s] /\ ~buffersEmpty[o]
               /\ buffers[s] = Consumed + 1 /\ buffers[o] = Consumed + 2
      <4>1. /\ index'[Setter] = o /\ OtherBuffer(o) = s /\ o # s
            /\ index'[Reader] = s
        BY <3>2, <3>5, OtherBufferFacts
      <4>2. ~buffersEmpty'[o] /\ buffersEmpty'[s]
        BY <3>2, <3>5, <4>1, OtherBufferFacts
      <4>3. Published' = Consumed' + 1 /\ buffers'[o] = Consumed' + 1
        BY <3>2, <3>3, <3>5
      <4>4. pc'[Reader] = "publish" => buffers'[index'[Reader]] = received'
        BY <3>2, <3>5, <4>1
      <4>5. Published' \in Nat /\ Consumed' \in Nat
        BY <3>3
      <4>6. QED
        BY <4>1, <4>2, <4>3, <4>4, <4>5
    <3>6. QED
      BY <3>1, <3>4, <3>5
  <2>3. QED
    BY <2>1, <2>2
<1>7. ASSUME NEW t \in Threads, Lock(t) PROVE Contents'
  BY <1>7 DEF Lock, guiVars, threadVars
<1>8. ASSUME NEW t \in Threads, SpuriousWakeup(t) PROVE Contents'
  BY <1>8 DEF SpuriousWakeup, guiVars, threadVars
<1>9. ASSUME NEW t \in Threads, Throw(t) PROVE Contents'
  BY <1>9 DEF Throw, guiVars, threadVars
<1>10. ASSUME BeginRead PROVE Contents'
  BY <1>10, OtherBufferFacts DEF BeginRead, guiVars, threadVars, Ready, FlagInv
<1>11. ASSUME ReadPreview PROVE Contents'
  BY <1>11, OtherBufferFacts DEF ReadPreview, guiVars, threadVars, Ready,
         FlagInv
<1>12. ASSUME BeginSet PROVE Contents'
  BY <1>12 DEF BeginSet, guiVars, threadVars
<1>13. ASSUME SetPreview PROVE Contents'
  BY <1>13, OtherBufferFacts, AppendProperties DEF SetPreview, guiVars,
         threadVars, Ready, FlagInv
<1>14. ASSUME Start PROVE Contents'
  <2>1. pc[Reader] = "none" /\ pc[Setter] = "none"
    BY <1>14 DEF Start, HandleInv, isRunning
  <2>2. received = 0 /\ shown = <<>> /\ index[Reader] = 0 /\ index[Setter] = 0
    BY <2>1 DEF HandleInv
  <2>3. Published' = 0 /\ Consumed' = 0
    BY <1>14, <2>1, <2>2 DEF Start, guiVars, threadVars
  <2>4. QED
    BY <1>14, <2>1, <2>2, <2>3, OtherBufferFacts DEF Start, guiVars, threadVars
<1>15. ASSUME StartFails PROVE Contents'
  BY <1>15 DEF StartFails, guiVars, threadVars
<1>16. ASSUME ToggleOff PROVE Contents'
  BY <1>16 DEF ToggleOff, guiVars, threadVars
<1>17. ASSUME Quit PROVE Contents'
  BY <1>17 DEF Quit, guiVars, threadVars
<1>18. ASSUME SpawnReader PROVE Contents'
  BY <1>18 DEF SpawnReader, Spawn, guiVars, threadVars, HandleInv
<1>19. ASSUME SpawnSetter PROVE Contents'
  BY <1>19 DEF SpawnSetter, Spawn, guiVars, threadVars, HandleInv
<1>20. ASSUME StopSetFlag PROVE Contents'
  BY <1>20 DEF StopSetFlag, guiVars, threadVars
<1>21. ASSUME StopNotifyFirst PROVE Contents'
  BY <1>21 DEF StopNotifyFirst, Woken, guiVars, threadVars
<1>22. ASSUME StopNotifySecond PROVE Contents'
  BY <1>22 DEF StopNotifySecond, Woken, guiVars, threadVars
<1>23. ASSUME JoinReader PROVE Contents'
  BY <1>23 DEF JoinReader, Join, guiVars, threadVars
<1>24. ASSUME JoinSetter PROVE Contents'
  BY <1>24 DEF JoinSetter, Join, guiVars, threadVars
<1>25. CASE UNCHANGED vars
  BY <1>25 DEF vars, guiVars, threadVars
<1>26. QED
  BY <1>1, <1>2, <1>3, <1>4, <1>5, <1>6, <1>7, <1>8, <1>9, <1>10, <1>11, <1>12,
     <1>13, <1>14, <1>15, <1>16, <1>17, <1>18, <1>19, <1>20, <1>21, <1>22,
     <1>23, <1>24, <1>25
  DEF Next, WorkerNext, ThreadStep, GuiNext, GuiStep

(* The image shown is the one after the last one shown. *)
LEMMA InOrderStep ==
  ASSUME TypeOK, FlagInv, Contents, InOrder, [Next]_vars
  PROVE  InOrder'
<1> USE DEF TypeOK, InOrder, Threads, Reader, Setter, Buffers, Free, Partial
<1>1. ASSUME NEW t \in Threads, Enter(t) PROVE InOrder'
  BY <1>1 DEF Enter, guiVars, threadVars
<1>2. ASSUME NEW t \in Threads, Leave(t) PROVE InOrder'
  BY <1>2 DEF Leave, guiVars, threadVars
<1>3. ASSUME NEW t \in Threads, Test(t) PROVE InOrder'
  BY <1>3 DEF Test, guiVars, threadVars
<1>4. ASSUME NEW t \in Threads, Block(t) PROVE InOrder'
  BY <1>4 DEF Block, guiVars, threadVars
<1>5. ASSUME NEW t \in Threads, Break(t) PROVE InOrder'
  BY <1>5 DEF Break, guiVars, threadVars
<1>6. ASSUME NEW t \in Threads, Handover(t) PROVE InOrder'
  BY <1>6 DEF Handover, Woken, guiVars, threadVars
<1>7. ASSUME NEW t \in Threads, Lock(t) PROVE InOrder'
  BY <1>7 DEF Lock, guiVars, threadVars
<1>8. ASSUME NEW t \in Threads, SpuriousWakeup(t) PROVE InOrder'
  BY <1>8 DEF SpuriousWakeup, guiVars, threadVars
<1>9. ASSUME NEW t \in Threads, Throw(t) PROVE InOrder'
  BY <1>9 DEF Throw, guiVars, threadVars
<1>10. ASSUME BeginRead PROVE InOrder'
  BY <1>10 DEF BeginRead, guiVars, threadVars
<1>11. ASSUME ReadPreview PROVE InOrder'
  BY <1>11 DEF ReadPreview, guiVars, threadVars
<1>12. ASSUME BeginSet PROVE InOrder'
  BY <1>12 DEF BeginSet, guiVars, threadVars
<1>13. ASSUME SetPreview PROVE InOrder'
  BY <1>13, AppendProperties DEF SetPreview, guiVars, threadVars, Ready,
         FlagInv, Contents, Consumed
<1>14. ASSUME Start PROVE InOrder'
  BY <1>14 DEF Start, guiVars, threadVars
<1>15. ASSUME StartFails PROVE InOrder'
  BY <1>15 DEF StartFails, guiVars, threadVars
<1>16. ASSUME ToggleOff PROVE InOrder'
  BY <1>16 DEF ToggleOff, guiVars, threadVars
<1>17. ASSUME Quit PROVE InOrder'
  BY <1>17 DEF Quit, guiVars, threadVars
<1>18. ASSUME SpawnReader PROVE InOrder'
  BY <1>18 DEF SpawnReader, Spawn, guiVars, threadVars
<1>19. ASSUME SpawnSetter PROVE InOrder'
  BY <1>19 DEF SpawnSetter, Spawn, guiVars, threadVars
<1>20. ASSUME StopSetFlag PROVE InOrder'
  BY <1>20 DEF StopSetFlag, guiVars, threadVars
<1>21. ASSUME StopNotifyFirst PROVE InOrder'
  BY <1>21 DEF StopNotifyFirst, Woken, guiVars, threadVars
<1>22. ASSUME StopNotifySecond PROVE InOrder'
  BY <1>22 DEF StopNotifySecond, Woken, guiVars, threadVars
<1>23. ASSUME JoinReader PROVE InOrder'
  BY <1>23 DEF JoinReader, Join, guiVars, threadVars
<1>24. ASSUME JoinSetter PROVE InOrder'
  BY <1>24 DEF JoinSetter, Join, guiVars, threadVars
<1>25. CASE UNCHANGED vars
  BY <1>25 DEF vars, guiVars, threadVars
<1>26. QED
  BY <1>1, <1>2, <1>3, <1>4, <1>5, <1>6, <1>7, <1>8, <1>9, <1>10, <1>11, <1>12,
     <1>13, <1>14, <1>15, <1>16, <1>17, <1>18, <1>19, <1>20, <1>21, <1>22,
     <1>23, <1>24, <1>25
  DEF Next, WorkerNext, ThreadStep, GuiNext, GuiStep

-----------------------------------------------------------------------------
(* The inductive invariant holds of the specification. *)
THEOREM InductiveInvariant == Spec => []IInv
<1>1. Init => IInv
  <2> SUFFICES ASSUME Init PROVE IInv
    OBVIOUS
  <2> USE DEF Init, Threads, Reader, Setter, Buffers, Free, Partial
  <2>1. TypeOK
    <3>1. shown \in Seq(Nat)
      BY EmptySeq
    <3>2. received \in 0..MaxImages
      <4>1. received = 0
        OBVIOUS
      <4>2. QED
        BY ONLY <4>1, MaxImagesAssumption
    <3>3. QED
      BY <3>1, <3>2 DEF TypeOK, GuiPoints, Callers, ThreadPoints
  <2>2. MutexInv /\ FlagInv
    BY DEF MutexInv, FlagInv, Critical
  <2>3. HandleInv
    BY DEF HandleInv
  <2>4. Contents /\ InOrder
    <3>1. Published = 0 /\ Consumed = 0 /\ Len(shown) = 0
      BY DEF Published, Consumed
    <3>2. QED
      <4>1. /\ index[Reader] = index[Setter] /\ pc[Reader] # "publish"
            /\ buffersEmpty[index[Setter]]
            /\ buffersEmpty[OtherBuffer(index[Setter])]
        BY OtherBufferFacts
      <4>2. Contents
        BY <3>1, <4>1 DEF Contents
      <4>3. InOrder
        BY ONLY <3>1 DEF InOrder
      <4>4. QED
        BY <4>2, <4>3
  <2>5. QED
    BY <2>1, <2>2, <2>3, <2>4 DEF IInv
<1>2. IInv /\ [Next]_vars => IInv'
  BY TypeStep, MutexStep, FlagStep, HandleStep, ContentsStep, InOrderStep DEF
         IInv
<1>3. QED
  BY <1>1, <1>2, PTL DEF Spec

(* The types. *)
THEOREM TypeCorrect == Spec => []TypeOK
<1>1. IInv => TypeOK
  BY DEF IInv
<1>2. QED
  BY <1>1, InductiveInvariant, PTL

(* A thread works on a buffer only with its mutex and while the flag gives *)
(* it the buffer: the reader never overwrites the image being shown.       *)
THEOREM BufferOwnership == Spec => []WorkerOwnsBuffer
<1>1. IInv => WorkerOwnsBuffer
  BY DEF IInv, TypeOK, MutexInv, FlagInv, WorkerOwnsBuffer, Critical, Threads,
         Buffers
<1>2. QED
  BY <1>1, InductiveInvariant, PTL

(* The widget gets images 1, 2, 3, ..., each once, and only whole ones. *)
THEOREM DisplayOrder == Spec => []ShownInOrder
<1>1. IInv => ShownInOrder
  <2> SUFFICES ASSUME IInv PROVE ShownInOrder
    OBVIOUS
  <2> USE DEF IInv, TypeOK
  <2>1. Consumed <= Published
    BY DEF Contents
  <2>2. Published <= received
    BY DEF Published
  <2>3. pc[Setter] = "publish" => Consumed < Published
    <3>1. pc[Setter] = "publish" => ~buffersEmpty[index[Setter]]
      BY DEF FlagInv, Ready, Threads, Reader, Setter
    <3>2. QED
      BY <3>1 DEF Contents
  <2>4. Len(shown) <= received
    <3>1. /\ Len(shown) \in Nat /\ Consumed \in Nat /\ Published \in Nat
          /\ received \in Nat
      BY DEF Contents
    <3>2. Len(shown) = IF pc[Setter] = "publish" THEN Consumed + 1 ELSE Consumed
      BY <3>1 DEF Consumed
    <3>3. QED
      BY ONLY <2>1, <2>2, <2>3, <3>1, <3>2
  <2>5. QED
    BY <2>4 DEF ShownInOrder, InOrder
<1>2. QED
  BY <1>1, InductiveInvariant, PTL

(* The wakeup of a hand-over is never lost. *)
THEOREM NoLostHandover == Spec => []NoSleepOnReadyBuffer
<1>1. IInv => NoSleepOnReadyBuffer
  BY DEF IInv, FlagInv, NoSleepOnReadyBuffer
<1>2. QED
  BY <1>1, InductiveInvariant, PTL

(* The two loops never wait for each other. *)
THEOREM NoMutualSleep == Spec => []NotBothAsleep
<1>1. IInv => NotBothAsleep
  <2> SUFFICES ASSUME IInv, \A t \in Threads : pc[t] = "sleep" PROVE FALSE
    BY DEF NotBothAsleep
  <2>1. ~buffersEmpty[index[Reader]] /\ buffersEmpty[index[Setter]]
    BY DEF IInv, TypeOK, FlagInv, Ready, Threads, Reader, Setter, Buffers
  <2>2. QED
    BY <2>1 DEF IInv, Contents
<1>2. QED
  BY <1>1, InductiveInvariant, PTL

(* Destroying the loader finds both threads finished and no mutex held. *)
THEOREM DestroyedQuiet == Spec => []QuietWhenDestroyed
<1>1. IInv => QuietWhenDestroyed
  BY DEF IInv, TypeOK, HandleInv, MutexInv, QuietWhenDestroyed, Critical,
         Threads, Buffers, Free
<1>2. QED
  BY <1>1, InductiveInvariant, PTL

(* After the first start nothing the user does makes start throw. *)
THEOREM RestartNeverThrows == Spec => OnlyFirstStartFails
<1>1. IInv /\ [Next]_vars => (gui' = "aborted" => gui = "aborted" \/ ~socketOpen)
  <2> SUFFICES ASSUME IInv, [Next]_vars, gui' = "aborted", gui # "aborted"
               PROVE  ~socketOpen
    OBVIOUS
  <2>1. StartFails
    BY DEF Next, WorkerNext, ThreadStep, GuiNext, GuiStep, vars, guiVars,
           Enter, Leave, Test, Block, Break, Handover, Lock, SpuriousWakeup,
           Throw, BeginRead, ReadPreview, BeginSet, SetPreview, Start,
           ToggleOff, Quit, SpawnReader, SpawnSetter, Spawn, StopSetFlag,
           StopNotifyFirst, StopNotifySecond, JoinReader, JoinSetter, Join
  <2>2. QED
    BY <2>1 DEF IInv, HandleInv, StartFails
<1>2. QED
  BY <1>1, InductiveInvariant, PTL DEF Spec, OnlyFirstStartFails

-----------------------------------------------------------------------------
(* The two threads implement the abstract hand-off: handing a full buffer  *)
(* over is Publish, ImagePreview::set is Show, and every other step of the *)
(* threads and of the GUI leaves the abstract queue alone.                 *)

LEMMA HandoverPublishes ==
  ASSUME IInv, Handover(Reader)
  PROVE  Handoff!Publish
<1> DEFINE r == index[Reader]  s == index[Setter]  o == OtherBuffer(s)
<1> USE DEF IInv, TypeOK
<1>1. /\ pc[Reader] = "publish" /\ buffersEmpty[r] /\ buffers[r] = received
      /\ Published = received - 1
  BY DEF Handover, FlagInv, Ready, Contents, Published, Threads
<1>2. /\ buffersEmpty' = [buffersEmpty EXCEPT ![r] = FALSE]
      /\ index' = [index EXCEPT ![Reader] = OtherBuffer(r)]
      /\ UNCHANGED <<buffers, received, shown>>
      /\ pc'[Reader] = "loop"
      /\ pc'[Setter] = "publish" <=> pc[Setter] = "publish"
  BY DEF Handover, Woken, Threads, Reader, Setter
<1>3. Published' = Published + 1
  BY <1>1, <1>2 DEF Published
<1>4. Published < MaxImages
  <2>1. received \in 0..MaxImages
    OBVIOUS
  <2>2. QED
    BY ONLY <2>1, <1>1, MaxImagesAssumption
<1>5. /\ s \in Buffers /\ o \in Buffers /\ o # s /\ OtherBuffer(o) = s
      /\ index'[Setter] = s
  BY <1>2, OtherBufferFacts DEF Threads, Reader, Setter
<1>6. pc[Setter] = "publish" => ~buffersEmpty[s]
  BY DEF FlagInv, Ready, Threads, Reader, Setter
<1>7. Len(Waiting) < 2 /\ Waiting' = Append(Waiting, Published + 1)
  <2>1. CASE Published = Consumed /\ r = s /\ buffersEmpty[s] /\ buffersEmpty[o]
    <3>1. pc[Setter] # "publish"
      BY <1>6, <2>1
    <3>2. FirstUp = s /\ Waiting = <<>>
      BY <3>1, <2>1 DEF FirstUp, Waiting
    <3>3. FirstUp' = s /\ Waiting' = <<buffers[s]>>
      BY <3>1, <2>1, <1>2, <1>5 DEF FirstUp, Waiting
    <3>4. buffers[s] = Published + 1
      BY <1>1, <2>1
    <3>5. QED
      BY <3>2, <3>3, <3>4
  <2>2. CASE /\ Published = Consumed + 1 /\ r = o
             /\ ~buffersEmpty[s] /\ buffersEmpty[o]
             /\ buffers[s] = Consumed + 1
    <3>1. CASE pc[Setter] = "publish"
      <4>1. FirstUp = o /\ Waiting = <<>>
        BY <3>1, <2>2 DEF FirstUp, Waiting
      <4>2. FirstUp' = o /\ Waiting' = <<buffers[o]>>
        BY <3>1, <2>2, <1>2, <1>5 DEF FirstUp, Waiting
      <4>3. buffers[o] = Published + 1
        BY <1>1, <2>2
      <4>4. QED
        BY <4>1, <4>2, <4>3
    <3>2. CASE pc[Setter] # "publish"
      <4>1. FirstUp = s /\ Waiting = <<buffers[s]>>
        BY <3>2, <2>2 DEF FirstUp, Waiting
      <4>2. FirstUp' = s /\ Waiting' = <<buffers[s], buffers[o]>>
        BY <3>2, <2>2, <1>2, <1>5 DEF FirstUp, Waiting
      <4>3. buffers[o] = Published + 1
        BY <1>1, <2>2
      <4>4. QED
        BY <4>1, <4>2, <4>3
    <3>3. QED
      BY <3>1, <3>2
  <2>3. QED
    BY <2>1, <2>2, <1>1 DEF Contents
<1>8. QED
  BY <1>2, <1>3, <1>4, <1>7 DEF Handoff!Publish

LEMMA SetPreviewShows ==
  ASSUME IInv, SetPreview
  PROVE  Handoff!Show
<1> DEFINE s == index[Setter]  o == OtherBuffer(s)
<1> USE DEF IInv, TypeOK
<1>1. /\ pc[Setter] = "work" /\ ~buffersEmpty[s]
      /\ s \in Buffers /\ o \in Buffers /\ o # s /\ OtherBuffer(o) = s
  BY OtherBufferFacts DEF SetPreview, FlagInv, Ready, Threads, Reader, Setter
<1>2. /\ UNCHANGED <<buffers, buffersEmpty, index, received>>
      /\ shown' = Append(shown, buffers[s])
      /\ pc'[Setter] = "publish"
      /\ pc'[Reader] = pc[Reader]
  BY DEF SetPreview, guiVars, Threads, Reader, Setter
<1>3. Published' = Published
  BY <1>2 DEF Published
<1>4. FirstUp = s /\ FirstUp' = o
  BY <1>1, <1>2 DEF FirstUp
<1>5. Waiting # <<>> /\ Head(Waiting) = buffers[s] /\ Waiting' = Tail(Waiting)
  <2>1. CASE buffersEmpty[o]
    <3>1. Waiting = <<buffers[s]>>
      BY <1>1, <1>4, <2>1 DEF Waiting
    <3>2. Waiting' = <<>>
      BY <1>2, <1>4, <2>1 DEF Waiting
    <3>3. QED
      BY <3>1, <3>2
  <2>2. CASE ~buffersEmpty[o]
    <3>1. Waiting = <<buffers[s], buffers[o]>>
      BY <1>1, <1>4, <2>2 DEF Waiting
    <3>2. Waiting' = <<buffers[o]>>
      BY <1>1, <1>2, <1>4, <2>2 DEF Waiting
    <3>3. QED
      BY <3>1, <3>2
  <2>3. QED
    BY <2>1, <2>2
<1>6. QED
  BY <1>2, <1>3, <1>5 DEF Handoff!Show

(* Returning the buffer just shown changes nothing for the abstract queue. *)
LEMMA HandbackStutters ==
  ASSUME IInv, Handover(Setter)
  PROVE  UNCHANGED Handoff!vars
<1> DEFINE s == index[Setter]  o == OtherBuffer(s)
<1> USE DEF IInv, TypeOK
<1>1. /\ pc[Setter] = "publish" /\ pc'[Setter] = "loop"
      /\ pc'[Reader] = "publish" <=> pc[Reader] = "publish"
      /\ buffersEmpty' = [buffersEmpty EXCEPT ![s] = TRUE]
      /\ index'[Setter] = o
      /\ UNCHANGED <<buffers, received, shown>>
  BY DEF Handover, Woken, Threads, Reader, Setter
<1>2. s \in Buffers /\ o \in Buffers /\ o # s /\ OtherBuffer(o) = s
  BY OtherBufferFacts DEF Threads, Reader, Setter
<1>3. FirstUp = o /\ FirstUp' = o
  BY <1>1 DEF FirstUp
<1>4. buffersEmpty'[o] = buffersEmpty[o] /\ buffersEmpty'[s]
  BY <1>1, <1>2
<1>5. Waiting' = Waiting
  BY <1>1, <1>2, <1>3, <1>4 DEF Waiting
<1>6. Published' = Published
  BY <1>1 DEF Published
<1>7. QED
  BY <1>1, <1>5, <1>6 DEF Handoff!vars

(* Every step is a step of the abstract hand-off, or none. *)
LEMMA StepImplements ==
  ASSUME IInv, [Next]_vars
  PROVE  [Handoff!Next]_(Handoff!vars)
<1> USE DEF IInv, TypeOK
<1>1. ASSUME NEW t \in Threads, Enter(t) PROVE UNCHANGED Handoff!vars
  <2>1. UNCHANGED <<index, buffersEmpty, buffers, received, shown>>
    BY <1>1 DEF Enter, guiVars, threadVars
  <2>2. \A u \in Threads : pc'[u] = "publish" <=> pc[u] = "publish"
    BY <1>1 DEF Enter, guiVars, threadVars
  <2>3. QED
    BY <2>1, <2>2 DEF Handoff!vars, Published, Waiting, FirstUp, Threads
<1>2. ASSUME NEW t \in Threads, Leave(t) PROVE UNCHANGED Handoff!vars
  <2>1. UNCHANGED <<index, buffersEmpty, buffers, received, shown>>
    BY <1>2 DEF Leave, guiVars, threadVars
  <2>2. \A u \in Threads : pc'[u] = "publish" <=> pc[u] = "publish"
    BY <1>2 DEF Leave, guiVars, threadVars
  <2>3. QED
    BY <2>1, <2>2 DEF Handoff!vars, Published, Waiting, FirstUp, Threads
<1>3. ASSUME NEW t \in Threads, Test(t) PROVE UNCHANGED Handoff!vars
  <2>1. UNCHANGED <<index, buffersEmpty, buffers, received, shown>>
    BY <1>3 DEF Test, guiVars, threadVars
  <2>2. \A u \in Threads : pc'[u] = "publish" <=> pc[u] = "publish"
    BY <1>3 DEF Test, guiVars, threadVars
  <2>3. QED
    BY <2>1, <2>2 DEF Handoff!vars, Published, Waiting, FirstUp, Threads
<1>4. ASSUME NEW t \in Threads, Block(t) PROVE UNCHANGED Handoff!vars
  <2>1. UNCHANGED <<index, buffersEmpty, buffers, received, shown>>
    BY <1>4 DEF Block, guiVars, threadVars
  <2>2. \A u \in Threads : pc'[u] = "publish" <=> pc[u] = "publish"
    BY <1>4 DEF Block, guiVars, threadVars
  <2>3. QED
    BY <2>1, <2>2 DEF Handoff!vars, Published, Waiting, FirstUp, Threads
<1>5. ASSUME NEW t \in Threads, Break(t) PROVE UNCHANGED Handoff!vars
  <2>1. UNCHANGED <<index, buffersEmpty, buffers, received, shown>>
    BY <1>5 DEF Break, guiVars, threadVars
  <2>2. \A u \in Threads : pc'[u] = "publish" <=> pc[u] = "publish"
    BY <1>5 DEF Break, guiVars, threadVars
  <2>3. QED
    BY <2>1, <2>2 DEF Handoff!vars, Published, Waiting, FirstUp, Threads
<1>6. ASSUME NEW t \in Threads, Handover(t) PROVE [Handoff!Next]_(Handoff!vars)
  BY <1>6, HandoverPublishes, HandbackStutters DEF Threads, Handoff!Next
<1>7. ASSUME NEW t \in Threads, Lock(t) PROVE UNCHANGED Handoff!vars
  <2>1. UNCHANGED <<index, buffersEmpty, buffers, received, shown>>
    BY <1>7 DEF Lock, guiVars, threadVars
  <2>2. \A u \in Threads : pc'[u] = "publish" <=> pc[u] = "publish"
    BY <1>7 DEF Lock, guiVars, threadVars
  <2>3. QED
    BY <2>1, <2>2 DEF Handoff!vars, Published, Waiting, FirstUp, Threads
<1>8. ASSUME NEW t \in Threads, SpuriousWakeup(t) PROVE UNCHANGED Handoff!vars
  <2>1. UNCHANGED <<index, buffersEmpty, buffers, received, shown>>
    BY <1>8 DEF SpuriousWakeup, guiVars, threadVars
  <2>2. \A u \in Threads : pc'[u] = "publish" <=> pc[u] = "publish"
    BY <1>8 DEF SpuriousWakeup, guiVars, threadVars
  <2>3. QED
    BY <2>1, <2>2 DEF Handoff!vars, Published, Waiting, FirstUp, Threads
<1>9. ASSUME NEW t \in Threads, Throw(t) PROVE UNCHANGED Handoff!vars
  <2>1. UNCHANGED <<index, buffersEmpty, buffers, received, shown>>
    BY <1>9 DEF Throw, guiVars, threadVars
  <2>2. \A u \in Threads : pc'[u] = "publish" <=> pc[u] = "publish"
    BY <1>9 DEF Throw, guiVars, threadVars
  <2>3. QED
    BY <2>1, <2>2 DEF Handoff!vars, Published, Waiting, FirstUp, Threads
<1>10. ASSUME BeginRead PROVE UNCHANGED Handoff!vars
  <2> DEFINE r == index[Reader]
  <2>1. /\ buffersEmpty[r] /\ r \in Buffers
        /\ \A b \in Buffers : b # r => buffers'[b] = buffers[b]
        /\ UNCHANGED <<buffersEmpty, index, shown>>
        /\ pc'[Setter] = pc[Setter]
    BY <1>10 DEF BeginRead, FlagInv, Ready, guiVars, Threads, Reader, Setter
  <2>2. FirstUp \in Buffers /\ OtherBuffer(FirstUp) \in Buffers
    BY OtherBufferFacts DEF FirstUp, Threads, Reader, Setter
  <2>3. FirstUp' = FirstUp
    BY <2>1 DEF FirstUp
  <2>4. Waiting' = Waiting
    BY <2>1, <2>2, <2>3 DEF Waiting
  <2>5. Published' = Published
    BY <1>10 DEF BeginRead, Published, Threads, Reader, Setter
  <2>6. QED
    BY <2>1, <2>4, <2>5 DEF Handoff!vars
<1>11. ASSUME ReadPreview PROVE UNCHANGED Handoff!vars
  <2> DEFINE r == index[Reader]
  <2>1. /\ buffersEmpty[r] /\ r \in Buffers
        /\ \A b \in Buffers : b # r => buffers'[b] = buffers[b]
        /\ UNCHANGED <<buffersEmpty, index, shown>>
        /\ pc'[Setter] = pc[Setter]
    BY <1>11 DEF ReadPreview, FlagInv, Ready, guiVars, Threads, Reader, Setter
  <2>2. FirstUp \in Buffers /\ OtherBuffer(FirstUp) \in Buffers
    BY OtherBufferFacts DEF FirstUp, Threads, Reader, Setter
  <2>3. FirstUp' = FirstUp
    BY <2>1 DEF FirstUp
  <2>4. Waiting' = Waiting
    BY <2>1, <2>2, <2>3 DEF Waiting
  <2>5. Published' = Published
    BY <1>11 DEF ReadPreview, Published, Threads, Reader, Setter
  <2>6. QED
    BY <2>1, <2>4, <2>5 DEF Handoff!vars
<1>12. ASSUME BeginSet PROVE UNCHANGED Handoff!vars
  <2>1. UNCHANGED <<index, buffersEmpty, buffers, received, shown>>
    BY <1>12 DEF BeginSet, guiVars, threadVars
  <2>2. \A u \in Threads : pc'[u] = "publish" <=> pc[u] = "publish"
    BY <1>12 DEF BeginSet, guiVars, threadVars
  <2>3. QED
    BY <2>1, <2>2 DEF Handoff!vars, Published, Waiting, FirstUp, Threads
<1>13. ASSUME SetPreview PROVE [Handoff!Next]_(Handoff!vars)
  BY <1>13, SetPreviewShows DEF Handoff!Next
<1>14. ASSUME Start PROVE UNCHANGED Handoff!vars
  <2>1. \A t \in Threads : pc[t] = "none"
    BY <1>14 DEF Start, HandleInv, isRunning
  <2>2. received = 0 /\ shown = <<>>
    BY <2>1 DEF HandleInv, Threads
  <2>3. Published = 0 /\ Consumed = 0
    BY <2>1, <2>2 DEF Published, Consumed, Threads, Reader, Setter
  <2>4. \A b \in Buffers : buffersEmpty[b]
    BY <2>3, OtherBufferFacts DEF Contents, Threads
  <2>5. buffersEmpty' = buffersEmpty
    BY <1>14, <2>4 DEF Start
  <2>6. QED
    BY <1>14, <2>5 DEF Start, Handoff!vars, Published, Waiting, FirstUp
<1>15. ASSUME StartFails PROVE UNCHANGED Handoff!vars
  <2>1. UNCHANGED <<index, buffersEmpty, buffers, received, shown>>
    BY <1>15 DEF StartFails, guiVars, threadVars
  <2>2. \A u \in Threads : pc'[u] = "publish" <=> pc[u] = "publish"
    BY <1>15 DEF StartFails, guiVars, threadVars
  <2>3. QED
    BY <2>1, <2>2 DEF Handoff!vars, Published, Waiting, FirstUp, Threads
<1>16. ASSUME ToggleOff PROVE UNCHANGED Handoff!vars
  <2>1. UNCHANGED <<index, buffersEmpty, buffers, received, shown>>
    BY <1>16 DEF ToggleOff, guiVars, threadVars
  <2>2. \A u \in Threads : pc'[u] = "publish" <=> pc[u] = "publish"
    BY <1>16 DEF ToggleOff, guiVars, threadVars
  <2>3. QED
    BY <2>1, <2>2 DEF Handoff!vars, Published, Waiting, FirstUp, Threads
<1>17. ASSUME Quit PROVE UNCHANGED Handoff!vars
  <2>1. UNCHANGED <<index, buffersEmpty, buffers, received, shown>>
    BY <1>17 DEF Quit, guiVars, threadVars
  <2>2. \A u \in Threads : pc'[u] = "publish" <=> pc[u] = "publish"
    BY <1>17 DEF Quit, guiVars, threadVars
  <2>3. QED
    BY <2>1, <2>2 DEF Handoff!vars, Published, Waiting, FirstUp, Threads
<1>18. ASSUME SpawnReader PROVE UNCHANGED Handoff!vars
  <2>1. index' = index /\ UNCHANGED <<buffersEmpty, buffers, received, shown>>
    BY <1>18 DEF SpawnReader, Spawn, HandleInv, Threads, Reader, Setter
  <2>2. \A t \in Threads : pc'[t] = "publish" <=> pc[t] = "publish"
    BY <1>18 DEF SpawnReader, Spawn, HandleInv, Threads, Reader, Setter
  <2>3. QED
    BY <2>1, <2>2 DEF Handoff!vars, Published, Waiting, FirstUp, Threads
<1>19. ASSUME SpawnSetter PROVE UNCHANGED Handoff!vars
  <2>1. index' = index /\ UNCHANGED <<buffersEmpty, buffers, received, shown>>
    BY <1>19 DEF SpawnSetter, Spawn, HandleInv, Threads, Reader, Setter
  <2>2. \A t \in Threads : pc'[t] = "publish" <=> pc[t] = "publish"
    BY <1>19 DEF SpawnSetter, Spawn, HandleInv, Threads, Reader, Setter
  <2>3. QED
    BY <2>1, <2>2 DEF Handoff!vars, Published, Waiting, FirstUp, Threads
<1>20. ASSUME StopSetFlag PROVE UNCHANGED Handoff!vars
  <2>1. UNCHANGED <<index, buffersEmpty, buffers, received, shown>>
    BY <1>20 DEF StopSetFlag, guiVars, threadVars
  <2>2. \A u \in Threads : pc'[u] = "publish" <=> pc[u] = "publish"
    BY <1>20 DEF StopSetFlag, guiVars, threadVars
  <2>3. QED
    BY <2>1, <2>2 DEF Handoff!vars, Published, Waiting, FirstUp, Threads
<1>21. ASSUME StopNotifyFirst PROVE UNCHANGED Handoff!vars
  <2>1. UNCHANGED <<index, buffersEmpty, buffers, received, shown>>
    BY <1>21 DEF StopNotifyFirst, guiVars, threadVars
  <2>2. \A u \in Threads : pc'[u] = "publish" <=> pc[u] = "publish"
    BY <1>21 DEF StopNotifyFirst, Woken, guiVars, threadVars
  <2>3. QED
    BY <2>1, <2>2 DEF Handoff!vars, Published, Waiting, FirstUp, Threads
<1>22. ASSUME StopNotifySecond PROVE UNCHANGED Handoff!vars
  <2>1. UNCHANGED <<index, buffersEmpty, buffers, received, shown>>
    BY <1>22 DEF StopNotifySecond, guiVars, threadVars
  <2>2. \A u \in Threads : pc'[u] = "publish" <=> pc[u] = "publish"
    BY <1>22 DEF StopNotifySecond, Woken, guiVars, threadVars
  <2>3. QED
    BY <2>1, <2>2 DEF Handoff!vars, Published, Waiting, FirstUp, Threads
<1>23. ASSUME JoinReader PROVE UNCHANGED Handoff!vars
  <2>1. UNCHANGED <<index, buffersEmpty, buffers, received, shown>>
    BY <1>23 DEF JoinReader, Join, guiVars, threadVars
  <2>2. \A u \in Threads : pc'[u] = "publish" <=> pc[u] = "publish"
    BY <1>23 DEF JoinReader, Join, guiVars, threadVars
  <2>3. QED
    BY <2>1, <2>2 DEF Handoff!vars, Published, Waiting, FirstUp, Threads
<1>24. ASSUME JoinSetter PROVE UNCHANGED Handoff!vars
  <2>1. UNCHANGED <<index, buffersEmpty, buffers, received, shown>>
    BY <1>24 DEF JoinSetter, Join, guiVars, threadVars
  <2>2. \A u \in Threads : pc'[u] = "publish" <=> pc[u] = "publish"
    BY <1>24 DEF JoinSetter, Join, guiVars, threadVars
  <2>3. QED
    BY <2>1, <2>2 DEF Handoff!vars, Published, Waiting, FirstUp, Threads
<1>25. CASE UNCHANGED vars
  BY <1>25 DEF vars, guiVars, threadVars, Handoff!vars, Published, Waiting,
         FirstUp
<1>26. QED
  BY <1>1, <1>2, <1>3, <1>4, <1>5, <1>6, <1>7, <1>8, <1>9, <1>10, <1>11, <1>12,
     <1>13, <1>14, <1>15, <1>16, <1>17, <1>18, <1>19, <1>20, <1>21, <1>22,
     <1>23, <1>24, <1>25
  DEF Next, WorkerNext, ThreadStep, GuiNext, GuiStep

THEOREM Implements == Spec => ImplementsHandoff
<1>1. Init => Handoff!Init
  <2> SUFFICES ASSUME Init PROVE Handoff!Init
    OBVIOUS
  <2>1. pc[Reader] # "publish" /\ pc[Setter] # "publish" /\ index[Setter] \in Buffers
    BY DEF Init, Threads, Buffers
  <2>2. buffersEmpty[FirstUp]
    BY <2>1 DEF Init, FirstUp
  <2>3. Waiting = <<>> /\ Published = 0 /\ shown = <<>>
    BY <2>1, <2>2 DEF Init, Waiting, Published
  <2>4. QED
    BY <2>3 DEF Handoff!Init
<1>2. QED
  BY <1>1, StepImplements, InductiveInvariant, PTL
  DEF Spec, ImplementsHandoff, Handoff!Spec

=============================================================================

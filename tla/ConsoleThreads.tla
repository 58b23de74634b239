--------------------------- MODULE ConsoleThreads ---------------------------
(***************************************************************************)
(* The console's threads and the two processors they feed (sys_main.c):    *)
(* the main thread, which schedules tasks on the RSP, the audio thread,    *)
(* the graphics thread that runs the game, the serial thread, and the      *)
(* queues between them, with the RSP, the RDP and the vertical interrupt   *)
(* (VI).  A thread runs only while no thread of a higher priority can.     *)
(*                                                                         *)
(* The model starts where Graphics_ThreadEntry has asked for the first     *)
(* controller data.  A frame number counts to 6 and on from 1: the code    *)
(* uses it modulo 2 and 3, and tells 0 apart.  The screen is not filled: a *)
(* fill keeps SwapBuffer from its swap, and covers the buffers.            *)
(***************************************************************************)
EXTENDS Integers, Sequences, FiniteSets

CONSTANTS
  None,
  FillBuffer,    \* gFillBuffer, what the boot leaves on the screen
  GfxVIs,        \* size of gGfxVImesgQueue (4)
  VIsPerFrame    \* what gVIsPerFrame may be

ASSUME ThreadsAssumption ==
  /\ GfxVIs \in Nat \ {0} /\ VIsPerFrame \subseteq 0..255 /\ VIsPerFrame # {}
  /\ None \notin {"gfx0", "gfx1", "audio"} /\ FillBuffer \notin 0..2

Pools == {"gfx0", "gfx1"}            \* the task in gGfxPools[i]
Tasks == Pools \cup {"audio"}         \* either of gAudioRspTasks
Buffers == 0..2                      \* gFrameBuffers
States == {"not_started", "running", "interrupted", "finished", "finished_dp"}

VARIABLES
  \* messages
  mainQ, taskQ, audioVI, gfxVI, gfxTask, serialQ, controller, save,
  \* the main thread
  gCurrentTask, sAudioTask, sGfxTasks,
  state,        \* of the graphics tasks; that of an audio task is never read
  \* the graphics thread
  pc, frame,
  left,         \* VIs to wait for
  stop,         \* gStopTasks
  \* the serial thread
  serial,
  \* the RSP, its yield signals, the RDP, the video interface
  rsp, yield, yielded,
  rdp,          \* the frame that is not drawn yet
  synced,       \* the RSP has left it, and sent its gDPFullSync
  shown, next

queues == <<mainQ, taskQ, audioVI, gfxVI, gfxTask, serialQ, controller, save>>
mainVars == <<gCurrentTask, sAudioTask, sGfxTasks, state>>
gfxVars == <<pc, frame, left, stop>>
rcpVars == <<rsp, yield, yielded, rdp, synced>>
viVars == <<shown, next>>
vars == <<queues, mainVars, gfxVars, serial, rcpVars, viVars>>

\* Mutant: a full queue grows.
PutAlways(queue, n, mesg) == Append(queue, mesg)

\* osSendMesg with OS_MESG_NOBLOCK on a queue of n messages.
Put(queue, n, mesg) == IF Len(queue) < n THEN Append(queue, mesg) ELSE queue

Queued(q, m) == \E i \in DOMAIN q : q[i] = m

\* Mutant: all frames use one pool.
OnlyPool(n) == "gfx0"

Pool(n) == IF n % 2 = 0 THEN "gfx0" ELSE "gfx1"

TypeOK ==
  /\ mainQ \in Seq({"VI", "SP", "DP"}) /\ Len(mainQ) <= 32
  /\ taskQ \in Seq(Tasks) /\ Len(taskQ) <= 16
  /\ audioVI \in {<<>>, <<"VI">>}
  /\ gfxVI \in Seq({"VI"}) /\ Len(gfxVI) <= GfxVIs
  /\ gfxTask \in Seq({"task"}) /\ Len(gfxTask) <= 2
  /\ serialQ \in Seq({"READ", "RUMBLE", "SAVE"}) /\ Len(serialQ) <= 8
  /\ controller \in {<<>>, <<"DONE">>} /\ save \in {<<>>, <<"DONE">>}
  /\ gCurrentTask \in Tasks \cup {None} /\ sAudioTask \in {"audio", None}
  /\ sGfxTasks \in Seq(Pools) /\ Len(sGfxTasks) <= 2
  /\ state \in [Pools -> States]
  /\ pc \in {"controller", "update", "save", "drain", "drained", "task", "swap",
             "count", "vi"}
  /\ frame \in 0..6 /\ left \in 0..GfxVIs + 4 /\ stop \in BOOLEAN
  /\ serial \in {"idle", "READ", "RUMBLE", "SAVE"}
  /\ rsp \in Tasks \cup {None} /\ yield \in BOOLEAN /\ yielded \in BOOLEAN
  /\ rdp \in Pools \cup {None} /\ synced \in BOOLEAN
  /\ shown \in Buffers \cup {FillBuffer} /\ next \in Buffers \cup {FillBuffer}

Init ==
  /\ mainQ = <<>> /\ taskQ = <<>> /\ audioVI = <<>> /\ gfxVI = <<>> /\ gfxTask = <<>>
  /\ serialQ = <<"READ">> /\ controller = <<>> /\ save = <<>>
  /\ gCurrentTask = None /\ sAudioTask = None /\ sGfxTasks = <<>>
  /\ state = [p \in Pools |-> "not_started"]
  /\ pc = "update" /\ frame = 0 /\ left = 0 /\ stop = FALSE
  /\ serial = "idle"
  /\ rsp = None /\ yield = FALSE /\ yielded = FALSE /\ rdp = None /\ synced = FALSE
  /\ shown = FillBuffer /\ next = FillBuffer

-----------------------------------------------------------------------------
(* Priorities: main 100, audio 80, graphics 40, serial 20                  *)

MainReady == mainQ # <<>>
AudioReady == audioVI # <<>>
GraphicsBlocked ==
  CASE pc = "controller" -> controller = <<>>
    [] pc = "save" -> save = <<>>
    [] pc = "drain" -> gfxTask = <<>>
    [] pc = "task" -> gfxTask = <<>> /\ frame # 0
    [] pc = "vi" -> gfxVI = <<>>
    [] OTHER -> FALSE

AudioMayRun == ~MainReady
GraphicsMayRun == ~MainReady /\ ~AudioReady
SerialMayRun == ~MainReady /\ ~AudioReady /\ GraphicsBlocked

-----------------------------------------------------------------------------
(* The RSP, the RDP and the video interface                                *)

\* The VI manager swaps the buffers and tells the main thread.  The main
\* thread, of a higher priority than all the others here, has dealt with one
\* VI when the next comes, 16 ms later, and the RSP with a frame's last command.
VI ==
  /\ ~Queued(mainQ, "VI")
  /\ rsp \in Pools => rdp = rsp
  /\ shown' = next
  /\ mainQ' = Put(mainQ, 32, "VI")
  /\ UNCHANGED <<taskQ, audioVI, gfxVI, gfxTask, serialQ, controller, save, mainVars,
                 gfxVars, serial, rcpVars, next>>

\* The RSP's task breaks, with an SP interrupt.
RspBreak(withYield) ==
  /\ rsp' = None /\ yielded' = withYield
  /\ mainQ' = Put(mainQ, 32, "SP")
  /\ UNCHANGED <<taskQ, audioVI, gfxVI, gfxTask, serialQ, controller, save, mainVars,
                 gfxVars, serial, yield, rdp, viVars>>

RspAudio == rsp = "audio" /\ RspBreak(FALSE) /\ UNCHANGED synced
RspGfx == rsp \in Pools /\ RspBreak(FALSE) /\ synced' = (rdp # None)

\* Perhaps with no more than the end of the display list left to do.
RspYields ==
  /\ rsp \in Pools /\ yield /\ RspBreak(TRUE)
  /\ synced' \in {synced, rdp # None}

\* The RDP reaches the frame's gDPFullSync, the RSP's last command but one: a
\* DP interrupt, before or after the RSP's.
RdpDone ==
  /\ rdp # None /\ (synced \/ rsp = rdp)
  /\ rdp' = None /\ synced' = FALSE
  /\ mainQ' = Put(mainQ, 32, "DP")
  /\ UNCHANGED <<taskQ, audioVI, gfxVI, gfxTask, serialQ, controller, save, mainVars,
                 gfxVars, serial, rsp, yield, yielded, viVars>>

-----------------------------------------------------------------------------
(* The main thread: one message, then Main_StartNextTask                   *)

Start(task) ==
  /\ gCurrentTask' = task
  /\ rsp' = task /\ yield' = FALSE /\ yielded' = FALSE

\* Main_StartNextTask, on what the message has left of the scheduler's state.
Interrupts(current, audio) == audio # None /\ current \in Pools
StartsAudio(current, audio) == audio # None /\ current = None

\* Mutant: a task that the RSP is done with, and the RDP is not, starts again.
StartsGfxAgain(current, audio, gfx, st) ==
  audio = None /\ current = None /\ gfx # <<>>

StartsGfx(current, audio, gfx, st) ==
  audio = None /\ current = None /\ gfx # <<>> /\ st[Head(gfx)] # "finished"

StartNextTask(current, audio, gfx, st) ==
  \/ /\ ~stop /\ Interrupts(current, audio)
     /\ gCurrentTask' = current /\ state' = [st EXCEPT ![current] = "interrupted"]
     /\ yield' = TRUE /\ UNCHANGED <<rsp, yielded, rdp, synced>>
  \/ /\ ~stop /\ StartsAudio(current, audio)
     /\ Start(audio) /\ state' = st
     /\ UNCHANGED <<rdp, synced>>
  \/ /\ ~stop /\ StartsGfx(current, audio, gfx, st)
     /\ Start(Head(gfx)) /\ state' = [st EXCEPT ![Head(gfx)] = "running"]
     /\ IF st[Head(gfx)] = "interrupted"     \* goes on where it was
        THEN UNCHANGED <<rdp, synced>>
        ELSE rdp' = Head(gfx) /\ synced' = FALSE
  \/ /\ stop \/ ~( \/ Interrupts(current, audio) \/ StartsAudio(current, audio)
                   \/ StartsGfx(current, audio, gfx, st))
     /\ gCurrentTask' = current /\ state' = st
     /\ UNCHANGED <<rsp, yield, yielded, rdp, synced>>

Min2(a, b) == IF a < b THEN a ELSE b
Earliest(places) == CHOOSE i \in places : \A j \in places : i <= j

\* sNewGfxTasks, of two tasks.
NewGfxTasks ==
  LET new == {i \in DOMAIN taskQ : taskQ[i] \in Pools}
      more == new \ {Earliest(new)}
  IN CASE new = {} -> <<>>
       [] new # {} /\ more = {} -> <<taskQ[Earliest(new)]>>
       [] OTHER -> <<taskQ[Earliest(new)], taskQ[Earliest(more)]>>
FirstTwo(s) == SubSeq(s, 1, Min2(2, Len(s)))

\* Main_GetNewTasks keeps a first audio task, and two graphics tasks.
HandleVI ==
  /\ Head(mainQ) = "VI"
  /\ audioVI' = Put(audioVI, 1, "VI") /\ gfxVI' = Put(gfxVI, GfxVIs, "VI")
  /\ taskQ' = <<>>
  /\ sAudioTask' = IF Queued(taskQ, "audio") THEN "audio" ELSE sAudioTask
  /\ sGfxTasks' = FirstTwo(sGfxTasks \o NewGfxTasks)
  /\ StartNextTask(gCurrentTask, sAudioTask', sGfxTasks',
       [p \in Pools |-> IF Queued(taskQ, p) THEN "not_started" ELSE state[p]])
  /\ UNCHANGED gfxTask

\* Main_HandleRSP
HandleSP ==
  /\ Head(mainQ) = "SP"
  /\ sAudioTask' = IF gCurrentTask = "audio" THEN None ELSE sAudioTask
  /\ StartNextTask(None, sAudioTask', sGfxTasks,
       IF gCurrentTask \in Pools /\ ~(state[gCurrentTask] = "interrupted" /\ yielded)
       THEN [state EXCEPT ![gCurrentTask] = "finished"] ELSE state)
  /\ UNCHANGED <<taskQ, audioVI, gfxVI, gfxTask, sGfxTasks>>

\* Main_HandleRDP
HandleDP ==
  /\ Head(mainQ) = "DP"
  /\ gfxTask' = Put(gfxTask, 2, "task")
  /\ sGfxTasks' = Tail(sGfxTasks)
  /\ StartNextTask(gCurrentTask, sAudioTask, sGfxTasks',
       [state EXCEPT ![Head(sGfxTasks)] = "finished_dp"])
  /\ UNCHANGED <<taskQ, audioVI, gfxVI, sAudioTask>>

Main ==
  /\ mainQ # <<>> /\ mainQ' = Tail(mainQ)
  /\ HandleVI \/ HandleSP \/ HandleDP
  /\ UNCHANGED <<serialQ, controller, save, gfxVars, serial, viVars>>

-----------------------------------------------------------------------------
(* The audio thread                                                        *)

\* A turn of Audio_ThreadEntry's loop, from one VI to the next.  Depending on
\* the audio buffers and on resets, AudioThread_CreateTask returns NULL.
Audio ==
  /\ AudioMayRun /\ audioVI # <<>>
  /\ audioVI' = <<>>
  /\ taskQ' \in {taskQ, Put(taskQ, 16, "audio")}
  /\ UNCHANGED <<mainQ, gfxVI, gfxTask, serialQ, controller, save, mainVars, gfxVars,
                 serial, rcpVars, viVars>>

-----------------------------------------------------------------------------
(* The graphics thread                                                     *)

\* Graphics_InitializeTask
NextFrame ==
  /\ frame' = IF frame = 6 THEN 1 ELSE frame + 1
  /\ pc' = "controller"

ReadController ==
  /\ GraphicsMayRun /\ pc = "controller" /\ controller # <<>>
  /\ controller' = <<>>
  /\ serialQ' = Put(Put(serialQ, 8, "RUMBLE"), 8, "READ")
  /\ pc' = "update"
  /\ UNCHANGED <<mainQ, taskQ, audioVI, gfxVI, gfxTask, save, mainVars,
                 frame, left, stop, serial, rcpVars, viVars>>

\* Game_Update writes the frame's display lists.  From the second frame on it
\* may stop the tasks for a reset (Graphics_NMIWipe), ask for the EEPROM, or
\* load a practice state.
Update ==
  /\ GraphicsMayRun /\ pc = "update"
  /\ \/ pc' = "task" /\ UNCHANGED <<serialQ, stop>>
     \/ frame # 0 /\ pc' = "task" /\ stop' = TRUE /\ UNCHANGED serialQ
     \/ frame # 0 /\ pc' = "save" /\ serialQ' = Put(serialQ, 8, "SAVE") /\ UNCHANGED stop
     \/ frame # 0 /\ pc' = "drain" /\ UNCHANGED <<serialQ, stop>>
  /\ UNCHANGED <<mainQ, taskQ, audioVI, gfxVI, gfxTask, controller, save, mainVars,
                 frame, left, serial, rcpVars, viVars>>

\* Save_Read and Save_Write wait for the serial thread.
SaveDone ==
  /\ GraphicsMayRun /\ pc = "save" /\ save # <<>>
  /\ save' = <<>> /\ pc' = "task"
  /\ UNCHANGED <<mainQ, taskQ, audioVI, gfxVI, gfxTask, serialQ, controller, mainVars,
                 frame, left, stop, serial, rcpVars, viVars>>

\* Mutant: a practice state is loaded without the wait.
DoNotDrain ==
  /\ GraphicsMayRun /\ pc = "drain"
  /\ pc' = "drained"
  /\ UNCHANGED <<queues, mainVars, frame, left, stop, serial, rcpVars, viVars>>

\* Snapshot_ApplyToGame waits for the graphics task, and gives back the
\* message the frame's own wait is for.
Drain ==
  /\ GraphicsMayRun /\ pc = "drain" /\ gfxTask # <<>>
  /\ gfxTask' = Tail(gfxTask) /\ pc' = "drained"
  /\ UNCHANGED <<mainQ, taskQ, audioVI, gfxVI, serialQ, controller, save, mainVars,
                 frame, left, stop, serial, rcpVars, viVars>>

\* Mutant: the message is kept.
KeepMesg ==
  /\ GraphicsMayRun /\ pc = "drained" /\ pc' = "task"
  /\ UNCHANGED <<queues, mainVars, frame, left, stop, serial, rcpVars, viVars>>

GiveBack ==
  /\ GraphicsMayRun /\ pc = "drained"
  /\ gfxTask' = Put(gfxTask, 2, "task") /\ pc' = "task"
  /\ UNCHANGED <<mainQ, taskQ, audioVI, gfxVI, serialQ, controller, save, mainVars,
                 frame, left, stop, serial, rcpVars, viVars>>

\* Graphics_SetTask; but for the first frame, once the one before it is done.
SetTask ==
  /\ GraphicsMayRun /\ pc = "task"
  /\ IF frame = 0 THEN NextFrame /\ UNCHANGED gfxTask
     ELSE /\ gfxTask # <<>> /\ gfxTask' = Tail(gfxTask)
          /\ pc' = "swap" /\ UNCHANGED frame
  /\ taskQ' = Put(taskQ, 16, Pool(frame))
  /\ UNCHANGED <<mainQ, audioVI, gfxVI, serialQ, controller, save, mainVars,
                 left, stop, serial, rcpVars, viVars>>

SwapBuffer ==
  /\ GraphicsMayRun /\ pc = "swap"
  /\ next' = (frame - 1) % 3
  /\ pc' = "count"
  /\ UNCHANGED <<queues, mainVars, frame, left, stop, serial, rcpVars, shown>>

\* Mutant: the VIs that are waiting.
NoVIMore(n) ==
  LET visPerFrame == Min2(n, 4)
  IN IF visPerFrame > Len(gfxVI) THEN visPerFrame ELSE Len(gfxVI)

\* validVIsPerFrame: one VI more than are waiting, and at least gVIsPerFrame.
ValidVIs(n) ==
  LET visPerFrame == Min2(n, 4)
  IN IF visPerFrame > Len(gfxVI) + 1 THEN visPerFrame ELSE Len(gfxVI) + 1

CountVIs ==
  /\ GraphicsMayRun /\ pc = "count"
  /\ \E n \in VIsPerFrame : left' = ValidVIs(n)
  /\ pc' = "vi"
  /\ UNCHANGED <<queues, mainVars, frame, stop, serial, rcpVars, viVars>>

WaitForVI ==
  /\ GraphicsMayRun /\ pc = "vi" /\ gfxVI # <<>>
  /\ gfxVI' = Tail(gfxVI) /\ left' = left - 1
  /\ IF left = 1 THEN NextFrame ELSE UNCHANGED <<pc, frame>>
  /\ UNCHANGED <<mainQ, taskQ, audioVI, gfxTask, serialQ, controller, save, mainVars,
                 stop, serial, rcpVars, viVars>>

Graphics ==
  \/ ReadController \/ Update \/ SaveDone \/ Drain \/ GiveBack \/ SetTask
  \/ SwapBuffer \/ CountVIs \/ WaitForVI

-----------------------------------------------------------------------------
(* The serial thread                                                       *)

SerialTake ==
  /\ SerialMayRun /\ serial = "idle" /\ serialQ # <<>>
  /\ serial' = Head(serialQ) /\ serialQ' = Tail(serialQ)
  /\ UNCHANGED <<mainQ, taskQ, audioVI, gfxVI, gfxTask, controller, save, mainVars,
                 gfxVars, rcpVars, viVars>>

\* Controller_ReadData, Controller_Rumble, Save_ReadData or Save_WriteData,
\* once the serial interface has answered.
SerialFinish ==
  /\ SerialMayRun /\ serial # "idle"
  /\ serial' = "idle"
  /\ controller' = IF serial = "READ" THEN Put(controller, 1, "DONE") ELSE controller
  /\ save' = IF serial = "SAVE" THEN Put(save, 1, "DONE") ELSE save
  /\ UNCHANGED <<mainQ, taskQ, audioVI, gfxVI, gfxTask, serialQ, mainVars,
                 gfxVars, rcpVars, viVars>>

Serial == SerialTake \/ SerialFinish

Next ==
  \/ VI \/ RspAudio \/ RspGfx \/ RspYields \/ RdpDone
  \/ Main \/ Audio \/ Graphics \/ Serial

Spec == Init /\ [][Next]_vars

\* The processors get on with their work; main and audio are soon done and
\* leave the CPU to the graphics thread, which waits and leaves it to the
\* serial thread.  A frame's commands run out however often it yields.
FairSpec ==
  /\ Spec
  /\ WF_vars(VI) /\ WF_vars(RspAudio) /\ WF_vars(RspYields) /\ WF_vars(RdpDone)
  /\ WF_vars(Main) /\ SF_vars(Audio)
  /\ SF_vars(RspGfx) /\ SF_vars(Graphics) /\ SF_vars(Serial)

-----------------------------------------------------------------------------
(* Properties                                                              *)

Count(q, m) == Cardinality({i \in DOMAIN q : q[i] = m})

\* Handed to the main thread, and not yet drawn.
Outstanding(p) ==
  \/ Queued(taskQ, p) \/ Queued(sGfxTasks, p)
  \/ p \in {gCurrentTask, rsp, rdp}

\* The graphics thread writes the display lists of a pool only when the RSP
\* and the RDP are done with the frame before the last, which used it.
PoolNotReused ==
  pc \in {"update", "save", "drain", "drained", "task"} => ~Outstanding(Pool(frame))

\* Where the frame in a pool is drawn: this frame's, or the one before.
FrameBufferOf(p) == (IF p = Pool(frame) THEN frame ELSE frame - 1) % 3

\* The RDP draws into no buffer that is shown or about to be.
BufferNotShown ==
  rdp # None => FrameBufferOf(rdp) \notin {shown, next}

\* The frame handed over last; whether the RDP has yet to finish it.
Last == IF pc \in {"swap", "count", "vi"} THEN frame ELSE frame - 1
Undrawn ==
  /\ \E p \in Pools : Queued(taskQ, p) \/ Queued(sGfxTasks, p)
  /\ ~Queued(mainQ, "DP")

\* The buffer of the frame finished last.  Frame 6 counts as frame 0 again, when
\* the first frames have been shown.
Done ==
  LET f == IF Undrawn THEN Last - 1 ELSE Last
  IN IF f < 0 /\ next = FillBuffer THEN FillBuffer ELSE f % 3

\* With its three buffers the console shows every frame, in order, for a VI at
\* least, and draws over none that is shown or next (BufferNotShown): SwapBuffer
\* is called once the RDP has finished the frame it shows, and validVIsPerFrame
\* waits for one VI more than are queued.
Display == INSTANCE TripleBuffer WITH
  drawing <- IF rdp = None THEN {} ELSE {FrameBufferOf(rdp)}, done <- Done
FramesInOrder == Display!Spec

\* Every SP interrupt finds its task in gCurrentTask, every DP interrupt its
\* own at the head of sGfxTasks: Main_HandleRSP and Main_HandleRDP read no NULL.
InterruptsFindTask ==
  /\ Count(mainQ, "SP") + (IF rsp # None THEN 1 ELSE 0)
       = (IF gCurrentTask # None THEN 1 ELSE 0)
  /\ Count(mainQ, "DP") + (IF rdp # None THEN 1 ELSE 0) <= Len(sGfxTasks)
  /\ rsp # None => rsp = gCurrentTask
  /\ rdp # None => rdp = Head(sGfxTasks)

\* The message on gGfxTaskMesgQueue that practice_save.c:888 gives back is the
\* only one, and there always is one: queued, or owed by the frame under way.
Owed(p) == Count(taskQ, p) + Count(sGfxTasks, p)
OneGfxMessage ==
  Len(gfxTask) + Owed("gfx0") + Owed("gfx1")
    = IF pc = "drained" \/ frame = 0 THEN 0 ELSE 1

\* Where a practice state is loaded, the RDP draws nothing and no frame waits for
\* the main thread.
DrainedMeansIdle ==
  pc = "drained" =>
    /\ rdp = None /\ \A p \in Pools : ~Queued(taskQ, p)

\* Frame follows frame, until the reset button stops the tasks.
FramesFlow == []<>(pc = "update" \/ stop)
=============================================================================

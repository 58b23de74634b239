----------------------------- MODULE AudioReset -----------------------------
(***************************************************************************)
(* The music of the practice ROM: the level select's preview, the launch   *)
(* of a level and the music rescue (practice_level.c, practice_save.c),    *)
(* Audio_Update with its ring of sequence commands (audio_general.c), and  *)
(* the audio thread that rebuilds its heap for another audio spec and      *)
(* loads soundfonts a piece per frame (audio_thread.c, audio_heap.c,       *)
(* audio_load.c).                                                          *)
(*                                                                         *)
(* The audio thread has the higher priority: AudioTick may fall between    *)
(* any two steps of the graphics thread.  Only the music player is         *)
(* modelled; a track stands for its sequence, and for its soundfont.  Of   *)
(* the game's own sound there is the pause, which mutes every player; the  *)
(* choices of its pause screen are left out.                               *)
(***************************************************************************)
EXTENDS Naturals, Sequences, FiniteSets, SequencesExt

CONSTANTS
  Track,          \* songs of the level select
  Levels,         \* those that are the music of a level
  Specs, SpecOf,  \* audio specs; the one that a track is played with
  BootSpec,       \* AUDIOSPEC_CO
  Reset,          \* Audio_StartReset: per old and new spec, the status
  Fade,           \* ticks spent in steps 4, 3 and 2 of a reset (2, 8, 2)
  FramesPerTick,  \* frames the game draws between two audio ticks, at most
  RestartStops,   \* STOP_AUDIOCMDS queued when the players restart (3)
  \* bounds on what waits when the player acts: loads of one font, commands
  \* after a stop, commands in gThreadCmdBuffer, requests in the ring
  Flights, Backlog, Unsent, Requests,
  Answers,        \* messages counted in gExternalLoadQueue (holds 16)
  None

ASSUME AudioAssumption ==
  /\ Levels \subseteq Track /\ SpecOf \in [Track -> Specs] /\ BootSpec \in Specs
  /\ Reset \in [Specs \X Specs -> {"WAIT", "BLOCK", "unchanged"}]
  /\ Fade \in [2..4 -> Nat]
  /\ FramesPerTick \in Nat \ {0} /\ RestartStops \in Nat
  /\ Flights \in Nat /\ Backlog \in Nat /\ Unsent \in Nat /\ Requests \in Nat
  /\ Answers \in Nat \ {0}
  /\ None \notin Track /\ None \notin Specs

VARIABLES
  \* the game and the practice ROM
  screen,     \* level select, loading a level, in a level, paused in it
  level,      \* the level's music
  song,       \* sBgmList[sBgmIndex], in the level select
  preview,    \* sBgmPlaying, sBgmAudioDirty, sBgmPlayPending
  lastSpec,   \* sBgmLastSpecPacked
  rescue,     \* gPracticeBgmPending...: the track and the frames to wait
  frames,     \* frames drawn since the last audio tick
  pc,         \* where the graphics thread is in its frame
  \* audio_general.c
  spec,       \* sAudioSpecId
  ring,       \* sAudioSeqCmds
  waiting,    \* isWaitingForFonts, and the track of startSeqCmd
  prev,       \* prevSeqId
  status,     \* sAudioResetStatus
  \* between the threads
  cmds,       \* gThreadCmdBuffer: commands not yet scheduled, or skipped
  batches,    \* gThreadCmdProcQueue
  specQ,      \* gAudioSpecQueue
  resetQ,     \* gAudioResetQueue
  \* the audio thread
  heapSpec,   \* gAudioSpecId
  step, fade, \* gAudioResetStep, gResetFadeoutFramesLeft
  engine,     \* the music player, gFontLoadStatus, gAsyncLoads, its commands
  \* history
  orderly     \* how the last reset of the heap was asked for

practice == <<screen, level, song, preview, lastSpec, rescue>>
reset == <<status, resetQ, cmds, batches>>
thread == <<heapSpec, step, fade, engine>>
vars == <<practice, frames, pc, spec, ring, waiting, prev, reset, specQ, thread,
          orderly>>

Command == {<<"STOP_AUDIOCMDS">>, <<"disable">>, <<"mute">>, <<"unmute">>}
           \cup {"discard", "load", "init"} \X Track

TypeOK ==
  /\ screen \in {"select", "loading", "level", "paused"}
  /\ level \in Levels \cup {None} /\ song \in Track \cup {None}
  /\ preview \in [playing : BOOLEAN, dirty : BOOLEAN, pending : BOOLEAN]
  /\ lastSpec \in Specs \cup {None}
  /\ rescue \in [track : Levels \cup {None}, delay : 0..3]
  /\ frames \in 0..FramesPerTick
  /\ pc \in {"tick", "game", "update", "commands", "reset"}
  /\ spec \in Specs /\ status \in {"READY", "WAIT", "BLOCK"}
  /\ ring \in Seq({"PLAY"} \X Track \cup {"RESET"} \X Specs)
  /\ waiting \in Track \cup {None} /\ prev \in Track \cup {None}
  /\ cmds \in [queued : Seq(Command), skipped : Seq(Command)]
  /\ batches \in Seq([queued : Seq(Command), skipped : Seq(Command)])
  /\ Len(batches) <= 4
  /\ specQ \in Specs \cup {None} /\ resetQ \in Specs \cup {None}
  /\ heapSpec \in Specs /\ step \in 0..4 /\ fade \in Nat /\ orderly \in BOOLEAN
  /\ engine \in [playing : Track \cup {None}, muted : BOOLEAN, loads : [Track -> Nat],
                 font : [Track -> {"none", "loading", "loaded"}], answers : 0..Answers,
                 stopped : BOOLEAN, left : Seq(Command)]

NoPreview == [playing |-> FALSE, dirty |-> FALSE, pending |-> FALSE]
NoCommands == [queued |-> <<>>, skipped |-> <<>>]

\* After Audio_InitSounds and Practice_Init, which enters the level select.
Init ==
  /\ screen = "select" /\ level = None /\ song \in Track
  /\ preview = NoPreview
  /\ lastSpec = None /\ rescue = [track |-> None, delay |-> 0]
  /\ frames = 0 /\ pc = "tick"
  /\ spec = BootSpec /\ ring = <<>> /\ waiting = None /\ prev = None
  /\ status = "READY" /\ cmds = NoCommands /\ batches = <<>>
  /\ specQ = None /\ resetQ = None
  /\ heapSpec = BootSpec /\ step = 0 /\ fade = 0 /\ orderly = TRUE
  /\ engine = [playing |-> None, muted |-> FALSE, loads |-> [t \in Track |-> 0],
               font |-> [t \in Track |-> "none"], answers |-> 0,
               stopped |-> FALSE, left |-> <<>>]

-----------------------------------------------------------------------------
(* Audio_HandleReset, called by Audio_Update and by the practice code      *)

Queue(c) == cmds' = [cmds EXCEPT !.queued = @ \o c]

\* gThreadCmdReadPos = gThreadCmdWritePos: the commands stay in the buffer,
\* and nothing points to them.
Skip(c) == [queued |-> <<>>, skipped |-> c.skipped \o c.queued]

\* AudioThread_ScheduleProcessCmds; the read position moves on when the queue
\* is full, too.
Schedule(c, after) ==
  /\ batches' = IF Len(batches) < 4 THEN Append(batches, c) ELSE batches
  /\ cmds' = [(IF Len(batches) < 4 THEN NoCommands ELSE Skip(c))
                 EXCEPT !.queued = after]

Stops == [i \in 1..RestartStops |-> <<"STOP_AUDIOCMDS">>]

\* For a mutant: the reset is taken for complete before the audio thread's
\* answer is in.
ResetCompletesEarly ==
  /\ status # "READY"
  /\ status' = "READY" /\ resetQ' = None
  /\ Schedule(cmds, Stops)

\* AudioThread_ResetComplete, then Audio_RestartSeqPlayers.
ResetCompletes ==
  /\ status # "READY" /\ resetQ = heapSpec
  /\ status' = "READY" /\ resetQ' = None
  /\ Schedule(cmds, Stops)

\* The caller goes on when the status is READY, and when it is WAIT.
HandleReset ==
  \/ status = "READY" /\ UNCHANGED reset
  \/ status = "WAIT" /\ resetQ # heapSpec /\ resetQ' = None
     /\ UNCHANGED <<status, cmds, batches>>
  \/ ResetCompletes

\* With AUDIORESET_BLOCK the caller asks until the answer is in, and takes out
\* one for another spec.
Polling ==
  \/ pc = "update" \/ (pc = "tick" /\ rescue.track # None)
  \/ (pc \in {"tick", "game"} /\ screen = "select")
WrongAnswer ==
  /\ status = "BLOCK" /\ Polling
  /\ resetQ \notin {None, heapSpec} /\ resetQ' = None
  /\ UNCHANGED <<practice, frames, pc, spec, ring, waiting, prev, status, cmds, batches,
                 specQ, thread, orderly>>

-----------------------------------------------------------------------------
(* The practice code, once a frame                                         *)

AUDIO_SET_SPEC(s) == ring' = Append(ring, <<"RESET", s>>)
AUDIO_PLAY_BGM(t) == ring' = Append(ring, <<"PLAY", t>>)

\* The frames of the rescue's delay are those of PLAY_UPDATE; in the level
\* select gPlayState is what it was in the level left.
Counted == screen \in {"level", "select"}
Uncounted == screen # "level"

\* For a mutant: the rescue leaves isWaitingForFonts alone.
RescueInVain ==
  /\ pc = "tick" /\ frames < FramesPerTick /\ pc' = "game"
  /\ rescue.track # None
  /\ HandleReset
  /\ \/ /\ status' = "READY" /\ rescue.delay = 0
        /\ AUDIO_PLAY_BGM(rescue.track)
        /\ rescue' = [rescue EXCEPT !.track = None]
     \/ /\ status' = "READY" /\ rescue.delay > 0 /\ Counted
        /\ rescue' = [rescue EXCEPT !.delay = @ - 1]
        /\ UNCHANGED ring
     \/ /\ status' # "READY" \/ (rescue.delay > 0 /\ Uncounted)
        /\ UNCHANGED <<rescue, ring>>
  /\ UNCHANGED <<screen, level, song, preview, lastSpec, frames, spec, waiting, prev,
                 specQ, thread, orderly>>

\* Practice_Save_Tick comes first in a frame: the music rescue.
BgmRescue ==
  /\ pc = "tick" /\ frames < FramesPerTick /\ pc' = "game"
  /\ rescue.track # None
  /\ HandleReset
  /\ \/ /\ status' = "READY" /\ rescue.delay = 0
        /\ waiting' = None /\ AUDIO_PLAY_BGM(rescue.track)
        /\ rescue' = [rescue EXCEPT !.track = None]
     \/ /\ status' = "READY" /\ rescue.delay > 0 /\ Counted
        /\ rescue' = [rescue EXCEPT !.delay = @ - 1]
        /\ UNCHANGED <<waiting, ring>>
     \/ /\ status' # "READY" \/ (rescue.delay > 0 /\ Uncounted)
        /\ UNCHANGED <<rescue, waiting, ring>>
  /\ UNCHANGED <<screen, level, song, preview, lastSpec, frames, spec, prev,
                 specQ, thread, orderly>>

\* The rest of the frame's practice work; OnEnter makes a new start with the
\* preview, so nothing of it is kept in a level.
Frame ==
  /\ pc = "game" \/ (pc = "tick" /\ rescue.track = None)
  /\ frames < FramesPerTick /\ pc' = "update"
  /\ UNCHANGED <<frames, spec, waiting, prev, specQ, thread, orderly>>

\* The bounds on what the player does while commands and loads pile up, and
\* requests.
UpToDate ==
  /\ Len(cmds.queued) + Len(cmds.skipped) <= Unsent
  /\ Len(engine.left) <= Backlog /\ \A t \in Track : engine.loads[t] <= Flights
MayRequest == UpToDate /\ Len(ring) <= Requests

\* Practice_LevelSelect_Update: L and R pick a song, then
\* Practice_ServiceLevelSelectBgm.
LevelSelect(s) ==
  /\ screen = "select" /\ Frame
  /\ song' = s /\ (s # song => MayRequest)
  /\ LET dirty == preview.dirty \/ s # song \/ ~preview.playing IN
     IF ~dirty /\ ~preview.pending THEN
       UNCHANGED <<preview, lastSpec, ring, reset>>
     ELSE
       /\ HandleReset
       /\ IF status' # "READY" THEN
            /\ preview' = [preview EXCEPT !.dirty = dirty]
            /\ UNCHANGED <<lastSpec, ring>>
          ELSE IF SpecOf[s] # lastSpec THEN
            /\ AUDIO_SET_SPEC(SpecOf[s]) /\ lastSpec' = SpecOf[s]
            /\ preview' = [playing |-> TRUE, dirty |-> FALSE, pending |-> TRUE]
          ELSE
            /\ AUDIO_PLAY_BGM(s) /\ lastSpec' = lastSpec
            /\ preview' = [playing |-> TRUE, dirty |-> FALSE, pending |-> FALSE]
  /\ UNCHANGED <<screen, level, rescue>>

\* Practice_LaunchLevel, from the level select or the menu's restart, which is
\* there while a level loads, too.  The RESET is not deferred.
LaunchLevel(l) ==
  /\ screen # "select" => l = level
  /\ Frame /\ MayRequest
  /\ screen' = "loading" /\ level' = l
  /\ AUDIO_SET_SPEC(SpecOf[l])
  /\ rescue' = IF SpecOf[l] = lastSpec THEN [track |-> l, delay |-> 3] ELSE rescue
  /\ lastSpec' = SpecOf[l]
  /\ song' = None /\ preview' = NoPreview
  /\ UNCHANGED reset

\* A frame in which the practice code asks for no music.
OtherFrame ==
  /\ screen # "select" /\ Frame
  /\ UNCHANGED <<practice, ring, reset>>

\* Play_Init: the level starts its music.
EnterLevel ==
  /\ screen = "loading" /\ Frame
  /\ screen' = "level" /\ AUDIO_PLAY_BGM(level)
  /\ UNCHANGED <<level, song, preview, lastSpec, rescue, reset>>

\* Play_Main: START pauses the level and mutes the players, and goes on.  The
\* command is queued at once, also in a reset.
Pause ==
  /\ screen = "level" /\ Frame /\ UpToDate
  /\ screen' = "paused" /\ Queue(<<<<"mute">>>>)
  /\ UNCHANGED <<level, song, preview, lastSpec, rescue, ring, status, resetQ, batches>>

Unpause ==
  /\ screen = "paused" /\ Frame /\ UpToDate
  /\ screen' = "level" /\ Queue(<<<<"unmute">>>>)
  /\ UNCHANGED <<level, song, preview, lastSpec, rescue, ring, status, resetQ, batches>>

\* Snapshot_DrainAudioForApply: what the ring and the buffer hold is dropped.
DrainAudioForApply == ring' = <<>> /\ cmds' = Skip(cmds)

\* A slot of this level is applied: both queues are drained, and the end of
\* Snapshot_ApplyToGame queues a rescue; the delay of one that waits stays.
LoadSlot ==
  /\ screen = "level" /\ Frame /\ UpToDate
  /\ DrainAudioForApply
  /\ rescue' = [rescue EXCEPT !.track = level]
  /\ UNCHANGED <<screen, level, song, preview, lastSpec, status, resetQ, batches>>

\* practice_overlay_request_load, for a slot of another level, and for one of
\* this level when it is not in PLAY_UPDATE: not deferred either.
RequestLoad(l) ==
  /\ screen \in {"level", "paused", "loading"} /\ Frame /\ MayRequest
  /\ screen = "level" => l # level
  /\ screen' = "loading" /\ level' = l
  /\ AUDIO_SET_SPEC(SpecOf[l])
  /\ UNCHANGED <<song, preview, lastSpec, rescue, reset>>

\* Practice_LevelSelect_OnEnter.
LeaveLevel(s) ==
  /\ screen # "select" /\ Frame
  /\ screen' = "select" /\ level' = None /\ song' = s
  /\ preview' = NoPreview /\ lastSpec' = None
  /\ UNCHANGED <<rescue, ring, reset>>

-----------------------------------------------------------------------------
(* Audio_Update                                                            *)

EndFrame == pc' = "tick" /\ frames' = frames + 1

\* For a mutant: the commands are scheduled during a reset too.
WaitAndSchedule ==
  /\ pc = "update" /\ status # "READY" /\ resetQ # heapSpec /\ EndFrame
  /\ resetQ' = None /\ Schedule(cmds, <<>>)
  /\ UNCHANGED <<practice, spec, ring, waiting, prev, status, specQ, thread, orderly>>

\* While a reset goes on nothing else is done, and the ring fills.
UpdateWaits ==
  /\ pc = "update" /\ HandleReset /\ status' # "READY" /\ EndFrame
  /\ UNCHANGED <<practice, spec, ring, waiting, prev, specQ, thread, orderly>>

UpdateReady ==
  /\ pc = "update" /\ HandleReset /\ status' = "READY" /\ pc' = "commands"
  /\ UNCHANGED <<practice, frames, spec, ring, waiting, prev, specQ, thread, orderly>>

NextCommand(op) == ring # <<>> /\ Head(ring)[1] = op

\* PLAY_SEQUENCE of a track flagged SEQ_FLAG: ignored while another waits.
PlaySequence ==
  /\ pc = "commands" /\ NextCommand("PLAY") /\ ring' = Tail(ring)
  /\ LET t == Head(ring)[2] IN
     IF waiting # None THEN UNCHANGED <<waiting, cmds>>
     ELSE /\ waiting' = t
          /\ Queue(<<<<"disable">>>>
                   \o (IF prev \in {None, t} THEN <<>> ELSE <<<<"discard", t>>>>)
                   \o <<<<"load", t>>>>)
  /\ UNCHANGED <<practice, frames, pc, spec, prev, status, resetQ, batches, specQ,
                 thread, orderly>>

\* AudioThread_ResetAudioHeap empties gAudioResetQueue and drops the commands,
\* then sends the spec; the audio thread may run in between.
\* The history says whether a reset is asked for in an orderly way: when the
\* one before is over, there is room for the commands of this frame and of the
\* players' restart, and Audio_StartReset announces it.
Settled == step = 0 /\ specQ = None /\ heapSpec = spec
ClearResetQueue ==
  /\ pc = "commands" /\ NextCommand("RESET") /\ pc' = "reset"
  /\ LET s == Head(ring)[2] IN
     /\ s # spec
     /\ orderly' = (status = "READY" /\ Settled /\ Len(batches) + 2 <= 4
                      /\ Reset[spec, s] # "unchanged")
  /\ resetQ' = None /\ cmds' = Skip(cmds)
  /\ UNCHANGED <<practice, frames, spec, ring, waiting, prev, status, batches, specQ,
                 thread>>

\* The rest, and Audio_StartReset with Audio_ResetActiveSequences, which leaves
\* isWaitingForFonts as it is.
SendSpec ==
  /\ pc = "reset" /\ pc' = "commands" /\ ring' = Tail(ring)
  /\ LET s == Head(ring)[2] IN
     /\ spec' = s
     /\ specQ' = IF specQ = None THEN s ELSE specQ
     /\ status' = IF Reset[spec, s] = "unchanged" THEN status ELSE Reset[spec, s]
  /\ prev' = None /\ Queue(<<<<"unmute">>, <<"STOP_AUDIOCMDS">>>>)
  /\ UNCHANGED <<practice, frames, waiting, resetQ, batches, thread, orderly>>

\* The spec is loaded already: only the music stops.
ResetSameSpec ==
  /\ pc = "commands" /\ NextCommand("RESET") /\ Head(ring)[2] = spec
  /\ ring' = Tail(ring) /\ Queue(<<<<"disable">>>>)
  /\ UNCHANGED <<practice, frames, pc, spec, waiting, prev, status, resetQ, batches,
                 specQ, thread, orderly>>

\* Audio_UpdateActiveSequences, then AudioThread_ScheduleProcessCmds.
UpdateActiveSequences ==
  /\ pc = "commands" /\ ring = <<>> /\ EndFrame
  /\ IF waiting # None /\ engine.answers > 0 THEN
       /\ engine' = [engine EXCEPT !.answers = @ - 1]
       /\ waiting' = None /\ prev' = waiting
       /\ Schedule([cmds EXCEPT !.queued = Append(@, <<"init", waiting>>)], <<>>)
     ELSE
       /\ UNCHANGED <<engine, waiting, prev>>
       /\ Schedule(cmds, <<>>)
  /\ UNCHANGED <<practice, spec, ring, status, resetQ, specQ, heapSpec, step, fade,
                 orderly>>

-----------------------------------------------------------------------------
(* AudioThread_CreateTask                                                  *)

\* For a mutant: a message is added to a full queue.
AnswerBlindly(e) == [e EXCEPT !.answers = @ + 1]
Answer(e) == [e EXCEPT !.answers = IF @ < Answers THEN @ + 1 ELSE @]

\* AudioThread_ProcessCmds, one command.  A load of a font that is on its
\* way is not answered; its own load will be.
Execute(e, c) ==
  CASE c[1] = "disable" -> [e EXCEPT !.playing = None]
    [] c[1] = "mute" -> [e EXCEPT !.muted = TRUE]
    [] c[1] = "unmute" -> [e EXCEPT !.muted = FALSE]
    [] c[1] = "init" -> [e EXCEPT !.playing = c[2]]
    [] c[1] = "discard" -> [e EXCEPT !.font[c[2]] = "none"]
    [] c[1] = "load" ->
         IF e.font[c[2]] = "none"
         THEN [e EXCEPT !.font[c[2]] = "loading", !.loads[c[2]] = @ + 1]
         ELSE IF e.font[c[2]] = "loaded" THEN Answer(e) ELSE e

\* One message: as far as the first STOP_AUDIOCMDS.  After a stop the next
\* message goes on from there, over the commands that were skipped.
ProcessCmds(e, b) ==
  LET all == IF e.stopped THEN e.left \o b.skipped \o b.queued ELSE b.queued
      stops == {i \in DOMAIN all : all[i][1] = "STOP_AUDIOCMDS"}
      end == IF stops = {} THEN Len(all) + 1
             ELSE CHOOSE i \in stops : \A j \in stops : i <= j
  IN [FoldLeft(Execute, e, SubSeq(all, 1, end - 1)) EXCEPT
        !.stopped = stops # {}, !.left = SubSeq(all, end + 1, Len(all))]

Drain(e) == engine' = FoldLeft(ProcessCmds, e, batches) /\ batches' = <<>>

Loading == {t \in Track : engine.loads[t] > 0}

\* A load has its last piece: the font is there, and the game is told.
Finish(e, t) ==
  Answer([e EXCEPT !.loads[t] = @ - 1, !.font[t] = "loaded"])

NextTick ==
  /\ frames' = 0
  /\ UNCHANGED <<screen, level, song, preview, lastSpec, rescue, pc, spec, ring, waiting,
                 prev, status, cmds, orderly>>

\* A frame of sound: AudioLoad_ProcessLoads, the commands.
AudioFrame ==
  /\ step = 0 /\ specQ = None
  /\ Drain(engine)
  /\ NextTick /\ UNCHANGED <<resetQ, specQ, heapSpec, step, fade>>

LoadFinished(t) ==
  /\ step = 0 /\ specQ = None
  /\ t \in Loading /\ Drain(Finish(engine, t))
  /\ NextTick /\ UNCHANGED <<resetQ, specQ, heapSpec, step, fade>>

\* AudioLoad_ProcessAsyncLoads in a reset: the loads end, nobody is told.
Cancelled == IF step = 0 THEN engine ELSE [engine EXCEPT !.loads = [t \in Track |-> 0]]

\* The spec of gAudioSpecQueue counts at once, in the middle of a reset too.
TakeSpec == heapSpec' = (IF specQ = None THEN heapSpec ELSE specQ) /\ specQ' = None

Silence(e) == [e EXCEPT !.playing = None]

\* AudioHeap_ResetStep, steps 5 to 3: the players are disabled, the notes
\* fade, and commands still count.
ResetFades ==
  /\ IF step = 0 THEN
       /\ specQ # None
       /\ step' = 4 /\ fade' = Fade[4] /\ Drain(Silence(Cancelled))
     ELSE
       /\ step = 4 \/ (step = 3 /\ fade > 0)
       /\ step' = IF fade > 0 THEN step ELSE step - 1
       /\ fade' = IF fade > 0 THEN fade - 1 ELSE Fade[step - 1]
       /\ Drain(Cancelled)
  /\ TakeSpec /\ NextTick /\ UNCHANGED resetQ

\* From step 3 on a frame makes no sound, and takes no command.
ResetIsSilent ==
  /\ (step = 3 /\ fade = 0) \/ step = 2
  /\ step' = IF fade > 0 THEN step ELSE step - 1
  /\ fade' = IF fade > 0 THEN fade - 1 ELSE IF step = 3 THEN Fade[2] ELSE 0
  /\ engine' = Cancelled
  /\ TakeSpec /\ NextTick /\ UNCHANGED <<resetQ, batches>>

\* For a mutant: the game is not told that the heap was rebuilt.
HeapInitInSilence ==
  /\ step = 1 /\ step' = 0 /\ fade' = 0
  /\ engine' = [Cancelled EXCEPT !.font = [t \in Track |-> "none"]]
  /\ TakeSpec /\ NextTick /\ UNCHANGED <<resetQ, batches>>

\* AudioHeap_Init empties the caches; the game is told of the new spec.
HeapInit ==
  /\ step = 1 /\ step' = 0 /\ fade' = 0
  /\ engine' = [Cancelled EXCEPT !.font = [t \in Track |-> "none"]]
  /\ TakeSpec /\ resetQ' = (IF resetQ = None THEN heapSpec' ELSE resetQ)
  /\ NextTick /\ UNCHANGED batches

AudioTick == AudioFrame \/ (\E t \in Track : LoadFinished(t)) \/ ResetFades
             \/ ResetIsSilent \/ HeapInit

PracticeStep ==
  \/ BgmRescue
  \/ (\E s \in Track : LevelSelect(s)) \/ (\E l \in Levels : LaunchLevel(l))
  \/ OtherFrame \/ EnterLevel \/ Pause \/ Unpause \/ LoadSlot \/ (\E l \in Levels : RequestLoad(l))
  \/ (\E s \in Track : LeaveLevel(s))

AudioUpdateStep ==
  UpdateWaits \/ UpdateReady \/ PlaySequence \/ ClearResetQueue \/ SendSpec
  \/ ResetSameSpec \/ UpdateActiveSequences

Next == PracticeStep \/ WrongAnswer \/ AudioUpdateStep \/ AudioTick

Spec == Init /\ [][Next]_vars

\* Both threads run, and a load has a finite number of pieces.  Weak fairness
\* of the audio thread with its ENABLED written out: it has something to do
\* when Busy, and the load of t goes on when no reset does.
Busy == step # 0 \/ specQ # None \/ batches # <<>> \/ frames > 0
Fairness ==
  /\ WF_vars(PracticeStep) /\ WF_vars(AudioUpdateStep) /\ WF_vars(WrongAnswer)
  /\ []<>~Busy \/ []<><<AudioTick>>_vars
  /\ \A t \in Track : \/ []<>(step # 0 \/ specQ # None \/ t \notin Loading)
                      \/ []<><<LoadFinished(t)>>_vars

FairSpec == Spec /\ Fairness

-----------------------------------------------------------------------------
(* Properties                                                              *)

\* AUDIORESET_READY, on which the practice code defers its requests, means that
\* no heap is being rebuilt: no spec is on its way to the audio thread, and the
\* heap is that of the spec the game counts on.  So it is after a reset asked
\* for in an orderly way.
AnnouncedMeansRebuilt == orderly /\ status = "READY" => Settled

\* The same after any reset: practice_level.c:64, "Defer until
\* Audio_HandleReset() == 0".
ReadyMeansRebuilt == status = "READY" => Settled

\* No batch of sound commands is lost because gThreadCmdProcQueue is full
\* while a reset keeps the audio thread from taking them.
BatchesFit ==
  orderly /\ (pc \in {"commands", "reset"} \/ status # "READY") => Len(batches) < 4

\* A reset ends, whatever is asked for meanwhile.
ResetEnds == (orderly /\ status # "READY") ~> (status = "READY" \/ ~orderly)

\* The music of a loaded slot is played in the end, and so is that of a level
\* started again, unless the player stops or loads again and again: "when ready
\* -- one frame late at worst" (practice_save.c:878).  Not that it is "always
\* heard": a load out of the pause leaves the player muted, see README.
RescueIsPlayed ==
  \/ []<><<LoadSlot>>_vars
  \/ \A l \in Levels :
       (screen = "level" /\ level = l /\ rescue.track = l)
         ~> (screen # "level" \/ engine.playing = l \/ ~orderly)
=============================================================================

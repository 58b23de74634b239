------------------------- MODULE FrameAdvance_proofs -------------------------
(***************************************************************************)
(* What D-Up does, for every pad, level, delay and rate: no step it queued *)
(* is left to run after it has been let go, and held it steps at the rate. *)
(*                                                                         *)
(* A queued step runs in the next frame, unless that frame does not come:  *)
(* the level ends, changes scene, or is entered anew.  So the invariant    *)
(* says, for each step of the frame, in which scenes a step can be queued: *)
(* only where the next frame releases it, or is not in the running level,  *)
(* and never in the frame whose Play_Main has just ended the level.        *)
(*                                                                         *)
(* The cadence needs the hold timer tied to the history of frames: past    *)
(* the delay, hold timer, repeat timer and frames run fit together.        *)
(***************************************************************************)
EXTENDS MCFrameAdvance, SaveState_proofs

\* FRAME_ADVANCE_REPEAT_DELAY and _RATE are 12 and 2: what is needed of them.
RatesAllow == RepeatDelay >= 1 /\ RepeatRate >= 2

\* The pad is the player's, and D-Up does not go down with D-Right: see README,
\* "Limits of what holds".
PlayerPad == ~IsPlaying /\ ~({"DUp", "DRight"} \subseteq press)

\* A button that went down is down, and the d-pad is a rocker.
PadSound == press \subseteq hold /\ ~({"DUp", "DDown"} \subseteq hold)

\* The hold timer runs in the pause alone.
HeldMeansPaused == sFrameAdvanceHoldTimer > 0 => sIsPaused

\* The frame in which the level was left, before the poll that notices.
LevelOver ==
  \/ gNextGameState \notin {"NONE", "PLAY"}
  \/ sCurrentSceneId # gCurrentLevel /\ gPlayState \in {"UPDATE", "PAUSE"}

\* Where a step may be queued.
MayStep ==
  /\ sIsPaused /\ sFrameAdvanceRepeatTimer = RepeatRate
  /\ gGameState = "PLAY"
  /\ gNextGameState = "PLAY" \/ ~LevelOver

\* From the frame-advance code to the end of the frame.
AfterAdvance == {"macro", "tick", "sdtick", "screen"}
QueuedAfter ==
  pc \in AfterAdvance /\ sQueuedFrameSteps = 1 =>
    MayStep /\ "DUp" \in hold /\ gPracticeMenuState = "CLOSED"

\* Then the pad is read: D-Up stays down, or the level is entered anew.
QueuedAtPoll ==
  pc = "poll" /\ sQueuedFrameSteps = 1 =>
    MayStep /\ ("DUp" \in hold \/ gPlayState \notin {"UPDATE", "PAUSE"})
QueuedAtGate ==
  pc = "gate" =>
    /\ gNextGameState = "NONE" /\ sCurrentSceneId = Scene
    /\ sQueuedFrameSteps = 1 =>
         MayStep /\ ("DUp" \notin press \/ gPlayState \notin {"UPDATE", "PAUSE"})

\* A paused level runs a frame on a queued step only, and D-Up neither goes down
\* in it nor is due to repeat.
NotDue == "DUp" \notin press /\ sFrameAdvanceRepeatTimer > 1
QueuedAtMain ==
  pc \in {"preplay", "main"} =>
    /\ gNextGameState = "NONE" /\ sCurrentSceneId = Scene /\ sQueuedFrameSteps = 0
    /\ pc = "preplay" => gGameState = "PLAY"
    /\ gGameState = "PLAY" /\ sIsPaused /\ gPlayState \in {"UPDATE", "PAUSE"} => NotDue

\* So none can be queued in the frame that ended the level.
QueuedAtAdvance ==
  pc \in {"draw", "advance"} =>
    /\ sQueuedFrameSteps = 1 => gGameState = "PLAY" /\ gPracticeMenuState # "CLOSED"
    /\ gGameState = "PLAY" /\ sIsPaused /\ LevelOver => NotDue

\* The inductive invariant, next to Inv and SInv.
AdvInv == /\ PadSound /\ HeldMeansPaused /\ QueuedAfter /\ QueuedAtPoll
           /\ QueuedAtGate /\ QueuedAtMain /\ QueuedAtAdvance

-----------------------------------------------------------------------------
LEMMA InitStep == Init => AdvInv
  BY DEF Init, EngineInit, AdvanceInit, AdvInv, PadSound, HeldMeansPaused,
         QueuedAfter, QueuedAtPoll, QueuedAtGate, QueuedAtMain, QueuedAtAdvance,
         AfterAdvance

LEMMA PollKeepsStep == SInv /\ AdvInv /\ PollStep => AdvInv'
  <1> SUFFICES ASSUME SInv, AdvInv, PollStep PROVE AdvInv'
    OBVIOUS
  <1>1. UNCHANGED <<sIsPaused, sQueuedFrameSteps, sFrameAdvanceHoldTimer,
                    sFrameAdvanceRepeatTimer>>
    BY DEF PollStep, practiceVars, advanceVars, stepVars
  <1>2. PadSound' /\ HeldMeansPaused'
    BY <1>1, PadsAssumption
    DEF PollStep, Poll, ControllerUpdateInput, AdvInv, PadSound, HeldMeansPaused
  <1>3. gNextGameState' = "NONE" /\ sCurrentSceneId' = Scene'
    BY DEF PollStep, Poll, GameSetGameState, nextVars
  <1>4. ASSUME sQueuedFrameSteps = 1
        PROVE  /\ MayStep'
               /\ \/ gPlayState' \notin {"UPDATE", "PAUSE"}
                  \/ pc' = "gate" /\ "DUp" \notin press'
    <2>1. MayStep /\ ("DUp" \in hold \/ gPlayState \notin {"UPDATE", "PAUSE"})
      BY <1>4 DEF AdvInv, QueuedAtPoll, PollStep, Poll
    <2>2. gGameState' = "PLAY" /\ sCurrentSceneId' = gCurrentLevel'
      BY <1>3, <2>1 DEF PollStep, Poll, GameSetGameState, MayStep, LevelOver, Scene
    <2>3. MayStep'
      BY <1>1, <1>3, <2>1, <2>2 DEF MayStep, LevelOver
    <2>4. CASE gNextGameState = "PLAY"
      BY <2>3, <2>4 DEF PollStep, Poll, GameSetGameState
    <2>5. CASE gNextGameState # "PLAY"
      <3>1. gNextGameState = "NONE"
        BY <2>1, <2>5 DEF MayStep, LevelOver
      <3>2. UNCHANGED <<gGameState, gPlayState, gCurrentLevel>>
        BY <3>1 DEF PollStep, Poll, GameSetGameState
      <3>3. CASE gPlayState \notin {"UPDATE", "PAUSE"}
        BY <2>3, <3>2, <3>3
      <3>4. CASE gPlayState \in {"UPDATE", "PAUSE"}
        <4>1. Scene' = sCurrentSceneId
          BY <2>1, <2>2, <2>5, <3>2, <3>4 DEF MayStep, LevelOver, Scene
        <4>2. pc' = "gate"
          BY <4>1 DEF PollStep, Poll
        <4>3. "DUp" \notin press'
          BY <2>1, <3>4 DEF PollStep, Poll, ControllerUpdateInput
        <4> QED
          BY <2>3, <4>2, <4>3
      <3> QED
        BY <3>3, <3>4
    <2> QED
      BY <2>4, <2>5
  <1>5. pc' \in {"poll", "gate"}
    BY DEF PollStep, Poll
  <1>6. QueuedAfter' /\ QueuedAtMain' /\ QueuedAtAdvance'
    BY <1>5 DEF QueuedAfter, QueuedAtMain, QueuedAtAdvance, AfterAdvance
  <1>7. QueuedAtPoll' /\ QueuedAtGate'
    BY <1>1, <1>3, <1>4, <1>5 DEF QueuedAtPoll, QueuedAtGate
  <1> QED
    BY <1>2, <1>6, <1>7 DEF AdvInv

LEMMA GateKeepsStep ==
  ASSUME RatesAllow, SInv, AdvInv, GateStep PROVE AdvInv'
  <1>1. /\ pc = "gate"
        /\ UNCHANGED <<sIsPaused, sFrameAdvanceHoldTimer, sFrameAdvanceRepeatTimer,
                       gGameState, gPlayState, sCurrentSceneId, gCurrentLevel,
                       gNextGameState, gPracticeMenuState>>
    BY DEF GateStep, Gate, nextVars, uiVars
  <1>2. /\ gNextGameState = "NONE" /\ sCurrentSceneId = Scene
        /\ sQueuedFrameSteps = 1 =>
             MayStep /\ ("DUp" \notin press \/ gPlayState \notin {"UPDATE", "PAUSE"})
    BY <1>1 DEF AdvInv, QueuedAtGate
  <1>3. sQueuedFrameSteps \in 0..1 /\ sFrameAdvanceRepeatTimer \in 0..RepeatRate
    BY DEF SInv, AdvanceTypeOK
  <1>4. HeldMeansPaused'
    BY <1>1 DEF AdvInv, HeldMeansPaused
  <1>5. PadSound'
    BY DEF GateStep, Gate, Release, AdvInv, PadSound, padVars
  <1>6. CASE gGameState # "PLAY"
    <2>1. pc' = "main" /\ UNCHANGED sQueuedFrameSteps
      BY <1>6 DEF GateStep, Gate
    <2>2. sQueuedFrameSteps = 0
      BY <1>2, <1>3, <1>6 DEF MayStep
    <2>3. QueuedAtMain'
      BY <1>1, <1>2, <1>6, <2>1, <2>2 DEF QueuedAtMain, Scene
    <2> QED
      BY <1>4, <1>5, <2>1, <2>3
      DEF AdvInv, QueuedAfter, QueuedAtPoll, QueuedAtGate, QueuedAtAdvance,
          AfterAdvance
  <1>7. CASE /\ gGameState = "PLAY" /\ (gPracticeMenuState # "CLOSED" \/ Frozen)
             /\ pc' = "draw" /\ UNCHANGED <<hold, press, sQueuedFrameSteps>>
    <2>1. QueuedAtAdvance'
      BY <1>1, <1>2, <1>7 DEF QueuedAtAdvance, LevelOver, Scene, Frozen
    <2> QED
      BY <1>4, <1>5, <1>7, <2>1
      DEF AdvInv, QueuedAfter, QueuedAtPoll, QueuedAtGate, QueuedAtMain, AfterAdvance
  <1>8. CASE /\ gGameState = "PLAY" /\ gPracticeMenuState = "CLOSED" /\ ~Frozen
             /\ pc' = "preplay" /\ Release
    <2>1. sIsPaused => sQueuedFrameSteps = 1
      BY <1>3, <1>8 DEF Frozen
    <2>2. sQueuedFrameSteps' = 0
      BY <1>2, <1>3, <1>8 DEF Release, MayStep
    <2>3. "DUp" \in press' => "DUp" \in press
      BY <1>8 DEF Release, DPad
    <2>4. ASSUME sIsPaused, gPlayState \in {"UPDATE", "PAUSE"} PROVE NotDue'
      <3>1. sFrameAdvanceRepeatTimer' = RepeatRate
        BY <1>1, <1>2, <2>1, <2>4 DEF MayStep
      <3>2. sFrameAdvanceRepeatTimer' > 1
        BY <3>1, FrameAdvanceAssumption DEF RatesAllow
      <3>3. "DUp" \notin press'
        BY <1>2, <2>1, <2>3, <2>4
      <3> QED
        BY <3>2, <3>3 DEF NotDue
    <2>5. QueuedAtMain'
      BY <1>1, <1>2, <1>8, <2>2, <2>4 DEF QueuedAtMain, Scene
    <2> QED
      BY <1>4, <1>5, <1>8, <2>5
      DEF AdvInv, QueuedAfter, QueuedAtPoll, QueuedAtGate, QueuedAtAdvance,
          AfterAdvance
  <1> QED
    BY <1>6, <1>7, <1>8 DEF GateStep, Gate

\* The macro code leaves the player's pad alone, unless it replays.
LEMMA PrePlayKeepsStep ==
  ASSUME PlayerPad, AdvInv, PrePlayStep PROVE AdvInv'
  <1>1. /\ pc = "preplay" /\ pc' \in {"draw", "main"}
        /\ UNCHANGED <<advanceVars, gGameState, gPlayState, sCurrentSceneId,
                       gCurrentLevel, gPracticeMenuState>>
    BY DEF PrePlayStep, MacroPrePlay, uiVars
  <1>2. UNCHANGED <<hold, press, gNextGameState>>
    BY DEF PlayerPad, PrePlayStep, MacroPrePlay, PrePlayArmed, PrePlayRecording,
           PrePlayRestore, PrePlayInject, PrePlayEnd, padVars, nextVars
  <1>3. PadSound' /\ HeldMeansPaused'
    BY <1>1, <1>2 DEF AdvInv, PadSound, HeldMeansPaused, advanceVars, stepVars
  <1>4. /\ gNextGameState = "NONE" /\ sCurrentSceneId = Scene /\ sQueuedFrameSteps = 0
        /\ gGameState = "PLAY"
        /\ sIsPaused /\ gPlayState \in {"UPDATE", "PAUSE"} => NotDue
    BY <1>1 DEF AdvInv, QueuedAtMain
  <1>5. QueuedAtMain'
    BY <1>1, <1>2, <1>4 DEF QueuedAtMain, Scene, NotDue, advanceVars, stepVars
  <1>6. QueuedAtAdvance'
    BY <1>1, <1>2, <1>4 DEF QueuedAtAdvance, LevelOver, Scene, advanceVars, stepVars
  <1> QED
    BY <1>1, <1>3, <1>5, <1>6
    DEF AdvInv, QueuedAfter, QueuedAtPoll, QueuedAtGate, AfterAdvance

LEMMA MainKeepsStep == AdvInv /\ MainStep => AdvInv'
  <1> SUFFICES ASSUME AdvInv, MainStep PROVE AdvInv'
    OBVIOUS
  <1>1. /\ pc = "main" /\ pc' = "draw"
        /\ UNCHANGED <<hold, press, sIsPaused, sQueuedFrameSteps, sCurrentSceneId,
                       sFrameAdvanceHoldTimer, sFrameAdvanceRepeatTimer>>
    BY DEF MainStep, PlayMain, OtherScreen, padVars, practiceVars, advanceVars, stepVars
  <1>2. PadSound' /\ HeldMeansPaused'
    BY <1>1 DEF AdvInv, PadSound, HeldMeansPaused
  <1>3. /\ gNextGameState = "NONE" /\ sCurrentSceneId = Scene /\ sQueuedFrameSteps = 0
        /\ gGameState = "PLAY" /\ sIsPaused /\ gPlayState \in {"UPDATE", "PAUSE"}
             => NotDue
    BY <1>1 DEF AdvInv, QueuedAtMain
  <1>4. ASSUME gGameState' = "PLAY", sIsPaused, LevelOver' PROVE NotDue'
    <2>1. CASE PlayMain
      <3>1. sCurrentSceneId = gCurrentLevel
        BY <1>3, <2>1 DEF PlayMain, Scene
      <3>2. CASE gPlayState \in {"UPDATE", "PAUSE"}
        BY <1>1, <1>3, <1>4, <2>1, <3>2 DEF PlayMain, NotDue
      <3>3. CASE gPlayState \notin {"UPDATE", "PAUSE"}
        <4>1. UNCHANGED <<gCurrentLevel, gNextGameState>>
          BY <2>1, <3>3
          DEF PlayMain, PlayStandby, PlayInit, PlayUpdate, PlayUpdateWarps,
              PlayUpdateEnds, PlayPause, nextVars
        <4> QED
          BY <1>1, <1>3, <1>4, <3>1, <4>1 DEF LevelOver
      <3> QED
        BY <3>2, <3>3
    <2>2. CASE OtherScreen
      <3>1. gPlayState' = "STANDBY" /\ UNCHANGED gNextGameState
        BY <1>4, <2>2 DEF OtherScreen, VanillaScreen, ScreenLeaves, nextVars
      <3> QED
        BY <1>3, <1>4, <3>1 DEF LevelOver
    <2> QED
      BY <2>1, <2>2 DEF MainStep
  <1>5. QueuedAtAdvance'
    BY <1>1, <1>3, <1>4 DEF QueuedAtAdvance
  <1> QED
    BY <1>1, <1>2, <1>5
    DEF AdvInv, QueuedAfter, QueuedAtPoll, QueuedAtGate, QueuedAtMain, AfterAdvance

\* The pause screen ends no level.
LEMMA DrawKeepsStep == AdvInv /\ DrawStep => AdvInv'
  <1> SUFFICES ASSUME AdvInv, DrawStep PROVE AdvInv'
    OBVIOUS
  <1>1. /\ pc = "draw" /\ pc' = "advance"
        /\ UNCHANGED <<hold, press, gGameState, sCurrentSceneId, gCurrentLevel,
                       gNextGameState, gPracticeMenuState, sIsPaused, sQueuedFrameSteps,
                       sFrameAdvanceHoldTimer, sFrameAdvanceRepeatTimer>>
    BY DEF DrawStep, GameDraw, padVars, nextVars, uiVars, practiceVars, advanceVars,
           stepVars
  <1>2. gPlayState' \in {"UPDATE", "PAUSE"} => gPlayState \in {"UPDATE", "PAUSE"}
    BY DEF DrawStep, GameDraw, PauseScreenEnds
  <1>3. QueuedAtAdvance'
    BY <1>1, <1>2 DEF AdvInv, QueuedAtAdvance, LevelOver, NotDue
  <1> QED
    BY <1>1, <1>3
    DEF AdvInv, PadSound, HeldMeansPaused, QueuedAfter, QueuedAtPoll, QueuedAtGate,
        QueuedAtMain, AfterAdvance

-----------------------------------------------------------------------------
(* Practice_FrameAdvance_Update.                                           *)

\* A step queued now is asked for in the pause, by D-Up, and leaves the timers
\* as a fresh repeat does; and the hold timer does not outlive the pause.
LEMMA SteppedQueues ==
  ASSUME RatesAllow, PlayerPad, SInv, PadSound, HeldMeansPaused, AdvanceStepped,
         sQueuedFrameSteps = 0
  PROVE  /\ sFrameAdvanceHoldTimer' > 0 => sIsPaused'
         /\ sQueuedFrameSteps' = 1 =>
              /\ sIsPaused /\ sIsPaused' /\ "DUp" \in hold
              /\ sFrameAdvanceRepeatTimer' = RepeatRate
              /\ ~NotDue
  <1> DEFINE toggled == Pressed("DDown")
             wasPaused == IF toggled THEN ~sIsPaused ELSE sIsPaused
             steps == Pressed("DUp") /\ wasPaused
             pauses == Pressed("DUp") /\ ~wasPaused
             paused == wasPaused \/ pauses
             pausedAfterLoad == IF LoadPressed
                                THEN sSavedWhilePaused[gPracticeActiveSlot]
                                ELSE paused
             queued == IF steps THEN 1
                       ELSE IF toggled \/ pauses THEN 0 ELSE sQueuedFrameSteps
             timer == IF steps THEN RepeatRate
                      ELSE IF toggled \/ pauses THEN 0 ELSE sFrameAdvanceRepeatTimer
             before == IF toggled \/ Pressed("DUp") THEN 0 ELSE sFrameAdvanceHoldTimer
             holding == pausedAfterLoad /\ "DUp" \in hold
             repeats == holding /\ Repeats(before)
             due == repeats /\ timer <= 1
  <1>1. /\ sIsPaused' = pausedAfterLoad
        /\ sQueuedFrameSteps' = IF due THEN 1 ELSE queued
        /\ sFrameAdvanceHoldTimer' =
             IF ~holding THEN 0 ELSE IF repeats THEN RepeatDelay + 1 ELSE before + 1
        /\ sFrameAdvanceRepeatTimer' =
             IF ~holding THEN 0
             ELSE IF due THEN RepeatRate
             ELSE IF repeats THEN timer - 1 ELSE timer
    BY DEF AdvanceStepped
  <1>2. sFrameAdvanceHoldTimer \in 0..(RepeatDelay + 1)
    BY DEF SInv, AdvanceTypeOK
  <1>3. repeats => ~toggled /\ ~Pressed("DUp") /\ sFrameAdvanceHoldTimer > 0
    BY <1>2, FrameAdvanceAssumption DEF RatesAllow, Repeats
  <1>4. steps => ~toggled /\ sIsPaused /\ ~LoadPressed /\ "DUp" \in hold
    BY DEF PadSound, PlayerPad, LoadPressed, Pressed
  <1>5. steps => holding /\ ~repeats /\ timer = RepeatRate
    BY <1>3, <1>4
  <1>6. sFrameAdvanceHoldTimer' > 0 => sIsPaused'
    <2>1. CASE holding
      BY <1>1, <2>1
    <2>2. CASE ~holding
      <3>1. sFrameAdvanceHoldTimer' = 0
        BY <1>1, <2>2
      <3> QED
        BY <3>1
    <2> QED
      BY <2>1, <2>2
  <1>7. CASE sQueuedFrameSteps' = 1 /\ due
    <2>1. sIsPaused /\ timer = sFrameAdvanceRepeatTimer
      BY <1>3, <1>7 DEF HeldMeansPaused
    <2>2. ~NotDue
      BY <1>7, <2>1, FrameAdvanceAssumption DEF NotDue, SInv, AdvanceTypeOK
    <2> QED
      BY <1>1, <1>6, <1>7, <2>1, <2>2
  <1>8. CASE sQueuedFrameSteps' = 1 /\ ~due
    <2>1. steps
      BY <1>1, <1>8
    <2>2. ~NotDue
      BY <2>1 DEF NotDue, Pressed
    <2> QED
      BY <1>1, <1>4, <1>5, <1>6, <1>8, <2>1, <2>2
  <1> QED
    BY <1>6, <1>7, <1>8

LEMMA AdvanceKeepsStep ==
  ASSUME RatesAllow, PlayerPad, SInv, AdvInv, AdvanceStep PROVE AdvInv'
  <1>1. /\ pc = "advance" /\ pc' = "macro"
        /\ UNCHANGED <<hold, press, gGameState, gPlayState, sCurrentSceneId,
                       gCurrentLevel, gPracticeMenuState>>
    BY DEF AdvanceStep, FrameAdvanceUpdate, padVars, uiVars
  <1>2. /\ sQueuedFrameSteps = 1 => gGameState = "PLAY" /\ gPracticeMenuState # "CLOSED"
        /\ gGameState = "PLAY" /\ sIsPaused /\ LevelOver => NotDue
    BY <1>1 DEF AdvInv, QueuedAtAdvance
  <1>3. sQueuedFrameSteps \in 0..1
    BY DEF SInv, AdvanceTypeOK
  <1>4. PadSound'
    BY <1>1 DEF AdvInv, PadSound
  <1>5. HeldMeansPaused' /\ QueuedAfter'
    <2>1. CASE gGameState # "PLAY"
      <3>1. UNCHANGED <<sIsPaused, sFrameAdvanceHoldTimer, sQueuedFrameSteps>>
        BY <2>1 DEF AdvanceStep, FrameAdvanceUpdate, advanceVars, stepVars
      <3> QED
        BY <1>2, <1>3, <2>1, <3>1 DEF AdvInv, HeldMeansPaused, QueuedAfter
    <2>2. CASE gGameState = "PLAY" /\ gPracticeMenuState # "CLOSED"
      <3>1. AdvanceCleared
        BY <2>2 DEF AdvanceStep, FrameAdvanceUpdate
      <3> QED
        BY <3>1 DEF AdvanceCleared, HeldMeansPaused, QueuedAfter
    <2>3. CASE gGameState = "PLAY" /\ gPracticeMenuState = "CLOSED"
      <3>1. AdvanceStepped /\ sQueuedFrameSteps = 0
        BY <1>2, <1>3, <2>3 DEF AdvanceStep, FrameAdvanceUpdate
      <3>2. gNextGameState' \in {gNextGameState, "PLAY"}
        BY <2>3 DEF AdvanceStep, FrameAdvanceUpdate, SaveStateSlot, LoadStateSlot,
                    LoadCb, RequestLoad, nextVars
      <3>3. PadSound /\ HeldMeansPaused
        BY DEF AdvInv
      <3>4. HeldMeansPaused'
        BY <3>1, <3>3, SteppedQueues DEF HeldMeansPaused
      <3>5. ASSUME sQueuedFrameSteps' = 1
            PROVE  MayStep' /\ "DUp" \in hold'
        <4>1. /\ sIsPaused /\ sIsPaused' /\ "DUp" \in hold
              /\ sFrameAdvanceRepeatTimer' = RepeatRate /\ ~NotDue
          BY <3>1, <3>3, <3>5, SteppedQueues
        <4>2. ~LevelOver
          BY <1>2, <2>3, <4>1
        <4>3. gNextGameState' = "PLAY" \/ ~LevelOver'
          BY <1>1, <3>2, <4>2 DEF LevelOver
        <4> QED
          BY <1>1, <2>3, <4>1, <4>3 DEF MayStep
      <3> QED
        BY <1>1, <2>3, <3>4, <3>5 DEF QueuedAfter
    <2> QED
      BY <2>1, <2>2, <2>3
  <1> QED
    BY <1>1, <1>4, <1>5
    DEF AdvInv, QueuedAtPoll, QueuedAtGate, QueuedAtMain, QueuedAtAdvance

-----------------------------------------------------------------------------
(* The rest of the frame: a load or a launch asks for a level, no more.    *)

\* What the steps after the frame-advance code leave alone.
Untouched == <<hold, gGameState, gPlayState, sCurrentSceneId, gCurrentLevel, stepVars>>

LEMMA RestKeepsStep ==
  ASSUME AdvInv, pc \in AfterAdvance, press' \subseteq press,
         pc' \in AfterAdvance \/ pc' = "poll",
         sQueuedFrameSteps = 1 =>
           /\ UNCHANGED <<gGameState, gPlayState, sCurrentSceneId, gCurrentLevel>>
           /\ pc' \in AfterAdvance => UNCHANGED gPracticeMenuState
           /\ gNextGameState' \in {gNextGameState, "PLAY"},
         UNCHANGED <<hold, stepVars>>
  PROVE  AdvInv'
  <1>1. UNCHANGED <<sIsPaused, sQueuedFrameSteps, sFrameAdvanceHoldTimer,
                    sFrameAdvanceRepeatTimer>>
    BY DEF stepVars
  <1>2. PadSound' /\ HeldMeansPaused'
    BY <1>1 DEF AdvInv, PadSound, HeldMeansPaused
  <1>3. ASSUME sQueuedFrameSteps = 1
        PROVE  /\ MayStep' /\ "DUp" \in hold'
               /\ pc' \in AfterAdvance => gPracticeMenuState' = "CLOSED"
    <2>1. MayStep /\ "DUp" \in hold /\ gPracticeMenuState = "CLOSED"
      BY <1>3 DEF AdvInv, QueuedAfter
    <2>2. MayStep'
      BY <1>1, <1>3, <2>1 DEF MayStep, LevelOver
    <2> QED
      BY <1>3, <2>1, <2>2
  <1>4. QueuedAfter' /\ QueuedAtPoll'
    BY <1>1, <1>3 DEF QueuedAfter, QueuedAtPoll
  <1>5. QueuedAtGate' /\ QueuedAtMain' /\ QueuedAtAdvance'
    BY DEF QueuedAtGate, QueuedAtMain, QueuedAtAdvance, AfterAdvance
  <1> QED
    BY <1>2, <1>4, <1>5 DEF AdvInv

\* The operations of a macro ask for its level at most.
LEMMA OperationAsksForLevel ==
  ASSUME \/ StopRecord \/ StartRecord \/ StopPlay \/ StartPlay \/ Rewind
         \/ Trim \/ ToggleLoop \/ ToggleBind \/ UNCHANGED nextVars
  PROVE  gNextGameState' \in {gNextGameState, "PLAY"}
  BY DEF StopRecord, StartRecord, StopPlay, StartPlay, Rewind, Trim, ToggleLoop,
         ToggleBind, BoundRestore, RequestLoad, nextVars

LEMMA MacroKeepsStep == AdvInv /\ MacroStep => AdvInv'
  <1> SUFFICES ASSUME AdvInv, MacroStep PROVE AdvInv'
    OBVIOUS
  <1>1. /\ pc = "macro" /\ pc' = "tick" /\ press' \subseteq press
        /\ UNCHANGED <<hold, gGameState, gPlayState, sCurrentSceneId, gCurrentLevel,
                       gPracticeMenuState, stepVars>>
    BY DEF MacroStep, MacroUpdate, uiVars, advanceVars
  <1>2. gNextGameState' \in {gNextGameState, "PLAY"}
    BY OperationAsksForLevel DEF MacroStep, MacroUpdate
  <1> QED
    BY <1>1, <1>2, RestKeepsStep DEF AfterAdvance

LEMMA TickKeepsStep == AdvInv /\ (TickStep \/ SdTickStep) => AdvInv'
  <1> SUFFICES ASSUME AdvInv, TickStep \/ SdTickStep PROVE AdvInv'
    OBVIOUS
  <1>1. /\ pc \in {"tick", "sdtick"} /\ pc' \in {"sdtick", "screen"}
        /\ UNCHANGED <<hold, press, gGameState, gPlayState, sCurrentSceneId,
                       gCurrentLevel, gPracticeMenuState, stepVars>>
    BY DEF TickStep, SdTickStep, XloadStep, SdCrossStep, padVars, uiVars, advanceVars
  <1>2. gNextGameState' \in {gNextGameState, "PLAY"}
    BY DEF TickStep, XloadStep, XloadTick, SdTickStep, SdCrossStep, LoadCb, RequestLoad,
           nextVars
  <1> QED
    BY <1>1, <1>2, RestKeepsStep DEF AfterAdvance

LEMMA SdKeepsStep == AdvInv /\ SdUpdate => AdvInv'
  <1> SUFFICES ASSUME AdvInv, SdUpdate PROVE AdvInv'
    OBVIOUS
  <1>1. /\ pc = "tick" /\ pc' = "poll"
        /\ UNCHANGED <<hold, press, gGameState, gPlayState, sCurrentSceneId,
                       gCurrentLevel, stepVars>>
    BY DEF SdUpdate, padVars, advanceVars
  <1>2. gNextGameState' \in {gNextGameState, "PLAY"}
    <2>1. OskUpdate => gNextGameState' \in {gNextGameState, "PLAY"}
      BY DEF OskUpdate, SaveNameConfirmed, nextVars
    <2>2. FileBrowserUpdate => gNextGameState' \in {gNextGameState, "PLAY"}
      BY DEF FileBrowserUpdate, LoadFileSelected, LoadCb, RequestLoad, nextVars
    <2> QED
      BY <2>1, <2>2 DEF SdUpdate
  <1> QED
    BY <1>1, <1>2, RestKeepsStep DEF AfterAdvance

\* With a step queued no menu is open, and so nothing of it runs.
LEMMA ScreenKeepsStep == Inv /\ AdvInv /\ ScreenUpdate => AdvInv'
  <1> SUFFICES ASSUME Inv, AdvInv, ScreenUpdate PROVE AdvInv'
    OBVIOUS
  <1>1. /\ pc = "screen" /\ pc' = "poll"
        /\ UNCHANGED <<hold, press, gPlayState, sCurrentSceneId, gCurrentLevel, stepVars>>
    BY DEF ScreenUpdate, padVars, advanceVars
  <1>2. ASSUME sQueuedFrameSteps = 1
        PROVE  UNCHANGED gGameState /\ gNextGameState' \in {gNextGameState, "PLAY"}
    <2>1. gPracticeMenuState = "CLOSED"
      BY <1>1, <1>2 DEF AdvInv, QueuedAfter, AfterAdvance
    <2>2. CASE StateMenuUpdate
      <3>1. ASSUME NEW option \in MacroOptions, MacroOption(option)
            PROVE  gNextGameState' \in {gNextGameState, "PLAY"}
        <4>1. CASE option = "RECORD"
          <5>1. \/ IsArmed \/ IsRecording
                \/ ~(IsArmed \/ IsRecording) /\ sMacroHead < sMacroLen
                \/ ~(IsArmed \/ IsRecording) /\ sMacroHead >= sMacroLen
            BY DEF Inv, MacroInv, MacroBounds, sMacroLen
          <5> QED
            BY <3>1, <4>1, <5>1, OperationAsksForLevel DEF MacroOption
        <4>2. CASE option # "RECORD"
          BY <3>1, <4>2, OperationAsksForLevel, MenuAssumption
          DEF MacroOption, OptionKinds
        <4> QED
          BY <4>1, <4>2
      <3> QED
        BY <2>2, <3>1, OperationAsksForLevel DEF StateMenuUpdate
    <2>3. CASE LevelSelectUpdate
      BY <2>3 DEF LevelSelectUpdate, LaunchLevel, nextVars
    <2>4. CASE Hotkeys
      BY <2>4 DEF Hotkeys, SaveStateSlot, LoadStateSlot, LoadCb, RequestLoad, nextVars
    <2> QED
      BY <2>1, <2>2, <2>3, <2>4 DEF ScreenUpdate, MenuUpdate
  <1> QED
    BY <1>1, <1>2, RestKeepsStep DEF AfterAdvance

-----------------------------------------------------------------------------
(* The theorem.                                                            *)

LEMMA StepKeeps ==
  ASSUME RatesAllow, PlayerPad, Inv, SInv, AdvInv, [Next]_vars PROVE AdvInv'
  <1>1. CASE Next
    BY <1>1, PollKeepsStep, GateKeepsStep, PrePlayKeepsStep, MainKeepsStep,
       DrawKeepsStep, AdvanceKeepsStep, MacroKeepsStep, SdKeepsStep, TickKeepsStep,
       ScreenKeepsStep DEF Next, SaveOrDialog
  <1>2. CASE UNCHANGED vars
    BY <1>2
    DEF vars, engineVars, padVars, nextVars, uiVars, advanceVars, stepVars,
        AdvInv, PadSound, HeldMeansPaused, QueuedAfter, QueuedAtPoll, QueuedAtGate,
        QueuedAtMain, QueuedAtAdvance, MayStep, NotDue, LevelOver, Scene
  <1> QED
    BY <1>1, <1>2

\* The invariants of the whole frame hold of the run with the history, too.
LEMMA HistoryKeeps == HistorySpec => [](Inv /\ SInv)
  <1>1. HistoryInit => Inv /\ SInv
    BY InitInv, InitTypes DEF HistoryInit
  <1>2. Inv /\ SInv /\ [HistoryNext]_<<vars, held, ran>> => (Inv /\ SInv)'
    <2> SUFFICES ASSUME Inv, SInv, [HistoryNext]_<<vars, held, ran>>
                 PROVE  (Inv /\ SInv)'
      OBVIOUS
    <2>1. [Next]_vars
      BY DEF HistoryNext
    <2> QED
      BY <2>1, StepInv, StepTypes
  <1> QED
    BY <1>1, <1>2, PTL DEF HistorySpec

\* A step belongs to the press that asked for it: while the pad is the player's,
\* once a frame has run with D-Up up no queued step is left to run later.
THEOREM NoStepLeftHolds ==
  ASSUME RatesAllow
  PROVE  HistorySpec /\ []PlayerPad => []NoStepLeftBehind
  <1>1. HistoryInit => AdvInv
    BY InitStep DEF HistoryInit
  <1>2. PlayerPad /\ Inv /\ SInv /\ AdvInv /\ [HistoryNext]_<<vars, held, ran>> => AdvInv'
    <2> SUFFICES ASSUME PlayerPad, Inv, SInv, AdvInv,
                        [HistoryNext]_<<vars, held, ran>>
                 PROVE  AdvInv'
      OBVIOUS
    <2>1. [Next]_vars
      BY DEF HistoryNext
    <2> QED
      BY <2>1, StepKeeps
  <1>3. SInv /\ AdvInv => NoStepLeftBehind
    BY DEF SInv, AdvanceTypeOK, AdvInv, QueuedAfter, AfterAdvance, NoStepLeftBehind
  <1> QED
    BY <1>1, <1>2, <1>3, HistoryKeeps, PTL DEF HistorySpec

-----------------------------------------------------------------------------
(* The cadence of a D-Up that stays held.                                  *)
(*                                                                         *)
(* The steps queued so far are those that have run and the one that waits. *)
(* With k frames of D-Up behind it the hold timer shows k, up to the delay *)
(* and one more; and past the delay the repeat timer makes up what is left *)
(* of the current repeat:                                                  *)
(*     k - RepeatDelay  =  Steps * RepeatRate - timer, or one more.        *)

\* D-Up is not held together with D-Right, and no macro is replayed.
HeldAlone == ~IsPlaying /\ ~({"DUp", "DRight"} \subseteq hold)

BeforeAdvance == {"gate", "preplay", "main", "draw", "advance"}

\* The frames past the delay, and the steps queued since D-Up went down.
Beyond(k) == IF k > RepeatDelay THEN k - RepeatDelay ELSE 0
Steps == ran + sQueuedFrameSteps

InStep(k) ==
  /\ sFrameAdvanceHoldTimer = IF k <= RepeatDelay THEN k ELSE RepeatDelay + 1
  /\ Steps <= k
  /\ sQueuedFrameSteps = 1 => sFrameAdvanceRepeatTimer = RepeatRate
  /\ k <= RepeatDelay => \/ sFrameAdvanceRepeatTimer = RepeatRate /\ Steps = 1
                         \/ sFrameAdvanceRepeatTimer = 0 /\ Steps = 0
  /\ k > RepeatDelay =>
       /\ sFrameAdvanceRepeatTimer > 0
       /\ k - RepeatDelay + sFrameAdvanceRepeatTimer - Steps * RepeatRate \in 0..1

HistoryType == held \in 0..HistoryCap /\ ran \in 0..HistoryCap

Counting == held > 0 /\ held < HistoryCap /\ sIsPaused

\* What the frame-advance code will find of the pad.
PadHeld ==
  pc \in BeforeAdvance /\ held > 0 =>
    /\ press \cap {"DDown", "DRight"} = {}
    /\ held > 1 => "DUp" \notin press
    /\ held = 1 /\ "DUp" \in hold => "DUp" \in press

\* Until it has run, the timers stand where the frame before left them ...
StepBefore == pc \in BeforeAdvance /\ Counting /\ held > 1 => InStep(held - 1)

\* ... and after it, with this frame counted.
StepAfter ==
  pc \in AfterAdvance \cup {"poll"} /\ Counting /\ gGameState = "PLAY" /\ "DUp" \in hold
    => InStep(held)

\* The steps that have run, even where the frame has ended the level.
RanRight ==
  pc \in AfterAdvance \cup {"poll"} /\ Counting =>
    ran - (Beyond(held) \div RepeatRate) \in 0..1

CadenceInv == HistoryType /\ PadHeld /\ StepBefore /\ StepAfter /\ RanRight

-----------------------------------------------------------------------------
(* Arithmetic.                                                             *)

LEMMA Distributes ==
  ASSUME NEW s \in Int, NEW r \in Int PROVE (s + 1) * r = s * r + r
  OBVIOUS

\* What lies between two multiples has the lower one as its quotient.
LEMMA QuotientIs ==
  ASSUME NEW x \in Int, NEW n \in Int, NEW r \in Nat, r > 0,
         n * r <= x, x < n * r + r
  PROVE  x \div r = n
  <1> DEFINE q == x \div r
  <1>1. q \in Int /\ r * q <= x /\ x < r * q + r
    OBVIOUS
  <1> HIDE DEF q
  <1>2. r * n = n * r
    OBVIOUS
  <1>3. ASSUME q < n PROVE FALSE
    <2>1. r * (q + 1) <= r * n
      BY <1>1, <1>3
    <2>2. r * (q + 1) = r * q + r
      BY <1>1
    <2> QED
      BY <1>1, <1>2, <2>1, <2>2
  <1>4. ASSUME n < q PROVE FALSE
    <2>1. r * (n + 1) <= r * q
      BY <1>1, <1>4
    <2>2. r * (n + 1) = r * n + r
      BY <1>1
    <2> QED
      BY <1>1, <1>2, <2>1, <2>2
  <1>5. q = n
    BY <1>1, <1>3, <1>4
  <1> QED
    BY <1>5 DEF q

\* Where no step waits, the steps that have run are the right number in the
\* next frame, too.
LEMMA InStepIsRight ==
  ASSUME RatesAllow, AdvanceTypeOK, HistoryType, sQueuedFrameSteps = 0,
         NEW k \in Nat, k > 0, InStep(k)
  PROVE  ran - (Beyond(k + 1) \div RepeatRate) \in 0..1
  <1> DEFINE x == Beyond(k + 1)
             t == sFrameAdvanceRepeatTimer
  <1>1. /\ RepeatRate \in Nat /\ RepeatRate > 1 /\ RepeatDelay \in Nat /\ RepeatDelay > 0
        /\ t \in 0..RepeatRate /\ ran \in Nat /\ HistoryCap \in Nat
    BY FrameAdvanceAssumption DEF AdvanceTypeOK, HistoryType, HistoryCap, RatesAllow
  <1>2. Steps = ran
    BY <1>1 DEF Steps
  <1>3. CASE k <= RepeatDelay
    <2>1. x \in 0..1 /\ ran \in 0..1
      BY <1>1, <1>2, <1>3 DEF Beyond, InStep
    <2>2. x \div RepeatRate = 0
      BY <1>1, <2>1, QuotientIs
    <2> QED
      BY <2>1, <2>2
  <1>4. CASE k > RepeatDelay
    <2>1. x = k - RepeatDelay + 1
      BY <1>1, <1>4 DEF Beyond
    <2> DEFINE m == ran * RepeatRate
    <2>2. m \in Int
      BY <1>1
    <2>3. t > 0 /\ k - RepeatDelay + t - m \in 0..1
      BY <1>2, <1>4 DEF InStep
    <2> HIDE DEF m, x, t
    <2>4. x >= m - RepeatRate + 1 /\ x <= m + 1
      BY <1>1, <2>1, <2>2, <2>3
    <2>5. CASE x >= m
      <3>1. m <= x /\ x < m + RepeatRate
        BY <1>1, <2>1, <2>2, <2>4, <2>5
      <3>2. x \div RepeatRate = ran
        BY <1>1, <2>1, <3>1, QuotientIs DEF m
      <3> QED
        BY <1>1, <3>2 DEF x
    <2>6. CASE x < m
      <3>1. m = (ran - 1) * RepeatRate + RepeatRate
        BY <1>1 DEF m
      <3>2. (ran - 1) * RepeatRate <= x /\ x < (ran - 1) * RepeatRate + RepeatRate
        BY <1>1, <2>1, <2>4, <2>6, <3>1
      <3>3. x \div RepeatRate = ran - 1
        BY <1>1, <2>1, <3>2, QuotientIs
      <3> QED
        BY <1>1, <3>3 DEF x
    <2> QED
      BY <1>1, <2>1, <2>2, <2>5, <2>6
  <1> QED
    BY <1>1, <1>3, <1>4

-----------------------------------------------------------------------------
\* One frame of Practice_FrameAdvance_Update, with D-Up held.
LEMMA SteppedCounts ==
  ASSUME RatesAllow, HeldAlone, PadSound, AdvanceTypeOK, HistoryType, AdvanceStepped,
         sQueuedFrameSteps = 0, held > 0, "DUp" \in hold, sIsPaused',
         press \cap {"DDown", "DRight"} = {},
         held > 1 => "DUp" \notin press, held = 1 => "DUp" \in press,
         held > 1 /\ sIsPaused => InStep(held - 1),
         held' = held, ran' = IF held = 1 THEN 0 ELSE ran
  PROVE  InStep(held)'
  <1> DEFINE wasPaused == sIsPaused
             steps == Pressed("DUp") /\ sIsPaused
             pauses == Pressed("DUp") /\ ~sIsPaused
             timer == IF steps THEN RepeatRate
                      ELSE IF pauses THEN 0 ELSE sFrameAdvanceRepeatTimer
             before == IF Pressed("DUp") THEN 0 ELSE sFrameAdvanceHoldTimer
             repeats == Repeats(before)
             due == repeats /\ timer <= 1
  <1>1. ~Pressed("DDown") /\ ~LoadPressed
    BY DEF Pressed, LoadPressed
  <1>2. sIsPaused' = (sIsPaused \/ pauses)
    BY <1>1 DEF AdvanceStepped
  <1>3. /\ sQueuedFrameSteps' = IF due THEN 1 ELSE IF steps THEN 1
                                ELSE IF pauses THEN 0 ELSE sQueuedFrameSteps
        /\ sFrameAdvanceHoldTimer' = IF repeats THEN RepeatDelay + 1 ELSE before + 1
        /\ sFrameAdvanceRepeatTimer' = IF due THEN RepeatRate
                                       ELSE IF repeats THEN timer - 1 ELSE timer
    BY <1>1, <1>2 DEF AdvanceStepped
  <1>4. /\ RepeatRate \in Nat /\ RepeatRate > 1 /\ RepeatDelay \in Nat /\ RepeatDelay > 0
        /\ sFrameAdvanceRepeatTimer \in 0..RepeatRate
        /\ sFrameAdvanceHoldTimer \in Nat
        /\ ran \in Nat /\ held \in Nat
    BY FrameAdvanceAssumption DEF AdvanceTypeOK, HistoryType, HistoryCap, RatesAllow
  <1>5. CASE held = 1
    <2>1. Pressed("DUp") /\ before = 0 /\ ~repeats
      BY <1>4, <1>5 DEF Pressed, Repeats
    <2>2. sFrameAdvanceHoldTimer' = 1 /\ sFrameAdvanceRepeatTimer' = timer
      BY <1>3, <2>1
    <2>3. CASE sIsPaused
      <3>1. sQueuedFrameSteps' = 1 /\ sFrameAdvanceRepeatTimer' = RepeatRate
        BY <1>3, <2>1, <2>2, <2>3
      <3>2. Steps' = 1
        BY <1>5, <3>1 DEF Steps
      <3> QED
        BY <1>4, <1>5, <2>2, <3>1, <3>2 DEF InStep
    <2>4. CASE ~sIsPaused
      <3>1. sQueuedFrameSteps' = 0 /\ sFrameAdvanceRepeatTimer' = 0
        BY <1>3, <2>1, <2>2, <2>4
      <3>2. Steps' = 0
        BY <1>5, <3>1 DEF Steps
      <3> QED
        BY <1>4, <1>5, <2>2, <3>1, <3>2 DEF InStep
    <2> QED
      BY <2>3, <2>4
  <1>6. CASE held > 1
    <2>1. ~Pressed("DUp") /\ sIsPaused /\ InStep(held - 1)
      BY <1>2, <1>6 DEF Pressed
    <2>2. before = sFrameAdvanceHoldTimer /\ timer = sFrameAdvanceRepeatTimer
      BY <2>1
    <2>3. Steps = ran /\ Steps' = ran + sQueuedFrameSteps' /\ ran <= held - 1
      BY <1>4, <1>6, <2>1 DEF Steps, InStep
    <2>4. CASE held <= RepeatDelay
      <3>1. sFrameAdvanceHoldTimer = held - 1 /\ ~repeats
        BY <1>4, <1>6, <2>1, <2>2, <2>4 DEF InStep, Repeats
      <3>2. /\ sQueuedFrameSteps' = 0 /\ sFrameAdvanceHoldTimer' = held
            /\ sFrameAdvanceRepeatTimer' = sFrameAdvanceRepeatTimer
        BY <1>3, <1>4, <2>1, <2>2, <3>1
      <3>3. Steps' = ran
        BY <1>4, <2>3, <3>2
      <3> QED
        BY <1>4, <1>6, <2>1, <2>3, <2>4, <3>2, <3>3 DEF InStep
    <2>5. CASE held > RepeatDelay
      <3> DEFINE x == held - RepeatDelay
                 t == sFrameAdvanceRepeatTimer
                 m == ran * RepeatRate
      <3>1. repeats /\ sFrameAdvanceHoldTimer' = RepeatDelay + 1
        BY <1>3, <1>4, <1>6, <2>1, <2>2, <2>5 DEF InStep, Repeats
      <3>2. m \in Int /\ x \in Int /\ t \in Int
        BY <1>4
      <3>3. (ran + 1) * RepeatRate = m + RepeatRate
        BY <1>4, Distributes
      <3>4. x = 1 => \/ ran = 1 /\ t = RepeatRate
                     \/ ran = 0 /\ t = 0
        <4>1. held - 1 <= RepeatDelay => \/ t = RepeatRate /\ Steps = 1
                                         \/ t = 0 /\ Steps = 0
          BY <2>1 DEF InStep
        <4>2. x = 1 => held - 1 <= RepeatDelay
          BY <1>4
        <4> QED
          BY <2>3, <4>1, <4>2
      <3>5. x > 1 => t > 0 /\ x - 1 + t - m \in 0..1
        <4>1. x > 1 => t > 0 /\ held - 1 - RepeatDelay + t - Steps * RepeatRate \in 0..1
          BY <1>4, <2>1 DEF InStep
        <4> QED
          BY <1>4, <2>3, <3>2, <4>1
      <3>6. ran = 1 => m = RepeatRate
        BY <1>4
      <3>7. ran = 0 => m = 0
        BY <1>4
      <3> HIDE DEF m, x, t
      <3>8. x - 1 + t - m \in 0..1
        BY <1>4, <2>5, <3>2, <3>4, <3>5, <3>6, <3>7 DEF x
      <3>9. CASE t <= 1
        <4>1. /\ sQueuedFrameSteps' = 1 /\ sFrameAdvanceRepeatTimer' = RepeatRate
              /\ Steps' = ran + 1
          BY <1>3, <2>2, <2>3, <3>1, <3>9 DEF t
        <4>2. x + RepeatRate - (m + RepeatRate) \in 0..1
          <5>1. CASE t = 1
            BY <1>4, <3>2, <3>8, <5>1
          <5>2. CASE t = 0
            <6>1. x = 1 /\ m = 0
              BY <1>4, <2>5, <3>2, <3>4, <3>5, <3>7, <5>2 DEF x
            <6> QED
              BY <1>4, <6>1
          <5> QED
            BY <1>4, <3>9, <5>1, <5>2 DEF t
        <4>3. held - RepeatDelay + RepeatRate - (ran + 1) * RepeatRate \in 0..1
          BY <3>3, <4>2 DEF x
        <4> QED
          BY <1>4, <2>3, <2>5, <3>1, <4>1, <4>3 DEF InStep
      <3>10. CASE t > 1
        <4>1. /\ sQueuedFrameSteps' = 0 /\ sFrameAdvanceRepeatTimer' = t - 1
              /\ Steps' = ran
          BY <1>3, <1>4, <2>1, <2>2, <2>3, <3>1, <3>10 DEF t
        <4>2. x + (t - 1) - m \in 0..1
          BY <1>4, <3>2, <3>8
        <4>3. held - RepeatDelay + (t - 1) - ran * RepeatRate \in 0..1
          BY <4>2 DEF x, m
        <4> QED
          BY <1>4, <2>3, <2>5, <3>1, <3>2, <3>10, <4>1, <4>3 DEF InStep
      <3> QED
        BY <3>2, <3>9, <3>10
    <2> QED
      BY <1>4, <2>4, <2>5
  <1> QED
    BY <1>4, <1>5, <1>6

-----------------------------------------------------------------------------
(* The frame, with its history.                                            *)

LEMMA HistoryStep ==
  ASSUME HistoryNext
  PROVE  /\ Next
         /\ pc # "poll" => held' = held
         /\ pc = "advance" /\ held = 1 => ran' = 0
         /\ held' # 0 /\ ~(pc = "advance" /\ held = 1) =>
              ran' = IF pc = "gate" /\ pc' = "preplay" /\ ran < HistoryCap
                     THEN ran + 1 ELSE ran
  BY DEF HistoryNext

LEMMA HistoryTypeKept == HistoryType /\ HistoryNext => HistoryType'
  <1> SUFFICES ASSUME HistoryType, HistoryNext PROVE HistoryType'
    OBVIOUS
  <1>1. HistoryCap \in Nat /\ HistoryCap > 0
    BY FrameAdvanceAssumption DEF HistoryCap
  <1>2. HeldNow \in 0..HistoryCap
    BY <1>1 DEF HeldNow, HistoryType
  <1>3. held' \in 0..HistoryCap
    BY <1>2 DEF HistoryNext, HistoryType
  <1>4. ran' \in {0, ran} \cup (IF ran < HistoryCap THEN {ran + 1} ELSE {})
    BY DEF HistoryNext
  <1>5. ran' \in 0..HistoryCap
    BY <1>1, <1>4 DEF HistoryType
  <1>6. HistoryCap' = HistoryCap
    BY DEF HistoryCap
  <1> QED
    BY <1>3, <1>5, <1>6 DEF HistoryType

\* The pad is read: D-Up goes down, or stays down for one more frame.
LEMMA PollCounts ==
  ASSUME HeldAlone', PadSound', HistoryType, StepAfter, PollStep, HistoryNext
  PROVE  PadHeld' /\ StepBefore' /\ StepAfter' /\ RanRight'
  <1>1. /\ pc = "poll" /\ pc' \in {"poll", "gate"} /\ held' = HeldNow
        /\ press' = hold' \ hold
        /\ UNCHANGED <<sIsPaused, sQueuedFrameSteps, sFrameAdvanceHoldTimer,
                       sFrameAdvanceRepeatTimer>>
    BY DEF PollStep, Poll, ControllerUpdateInput, HistoryNext, practiceVars,
           advanceVars, stepVars
  <1>2. HistoryCap \in Nat /\ HistoryCap > 1 /\ held \in 0..HistoryCap
    BY FrameAdvanceAssumption DEF HistoryCap, HistoryType
  <1>3. ASSUME held' > 0
        PROVE  /\ pc' = "gate" /\ gGameState = "PLAY" /\ "DUp" \in hold'
               /\ held' > 1 => /\ "DUp" \in hold /\ held > 0
                               /\ held' < HistoryCap => held' = held + 1
               /\ held' = 1 => "DUp" \notin hold
    BY <1>1, <1>2, <1>3 DEF HeldNow
  <1>4. PadHeld'
    <2> SUFFICES ASSUME held' > 0
                 PROVE  /\ press' \cap {"DDown", "DRight"} = {}
                        /\ held' > 1 => "DUp" \notin press'
                        /\ held' = 1 /\ "DUp" \in hold' => "DUp" \in press'
      BY DEF PadHeld
    <2>1. "DDown" \notin press' /\ "DRight" \notin press'
      BY <1>3 DEF HeldAlone, PadSound
    <2> QED
      BY <1>1, <1>3, <2>1
  <1>5. StepBefore'
    <2> SUFFICES ASSUME Counting', held' > 1 PROVE InStep(held - 1)'
      BY DEF StepBefore
    <2>1. held' = held + 1 /\ held > 0 /\ held < HistoryCap /\ sIsPaused
      BY <1>1, <1>2, <1>3 DEF Counting, HistoryCap
    <2>2. InStep(held)
      BY <1>1, <1>2, <1>3, <2>1 DEF StepAfter, Counting
    <2>3. ran' = ran
      BY <1>1, <1>2, <2>1, HistoryStep
    <2>4. held' - 1 = held
      BY <1>2, <2>1
    <2> QED
      BY <1>1, <2>2, <2>3, <2>4 DEF InStep, Steps
  <1>6. StepAfter' /\ RanRight'
    BY <1>1, <1>3 DEF StepAfter, RanRight, Counting, AfterAdvance
  <1> QED
    BY <1>4, <1>5, <1>6

\* A queued step runs: it moves from those that wait to those that have run.
LEMMA GateCounts ==
  ASSUME SInv, HistoryType, PadHeld, StepBefore, GateStep, HistoryNext
  PROVE  PadHeld' /\ StepBefore' /\ StepAfter' /\ RanRight'
  <1>1. /\ pc = "gate" /\ pc' \in {"main", "draw", "preplay"} /\ held' = held
        /\ UNCHANGED <<sIsPaused, sFrameAdvanceHoldTimer, sFrameAdvanceRepeatTimer>>
    BY HistoryStep DEF GateStep, Gate
  <1>2. \/ UNCHANGED <<hold, press>>
        \/ press' = {} /\ hold' = {}
        \/ press' = press \cup (hold \ DPad) /\ hold' = hold
    BY DEF GateStep, Gate, Release
  <1>3. PadHeld'
    BY <1>1, <1>2 DEF PadHeld, BeforeAdvance, DPad
  <1>4. StepBefore'
    <2> SUFFICES ASSUME Counting', held' > 1 PROVE InStep(held - 1)'
      BY DEF StepBefore
    <2>1. Counting /\ held > 1 /\ InStep(held - 1)
      BY <1>1 DEF Counting, HistoryCap, StepBefore, BeforeAdvance
    <2>2. /\ HistoryCap \in Nat /\ held \in Nat /\ held < HistoryCap
          /\ ran \in Nat /\ sQueuedFrameSteps \in 0..1
      BY <2>1, FrameAdvanceAssumption
      DEF HistoryCap, HistoryType, Counting, SInv, AdvanceTypeOK
    <2>3. ran < HistoryCap
      BY <2>1, <2>2 DEF InStep, Steps
    <2>4. Steps' = Steps /\ (sQueuedFrameSteps' = 1 => sQueuedFrameSteps = 1)
      <3>1. CASE pc' = "preplay"
        <4>1. sQueuedFrameSteps = 1 /\ sQueuedFrameSteps' = 0
          BY <1>1, <2>1, <2>2, <3>1 DEF GateStep, Gate, Release, Frozen, Counting
        <4>2. ran' = ran + 1
          BY <1>1, <2>1, <2>2, <2>3, <3>1, HistoryStep
        <4> QED
          BY <2>2, <4>1, <4>2 DEF Steps
      <3>2. CASE pc' # "preplay"
        <4>1. sQueuedFrameSteps' = sQueuedFrameSteps
          BY <3>2 DEF GateStep, Gate
        <4>2. ran' = ran
          BY <1>1, <2>1, <2>2, <3>2, HistoryStep
        <4> QED
          BY <4>1, <4>2 DEF Steps
      <3> QED
        BY <3>1, <3>2
    <2> QED
      BY <1>1, <2>1, <2>4 DEF InStep
  <1>5. StepAfter' /\ RanRight'
    BY <1>1 DEF StepAfter, RanRight, AfterAdvance
  <1> QED
    BY <1>3, <1>4, <1>5

\* Nothing of it changes while the frame is computed and drawn.
LEMMA MiddleCounts ==
  ASSUME HeldAlone, HistoryType, PadHeld, StepBefore,
         PrePlayStep \/ MainStep \/ DrawStep, HistoryNext
  PROVE  PadHeld' /\ StepBefore' /\ StepAfter' /\ RanRight'
  <1>1. /\ pc \in BeforeAdvance /\ pc # "gate" /\ pc # "advance" /\ pc # "poll"
        /\ pc' \in BeforeAdvance
    BY DEF PrePlayStep, MacroPrePlay, MainStep, PlayMain, OtherScreen, DrawStep, GameDraw,
           BeforeAdvance
  <1>2. UNCHANGED <<sIsPaused, sQueuedFrameSteps, sFrameAdvanceHoldTimer,
                    sFrameAdvanceRepeatTimer>>
    BY DEF PrePlayStep, MacroPrePlay, MainStep, DrawStep, practiceVars, advanceVars,
           stepVars
  <1>3. UNCHANGED <<hold, press>>
    <2>1. CASE PrePlayStep
      BY <2>1 DEF HeldAlone, PrePlayStep, MacroPrePlay, PrePlayArmed, PrePlayRecording,
                  PrePlayRestore, PrePlayInject, PrePlayEnd, padVars
    <2>2. CASE MainStep
      BY <2>2 DEF MainStep, PlayMain, OtherScreen, padVars
    <2>3. CASE DrawStep
      BY <2>3 DEF DrawStep, GameDraw, padVars
    <2> QED
      BY <2>1, <2>2, <2>3
  <1>4. held' = held /\ (held > 0 => ran' = ran)
    BY <1>1, HistoryStep DEF HistoryType
  <1>5. PadHeld'
    BY <1>1, <1>3, <1>4 DEF PadHeld
  <1>6. StepBefore'
    BY <1>1, <1>2, <1>4 DEF StepBefore, Counting, HistoryCap, InStep, Steps
  <1>7. StepAfter' /\ RanRight'
    BY <1>1 DEF StepAfter, RanRight, AfterAdvance, BeforeAdvance
  <1> QED
    BY <1>5, <1>6, <1>7

\* The frame-advance code runs.
LEMMA AdvanceCounts ==
  ASSUME RatesAllow, HeldAlone, SInv, AdvInv, HistoryType, PadHeld, StepBefore,
         AdvanceStep, HistoryNext
  PROVE  PadHeld' /\ StepBefore' /\ StepAfter' /\ RanRight'
  <1>1. /\ pc = "advance" /\ pc' = "macro" /\ held' = held
        /\ UNCHANGED <<hold, press, gGameState, gPracticeMenuState>>
    BY HistoryStep DEF AdvanceStep, FrameAdvanceUpdate, padVars, uiVars
  <1>2. /\ RepeatRate \in Nat /\ RepeatRate > 1 /\ RepeatDelay \in Nat /\ RepeatDelay > 0
        /\ HistoryCap \in Nat /\ held \in Nat /\ ran \in Nat
        /\ AdvanceTypeOK /\ sQueuedFrameSteps \in 0..1
    BY FrameAdvanceAssumption
    DEF HistoryType, HistoryCap, RatesAllow, SInv, AdvanceTypeOK
  <1>3. held > 0 => ran' = IF held = 1 THEN 0 ELSE ran
    BY <1>1, <1>2, HistoryStep
  <1>4. sQueuedFrameSteps = 1 => gGameState = "PLAY" /\ gPracticeMenuState # "CLOSED"
    BY <1>1 DEF AdvInv, QueuedAtAdvance
  <1>5. Counting' => held > 0 /\ held < HistoryCap
    BY <1>1 DEF Counting, HistoryCap
  <1>6. held > 0 => /\ press \cap {"DDown", "DRight"} = {}
                    /\ held > 1 => "DUp" \notin press
                    /\ held = 1 /\ "DUp" \in hold => "DUp" \in press
    BY <1>1 DEF PadHeld, BeforeAdvance
  <1>7. ASSUME held > 1, held < HistoryCap, sIsPaused PROVE InStep(held - 1)
    BY <1>1, <1>2, <1>7 DEF StepBefore, Counting, BeforeAdvance
  \* Nothing but D-Up pauses, and D-Up pauses when it goes down.
  <1>8. ASSUME Counting' PROVE sQueuedFrameSteps = 0 /\ (held > 1 => sIsPaused)
    <2>1. CASE gGameState # "PLAY"
      <3>1. UNCHANGED sIsPaused
        BY <2>1 DEF AdvanceStep, FrameAdvanceUpdate, advanceVars, stepVars
      <3>2. sQueuedFrameSteps = 0
        BY <1>2, <1>4, <2>1
      <3> QED
        BY <1>8, <3>1, <3>2 DEF Counting
    <2>2. CASE gGameState = "PLAY" /\ gPracticeMenuState # "CLOSED"
      BY <1>8, <2>2 DEF Counting, AdvanceStep, FrameAdvanceUpdate, AdvanceCleared
    <2>3. CASE gGameState = "PLAY" /\ gPracticeMenuState = "CLOSED"
      <3>1. AdvanceStepped /\ sQueuedFrameSteps = 0
        BY <1>2, <1>4, <2>3 DEF AdvanceStep, FrameAdvanceUpdate
      <3>2. held > 1 => ~Pressed("DDown") /\ ~Pressed("DUp") /\ ~LoadPressed
        BY <1>5, <1>6, <1>8 DEF Pressed, LoadPressed
      <3>3. held > 1 => (sIsPaused' <=> sIsPaused)
        BY <3>1, <3>2 DEF AdvanceStepped
      <3> QED
        BY <1>8, <3>1, <3>3 DEF Counting
    <2> QED
      BY <2>1, <2>2, <2>3
  <1>9. StepAfter'
    <2> SUFFICES ASSUME Counting', gGameState = "PLAY", "DUp" \in hold
                 PROVE  InStep(held)'
      BY <1>1 DEF StepAfter
    <2>1. gPracticeMenuState = "CLOSED"
      BY DEF Counting, AdvanceStep, FrameAdvanceUpdate, AdvanceCleared
    <2>2. AdvanceStepped
      BY <2>1 DEF AdvanceStep, FrameAdvanceUpdate
    <2>3. sIsPaused' /\ PadSound
      BY DEF Counting, AdvInv
    <2>4. held > 1 /\ sIsPaused => InStep(held - 1)
      BY <1>5, <1>7
    <2> QED
      BY <1>1, <1>2, <1>3, <1>5, <1>6, <1>8, <2>2, <2>3, <2>4, SteppedCounts
  <1>10. RanRight'
    <2> SUFFICES ASSUME Counting'
                 PROVE  (ran - (Beyond(held) \div RepeatRate) \in 0..1)'
      BY DEF RanRight
    <2>1. CASE held = 1
      <3>1. ran' = 0 /\ Beyond(held)' = 0
        BY <1>1, <1>2, <1>3, <2>1 DEF Beyond
      <3>2. 0 \div RepeatRate = 0
        BY <1>2, QuotientIs
      <3> QED
        BY <3>1, <3>2
    <2>2. CASE held > 1
      <3>1. InStep(held - 1) /\ sQueuedFrameSteps = 0
        BY <1>5, <1>7, <1>8, <2>2
      <3>2. ran - (Beyond(held - 1 + 1) \div RepeatRate) \in 0..1
        BY <1>2, <2>2, <3>1, InStepIsRight
      <3>3. ran' = ran /\ held - 1 + 1 = held
        BY <1>2, <1>3, <2>2
      <3> QED
        BY <1>1, <3>2, <3>3 DEF Beyond
    <2> QED
      BY <1>2, <1>5, <2>1, <2>2
  <1>11. PadHeld' /\ StepBefore'
    BY <1>1 DEF PadHeld, StepBefore, BeforeAdvance
  <1> QED
    BY <1>9, <1>10, <1>11

\* Nor does anything of it change in the rest of the frame.
LEMMA RestCounts ==
  ASSUME HistoryType, StepAfter, RanRight, HistoryNext,
         MacroStep \/ SdUpdate \/ TickStep \/ SdTickStep \/ ScreenUpdate
  PROVE  PadHeld' /\ StepBefore' /\ StepAfter' /\ RanRight'
  <1>1. /\ pc \in AfterAdvance /\ pc' \in AfterAdvance \cup {"poll"}
        /\ hold' = hold
        /\ UNCHANGED <<sIsPaused, sQueuedFrameSteps, sFrameAdvanceHoldTimer,
                       sFrameAdvanceRepeatTimer>>
    BY DEF MacroStep, MacroUpdate, SdUpdate, TickStep, XloadStep, SdTickStep,
           SdCrossStep, ScreenUpdate, AfterAdvance, padVars, advanceVars, stepVars
  <1>2. gGameState' = "PLAY" => gGameState = "PLAY"
    <2>1. CASE MacroStep \/ SdUpdate \/ TickStep \/ SdTickStep
      BY <2>1 DEF MacroStep, MacroUpdate, SdUpdate, TickStep, SdTickStep
    <2>2. CASE ScreenUpdate
      BY <2>2 DEF ScreenUpdate, StateMenuUpdate, LevelSelectUpdate, MenuUpdate,
                  MenuShoulder, MenuLeave, MenuButtons, MenuBack, MenuSelect, Hotkeys
    <2> QED
      BY <2>1, <2>2
  <1>3. held' = held /\ (held > 0 => ran' = ran)
    BY <1>1, HistoryStep DEF AfterAdvance, HistoryType
  <1>4. Counting' => Counting /\ held > 0
    BY <1>1, <1>3 DEF Counting, HistoryCap
  <1>5. StepAfter'
    <2> SUFFICES ASSUME Counting', gGameState' = "PLAY", "DUp" \in hold
                 PROVE  InStep(held)'
      BY <1>1 DEF StepAfter
    <2>1. InStep(held)
      BY <1>1, <1>2, <1>4 DEF StepAfter
    <2> QED
      BY <1>1, <1>3, <1>4, <2>1 DEF InStep, Steps
  <1>6. RanRight'
    BY <1>1, <1>3, <1>4 DEF RanRight, Beyond
  <1>7. PadHeld' /\ StepBefore'
    BY <1>1 DEF PadHeld, StepBefore, BeforeAdvance, AfterAdvance
  <1> QED
    BY <1>5, <1>6, <1>7

LEMMA CadenceKeeps ==
  ASSUME RatesAllow, HeldAlone, HeldAlone', SInv, AdvInv, AdvInv', CadenceInv,
         HistoryNext
  PROVE  CadenceInv'
  <1>1. HistoryType'
    BY HistoryTypeKept DEF CadenceInv
  <1>2. PadSound'
    BY DEF AdvInv
  <1>3. HistoryType /\ PadHeld /\ StepBefore /\ StepAfter /\ RanRight
    BY DEF CadenceInv
  <1>4. PadHeld' /\ StepBefore' /\ StepAfter' /\ RanRight'
    <2>1. CASE PollStep
      BY <1>2, <1>3, <2>1, PollCounts
    <2>2. CASE GateStep
      BY <1>3, <2>2, GateCounts
    <2>3. CASE PrePlayStep \/ MainStep \/ DrawStep
      BY <1>3, <2>3, MiddleCounts
    <2>4. CASE AdvanceStep
      BY <1>3, <2>4, AdvanceCounts
    <2>5. CASE MacroStep \/ SdUpdate \/ TickStep \/ SdTickStep \/ ScreenUpdate
      BY <1>3, <2>5, RestCounts
    <2> QED
      BY <2>1, <2>2, <2>3, <2>4, <2>5, HistoryStep DEF Next, SaveOrDialog
  <1> QED
    BY <1>1, <1>4 DEF CadenceInv

\* The header of practice_frame_advance.c, for every delay and every rate of two
\* frames or more: a D-Up that stays held steps one frame at its press in the
\* pause, and past the delay one in RepeatRate, no more and no less.
THEOREM StepCadenceHolds ==
  ASSUME RatesAllow
  PROVE  HistorySpec /\ []HeldAlone => []StepCadence
  <1>1. HistoryInit => AdvInv /\ CadenceInv
    <2> SUFFICES ASSUME HistoryInit PROVE AdvInv /\ CadenceInv
      OBVIOUS
    <2>1. AdvInv /\ held = 0 /\ ran = 0 /\ HistoryCap \in Nat
      BY InitStep, FrameAdvanceAssumption DEF HistoryInit, HistoryCap
    <2> QED
      BY <2>1 DEF CadenceInv, HistoryType, PadHeld, StepBefore, StepAfter, RanRight,
                  Counting
  <1>2. /\ HeldAlone /\ HeldAlone' /\ Inv /\ SInv /\ AdvInv /\ CadenceInv
        /\ [HistoryNext]_<<vars, held, ran>>
        => AdvInv' /\ CadenceInv'
    <2> SUFFICES ASSUME HeldAlone, HeldAlone', Inv, SInv, AdvInv, CadenceInv,
                        [HistoryNext]_<<vars, held, ran>>
                 PROVE  AdvInv' /\ CadenceInv'
      OBVIOUS
    <2>1. PlayerPad
      BY DEF HeldAlone, PlayerPad, AdvInv, PadSound
    <2>2. [Next]_vars
      BY DEF HistoryNext
    <2>3. AdvInv'
      BY <2>1, <2>2, StepKeeps
    <2>4. CASE HistoryNext
      BY <2>3, <2>4, CadenceKeeps
    <2>5. CASE UNCHANGED <<vars, held, ran>>
      BY <2>3, <2>5
      DEF vars, engineVars, padVars, advanceVars, stepVars, CadenceInv, HistoryType,
          HistoryCap, PadHeld, StepBefore, StepAfter, RanRight, Counting, InStep,
          Steps, Beyond
    <2> QED
      BY <2>3, <2>4, <2>5
  <1>3. SInv /\ CadenceInv => StepCadence
    <2> SUFFICES ASSUME SInv, CadenceInv, pc = "poll", sIsPaused, held > 0,
                        held < HistoryCap
                 PROVE  ran \in {Beyond(held) \div RepeatRate,
                                 Beyond(held) \div RepeatRate + 1}
      BY DEF StepCadence, Beyond
    <2>1. ran - (Beyond(held) \div RepeatRate) \in 0..1
      BY DEF CadenceInv, RanRight, Counting
    <2>2. /\ Beyond(held) \in Int /\ RepeatRate \in Nat /\ RepeatRate > 0 /\ ran \in Int
      BY FrameAdvanceAssumption
      DEF CadenceInv, HistoryType, HistoryCap, Beyond
    <2>3. Beyond(held) \div RepeatRate \in Int
      BY <2>2
    <2> QED
      BY <2>1, <2>2, <2>3
  <1> QED
    BY <1>1, <1>2, <1>3, HistoryKeeps, PTL DEF HistorySpec
=============================================================================

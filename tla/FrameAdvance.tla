---------------------------- MODULE FrameAdvance ----------------------------
(***************************************************************************)
(* practice_frame_advance.c and the gate of fox_game.c that asks it, once  *)
(* a frame, whether the game may advance; practice_input.c's grace period. *)
(***************************************************************************)
EXTENDS SaveState

CONSTANTS
  RepeatDelay,  \* FRAME_ADVANCE_REPEAT_DELAY (12)
  RepeatRate,   \* FRAME_ADVANCE_REPEAT_RATE (2)
  GraceFrames   \* sInputGraceTimer after a restart (15)

ASSUME FrameAdvanceAssumption ==
  RepeatDelay \in Nat /\ RepeatRate \in Nat \ {0} /\ GraceFrames \in Nat

VARIABLES
  sIsPaused, sQueuedFrameSteps,
  sFrameAdvanceHoldTimer,   \* counted up to the first value past the delay
  sFrameAdvanceRepeatTimer,
  sSavedWhilePaused,        \* one flag per slot
  sInputGraceTimer

stepVars == <<sIsPaused, sQueuedFrameSteps, sFrameAdvanceHoldTimer,
              sFrameAdvanceRepeatTimer>>
advanceVars == <<stepVars, sSavedWhilePaused>>

AdvanceTypeOK ==
  /\ sIsPaused \in BOOLEAN
  /\ sQueuedFrameSteps \in 0..1
  /\ sFrameAdvanceHoldTimer \in 0..(RepeatDelay + 1)
  /\ sFrameAdvanceRepeatTimer \in 0..RepeatRate
  /\ sSavedWhilePaused \in [Slots -> BOOLEAN]
  /\ sInputGraceTimer \in 0..GraceFrames

AdvanceInit ==
  /\ sIsPaused = FALSE /\ sQueuedFrameSteps = 0
  /\ sFrameAdvanceHoldTimer = 0 /\ sFrameAdvanceRepeatTimer = 0
  /\ sSavedWhilePaused = [s \in Slots |-> FALSE]
  /\ sInputGraceTimer = 0

-----------------------------------------------------------------------------
(* gate: which of the frame's remaining steps run.                         *)

\* Practice_FrameAdvance_IsFrozen says yes.
Frozen == sIsPaused /\ sQueuedFrameSteps = 0

\* IsFrozen says no: a paused game uses up its queued step, and what the
\* player holds besides the d-pad counts as freshly pressed.  Then
\* Practice_InputGrace_Tick blanks the pad while the grace period lasts.
Release ==
  /\ sQueuedFrameSteps' = IF sIsPaused THEN 0 ELSE sQueuedFrameSteps
  /\ IF sInputGraceTimer > 0
     THEN /\ press' = {} /\ hold' = {}
          /\ sInputGraceTimer' = sInputGraceTimer - 1
     ELSE /\ press' = IF sIsPaused THEN press \cup (hold \ DPad) ELSE press
          /\ UNCHANGED <<hold, sInputGraceTimer>>

Gate ==
  /\ pc = "gate"
  /\ UNCHANGED <<sIsPaused, sFrameAdvanceHoldTimer,
                 sFrameAdvanceRepeatTimer, sSavedWhilePaused>>
  /\ \/ /\ gGameState # "PLAY" /\ pc' = "main"
        /\ UNCHANGED <<hold, press, sQueuedFrameSteps, sInputGraceTimer>>
     \/ /\ gGameState = "PLAY"
        /\ gPracticeMenuState # "CLOSED" \/ Frozen
        /\ pc' = "draw"
        /\ UNCHANGED <<hold, press, sQueuedFrameSteps, sInputGraceTimer>>
     \/ /\ gGameState = "PLAY" /\ gPracticeMenuState = "CLOSED" /\ ~Frozen
        /\ pc' = "preplay"
        /\ Release

-----------------------------------------------------------------------------
(* advance: Practice_FrameAdvance_Update.                                  *)

SavePressed == Pressed("DLeft") /\ "L" \notin hold
LoadPressed == Pressed("DRight") /\ hold \cap {"L", "Z"} = {}

\* Mutant: the open menu ends the pause, but forgets a queued step.
ClearedButQueued ==
  /\ sIsPaused' = FALSE
  /\ sFrameAdvanceHoldTimer' = 0 /\ sFrameAdvanceRepeatTimer' = 0
  /\ UNCHANGED sQueuedFrameSteps

\* The open menu ends frame advance.
AdvanceCleared ==
  /\ sIsPaused' = FALSE /\ sQueuedFrameSteps' = 0
  /\ sFrameAdvanceHoldTimer' = 0 /\ sFrameAdvanceRepeatTimer' = 0

\* Mutant: the delay is one frame too long.
RepeatsLate(held) == held > RepeatDelay

\* D-Up has been held long enough to repeat.
Repeats(held) == held >= RepeatDelay

\* D-Down toggles the pause and D-Up pauses or queues a step, each clearing
\* the timers; a load brings back the slot's pause; and a D-Up that stays
\* held past the delay queues a step every RepeatRate frames.
AdvanceStepped ==
  LET toggled == Pressed("DDown")
      wasPaused == IF toggled THEN ~sIsPaused ELSE sIsPaused
      steps == Pressed("DUp") /\ wasPaused
      pauses == Pressed("DUp") /\ ~wasPaused
      paused == wasPaused \/ pauses
      pausedAfterLoad == IF LoadPressed THEN sSavedWhilePaused[gPracticeActiveSlot]
                                        ELSE paused
      queued == IF steps THEN 1
                ELSE IF toggled \/ pauses THEN 0 ELSE sQueuedFrameSteps
      timer == IF steps THEN RepeatRate
               ELSE IF toggled \/ pauses THEN 0 ELSE sFrameAdvanceRepeatTimer
      held == IF toggled \/ Pressed("DUp") THEN 0 ELSE sFrameAdvanceHoldTimer
      holding == pausedAfterLoad /\ "DUp" \in hold
      repeats == holding /\ Repeats(held)
      due == repeats /\ timer <= 1
  IN /\ sIsPaused' = pausedAfterLoad
     /\ sQueuedFrameSteps' = IF due THEN 1 ELSE queued
     /\ sFrameAdvanceHoldTimer' =
          IF ~holding THEN 0 ELSE IF repeats THEN RepeatDelay + 1 ELSE held + 1
     /\ sFrameAdvanceRepeatTimer' =
          IF ~holding THEN 0
          ELSE IF due THEN RepeatRate
          ELSE IF repeats THEN timer - 1 ELSE timer
     /\ sSavedWhilePaused' =
          IF SavePressed
          THEN [sSavedWhilePaused EXCEPT ![gPracticeActiveSlot] = paused]
          ELSE sSavedWhilePaused

FrameAdvanceUpdate ==
  /\ pc = "advance" /\ pc' = "macro"
  /\ \/ /\ gGameState # "PLAY"
        /\ UNCHANGED <<advanceVars, saveVars, liveVars, nextVars>>
     \/ /\ gGameState = "PLAY" /\ gPracticeMenuState # "CLOSED"
        /\ AdvanceCleared
        /\ UNCHANGED <<sSavedWhilePaused, saveVars, liveVars, nextVars>>
     \/ /\ gGameState = "PLAY" /\ gPracticeMenuState = "CLOSED"
        /\ AdvanceStepped
        /\ \/ SavePressed /\ SaveStateSlot(gPracticeActiveSlot)
           \/ LoadPressed /\ LoadStateSlot(gPracticeActiveSlot)
           \/ /\ ~SavePressed /\ ~LoadPressed
              /\ UNCHANGED <<saveVars, liveVars, nextVars>>
  /\ UNCHANGED <<padVars, gGameState, gPlayState, sCurrentSceneId, gCurrentLevel,
                 gNextGameStateTimer, uiVars, sInputGraceTimer>>
=============================================================================

-------------------------- MODULE SaveState_proofs --------------------------
(***************************************************************************)
(* What holds of every variable and of the save states, for every pad,     *)
(* level, number of slots and time-out: the types, a slot's meta record    *)
(* that describes the slot's image, and loads that fit the scene they go   *)
(* into.  The types alone are not inductive: a snapshot is applied from    *)
(* places that may be blank, and what keeps it from being applied then is  *)
(* the flag that goes with each of them.                                   *)
(***************************************************************************)
EXTENDS PracticeRom_proofs

\* The parts of EngineTypeOK that loads and requests write.
LiveOK ==
  /\ gLevelPhase \in Phases /\ gGameFrameCount \in 0..MaxFrame
  /\ game \in [world : Worlds, player : PlayerStates]

NextOK ==
  /\ gNextGameState \in GameStates \cup {"NONE"}
  /\ gNextLevel \in Levels /\ gNextLevelPhase \in Phases

\* A load that waits has its snapshot in scratch.
StagedIsImage == sSdCross.pending => scratch \in Images

\* A macro that is bound, or waits for its state, has one.
BoundIsImage == sMacroSnapValid \/ sMacroRestorePending => macroSnap \in Images

\* In the open menu START has been held for less than it takes to leave.
HoldInMenu == gPracticeMenuState # "CLOSED" => sStartHoldTimer < StartHoldFrames

SlotsInv == SaveTypeOK /\ MetaDescribesImage /\ StagedIsImage
\* The part of a macro's types that Inv leaves open.
SnapInv ==
  /\ sPrevButton \in SUBSET Buttons
  /\ sMacroSnapValid \in BOOLEAN /\ sMacroRestorePending \in BOOLEAN
  /\ macroSnap \in Images \cup {Blank}
  /\ macroLoop \in BOOLEAN /\ macroBindState \in BOOLEAN
  /\ BoundIsImage
UiInv == MenuTypeOK /\ HoldInMenu

\* The inductive invariant, next to Inv.
SInv == EngineTypeOK /\ SlotsInv /\ AdvanceTypeOK /\ SnapInv /\ UiInv

-----------------------------------------------------------------------------
(* Images, and what is done with them.                                     *)

LEMMA ImageIsNotBlank == \A img \in Images : img # Blank
  <1> SUFFICES ASSUME NEW img \in Images PROVE img # Blank
    OBVIOUS
  <1>1. "level" \in DOMAIN img
    BY DEF Images
  <1>2. "level" \notin DOMAIN Blank
    BY DEF Blank
  <1> QED
    BY <1>1, <1>2

LEMMA ImageIsNotNoFile == \A img \in Images : img # NoFile
  <1> SUFFICES ASSUME NEW img \in Images PROVE img # NoFile
    OBVIOUS
  <1>1. "level" \in DOMAIN img
    BY DEF Images
  <1>2. "level" \notin DOMAIN NoFile
    BY DEF NoFile
  <1> QED
    BY <1>1, <1>2

\* What a save captures is an image.
LEMMA CurrentIsImage == EngineTypeOK => CurrentImage \in Images
  BY DEF EngineTypeOK, CurrentImage, Images

\* What a load puts back has the live game's types.
LEMMA AppliedTypes ==
  ASSUME NEW img \in Images, SnapshotApplyToGame(img) PROVE LiveOK'
  BY DEF SnapshotApplyToGame, Images, LiveOK, PlayerStates

LEMMA RequestTypes ==
  ASSUME NextOK, NEW level \in Levels, NEW phase \in Phases,
         RequestLoad(level, phase)
  PROVE  NextOK'
  BY DEF RequestLoad, NextOK, nextVars, GameStates

LEMMA LiveKept == LiveOK /\ UNCHANGED liveVars => LiveOK'
  BY DEF LiveOK, liveVars

LEMMA NextKept == NextOK /\ UNCHANGED nextVars => NextOK'
  BY DEF NextOK, nextVars

\* Practice_Load_Cb.
LEMMA LoadCbTypes ==
  ASSUME LiveOK, NextOK, sSdCross \in Pending \cup {Idle}, StagedIsImage,
         NEW img \in Images, NEW src \in Slots, LoadCb(img, src)
  PROVE  /\ LiveOK' /\ NextOK' /\ StagedIsImage'
         /\ scratch' \in Images /\ sSdCross' \in Pending \cup {Idle}
  <1>1. scratch' \in Images /\ StagedIsImage'
    BY DEF LoadCb, StagedIsImage
  <1>2. img.level \in Levels /\ img.phase \in Phases /\ img.fresh \in BOOLEAN
    BY DEF Images
  <1>3. CASE ApplyUnlessStale(img) /\ UNCHANGED <<sSdCross, nextVars>>
    BY <1>1, <1>3, AppliedTypes, LiveKept, NextKept DEF ApplyUnlessStale
  <1>4. CASE /\ sSdCross' = [pending |-> TRUE, level |-> img.level,
                             phase |-> img.phase, start |-> gGameFrameCount,
                             overlaySlot |-> src, fresh |-> img.fresh]
             /\ RequestLoad(img.level, img.phase)
             /\ UNCHANGED liveVars
    <2>1. sSdCross' \in Pending
      BY <1>2, <1>4 DEF Pending, LiveOK
    <2> QED
      BY <1>1, <1>2, <1>4, <2>1, RequestTypes, LiveKept
  <1> QED
    BY <1>1, <1>3, <1>4 DEF LoadCb

\* Practice_SaveStateSlot.
LEMMA SaveSlotTypes ==
  ASSUME EngineTypeOK, SlotsInv, NEW s \in Slots, SaveStateSlot(s)
  PROVE  SlotsInv' /\ UNCHANGED <<liveVars, nextVars>>
  <1>1. CASE UNCHANGED <<slotVars, scratch>>
    BY <1>1 DEF SaveStateSlot, SlotsInv, SaveTypeOK, MetaDescribesImage,
                StagedIsImage, slotVars, xloadVars
  <1>2. CASE CanSaveHere
    <2>1. /\ image' = [image EXCEPT ![s] = CurrentImage]
          /\ valid' = [valid EXCEPT ![s] = TRUE]
          /\ gPracticeSlotValidBits' = {t \in Slots : valid'[t]}
          /\ gPracticeSlotMeta' = [gPracticeSlotMeta EXCEPT ![s] = CurrentMeta]
          /\ scratch' = CurrentImage
          /\ UNCHANGED <<gPracticeActiveSlot, xloadVars, sSdCross>>
      BY <1>2 DEF SaveStateSlot
    <2>2. CurrentImage \in Images /\ CurrentImage # Blank
      BY CurrentIsImage, ImageIsNotBlank
    <2>3. CurrentMeta \in Metas
      BY DEF CurrentMeta, Metas, EngineTypeOK
    <2>4. SaveTypeOK' /\ StagedIsImage'
      BY <2>1, <2>2, <2>3 DEF SlotsInv, SaveTypeOK, StagedIsImage, xloadVars
    <2>5. MetaDescribesImage'
      <3> SUFFICES ASSUME NEW t \in Slots, valid'[t]
                   PROVE  /\ gPracticeSlotMeta'[t].valid /\ image'[t] # Blank
                          /\ gPracticeSlotMeta'[t].level = image'[t].level
                          /\ gPracticeSlotMeta'[t].phase = image'[t].phase
        BY DEF MetaDescribesImage
      <3>1. CASE t = s
        BY <2>1, <2>2, <3>1 DEF SlotsInv, SaveTypeOK, CurrentMeta, CurrentImage
      <3>2. CASE t # s
        BY <2>1, <3>2 DEF SlotsInv, SaveTypeOK, MetaDescribesImage
      <3> QED
        BY <3>1, <3>2
    <2> QED
      BY <2>4, <2>5 DEF SlotsInv, SaveStateSlot
  <1> QED
    BY <1>1, <1>2 DEF SaveStateSlot

\* A slot that can be loaded holds an image.
LEMMA ValidIsImage ==
  ASSUME SlotsInv, NEW s \in Slots, valid[s] PROVE image[s] \in Images
  BY DEF SlotsInv, SaveTypeOK, MetaDescribesImage

\* A slot whose meta record is set names a level and a phase.
LEMMA MetaTypes ==
  ASSUME SlotsInv, NEW s \in Slots, gPracticeSlotMeta[s].valid
  PROVE  /\ gPracticeSlotMeta[s].level \in Levels
         /\ gPracticeSlotMeta[s].phase \in Phases
  <1>1. gPracticeSlotMeta[s] \in Metas \cup {NoMeta}
    BY DEF SlotsInv, SaveTypeOK
  <1>2. gPracticeSlotMeta[s] # NoMeta
    <2>1. NoMeta.valid = FALSE
      BY DEF NoMeta
    <2> QED
      BY <2>1, Zenon
  <1> QED
    BY <1>1, <1>2 DEF Metas

\* SlotsInv, where the slots stay and only the waiting loads change.
LEMMA SlotsKeptByLoad ==
  ASSUME SlotsInv, UNCHANGED <<slotVars, gPracticeActiveSlot>>,
         gPracticeCrossLoadState' \in {"IDLE", "AWAIT_SCENE_LOAD"},
         gPracticeCrossLoadSlot' \in Slots,
         gPracticeCrossLoadStartFrame' \in 0..MaxFrame,
         scratch' \in Images \cup {Blank}, sSdCross' \in Pending \cup {Idle},
         StagedIsImage'
  PROVE  SlotsInv'
  BY DEF SlotsInv, SaveTypeOK, MetaDescribesImage, slotVars

\* Practice_LoadStateSlot.
LEMMA LoadSlotTypes ==
  ASSUME LiveOK, NextOK, SlotsInv, NEW s \in Slots, LoadStateSlot(s)
  PROVE  SlotsInv' /\ LiveOK' /\ NextOK'
  <1>1. CASE UNCHANGED <<xloadVars, scratch, sSdCross, liveVars, nextVars>>
    BY <1>1, LiveKept, NextKept, SlotsKeptByLoad
    DEF LoadStateSlot, SlotsInv, SaveTypeOK, StagedIsImage, xloadVars
  <1>2. CASE /\ OtherScene(s)
             /\ gPracticeCrossLoadState' = "AWAIT_SCENE_LOAD"
             /\ gPracticeCrossLoadSlot' = s
             /\ gPracticeCrossLoadStartFrame' = gGameFrameCount
             /\ RequestLoad(gPracticeSlotMeta[s].level, gPracticeSlotMeta[s].phase)
             /\ UNCHANGED <<scratch, sSdCross, liveVars>>
    <2>1. NextOK' /\ LiveOK'
      BY <1>2, MetaTypes, RequestTypes, LiveKept DEF OtherScene
    <2>2. SlotsInv'
      BY <1>2, SlotsKeptByLoad
      DEF LoadStateSlot, SlotsInv, SaveTypeOK, StagedIsImage, LiveOK
    <2> QED
      BY <2>1, <2>2
  <1>3. CASE valid[s] /\ LoadCb(image[s], s) /\ UNCHANGED xloadVars
    <2>1. image[s] \in Images
      BY <1>3, ValidIsImage
    <2>2. /\ LiveOK' /\ NextOK' /\ StagedIsImage'
          /\ scratch' \in Images /\ sSdCross' \in Pending \cup {Idle}
      BY <1>3, <2>1, LoadCbTypes DEF SlotsInv, SaveTypeOK
    <2>3. SlotsInv'
      BY <1>3, <2>2, SlotsKeptByLoad
      DEF LoadStateSlot, SlotsInv, SaveTypeOK, xloadVars
    <2> QED
      BY <2>2, <2>3
  <1> QED
    BY <1>1, <1>2, <1>3 DEF LoadStateSlot

-----------------------------------------------------------------------------
(* Steps that leave a part alone.                                          *)

LEMMA SlotsKept == SlotsInv /\ UNCHANGED saveVars => SlotsInv'
  BY DEF SlotsInv, SaveTypeOK, MetaDescribesImage, StagedIsImage, saveVars, slotVars,
         xloadVars

LEMMA AdvanceKept ==
  AdvanceTypeOK /\ UNCHANGED <<advanceVars, sInputGraceTimer>> => AdvanceTypeOK'
  BY DEF AdvanceTypeOK, advanceVars, stepVars

LEMMA SnapKept == SnapInv /\ UNCHANGED macroVars => SnapInv'
  BY DEF SnapInv, BoundIsImage, macroVars

LEMMA UiKept ==
  ASSUME UiInv, UNCHANGED menuVars,
         gPracticeMenuState' \in {gPracticeMenuState, "CLOSED"}
  PROVE  UiInv'
  BY DEF UiInv, MenuTypeOK, HoldInMenu, menuVars, radialVars, subMenuVars, sdVars

LEMMA PracticeKept ==
  ASSUME SInv, UNCHANGED practiceVars, EngineTypeOK',
         gPracticeMenuState' \in {gPracticeMenuState, "CLOSED"}
  PROVE  SInv'
  BY SlotsKept, AdvanceKept, SnapKept, UiKept DEF SInv, practiceVars

-----------------------------------------------------------------------------
(* The engine.                                                             *)

LEMMA PollTypes == SInv /\ PollStep => SInv'
  <1> SUFFICES ASSUME SInv, PollStep PROVE SInv'
    OBVIOUS
  <1> USE DEF PollStep, Poll
  <1>1. EngineTypeOK
    BY DEF SInv
  <1>2. hold' \in SUBSET Buttons /\ press' \in SUBSET Buttons
    BY PadsAssumption DEF ControllerUpdateInput
  <1>3. UNCHANGED <<gGameFrameCount, game, gPracticeScreen, gPracticeMenuState>>
    BY DEF uiVars
  <1>4. /\ gGameState' \in GameStates /\ gPlayState' \in PlayStates
        /\ gCurrentLevel' \in Levels /\ gLevelPhase' \in Phases
        /\ gNextGameState' \in GameStates \cup {"NONE"}
        /\ gNextLevel' \in Levels /\ gNextLevelPhase' \in Phases
    <2>1. CASE gNextGameState = "NONE"
      BY <1>1, <2>1 DEF GameSetGameState, EngineTypeOK, nextVars
    <2>2. CASE gNextGameState # "NONE"
      BY <1>1, <2>2, EngineAssumption
      DEF GameSetGameState, EngineTypeOK, GameStates, PlayStates
    <2> QED
      BY <2>1, <2>2
  <1>5. sCurrentSceneId' \in Levels \cup GameStates
    BY <1>4 DEF Scene
  <1>6. TimerSet \in 0..SetupFrames
    BY <1>1, EngineAssumption DEF TimerSet, EngineTypeOK
  <1>7. gNextGameStateTimer' \in 0..SetupFrames
    BY <1>6, EngineAssumption DEF TimerDown
  <1>8. pc' \in {"poll", "gate"}
    OBVIOUS
  <1>9. EngineTypeOK'
    BY <1>1, <1>2, <1>3, <1>4, <1>5, <1>7, <1>8 DEF EngineTypeOK
  <1> QED
    BY <1>3, <1>9, PracticeKept

\* One more frame stays within the bound.
LEMMA FrameTickTypes ==
  ASSUME NEW n \in 0..MaxFrame PROVE FrameTick(n) \in 0..MaxFrame
  BY EngineAssumption DEF FrameTick

LEMMA PlayMainTypes ==
  ASSUME EngineTypeOK, PlayMain PROVE EngineTypeOK'
  <1>1. /\ UNCHANGED <<hold, press, sCurrentSceneId, gNextGameStateTimer>>
        /\ pc' = "draw"
    BY DEF PlayMain, padVars
  <1>2. FrameTick(gGameFrameCount) \in 0..MaxFrame /\ 0 \in 0..MaxFrame
    BY FrameTickTypes, EngineAssumption DEF EngineTypeOK
  <1>3. CASE PlayStandby
    BY <1>1, <1>2, <1>3 DEF PlayStandby, EngineTypeOK, PlayStates, nextVars, uiVars
  <1>4. CASE PlayInit
    BY <1>1, <1>2, <1>4
    DEF PlayInit, EngineTypeOK, PlayStates, PlayerStates, nextVars, uiVars
  <1>5. CASE PlayUpdate
    <2>1. PlayerSteps(game.player) \subseteq PlayerStates
      BY DEF PlayerSteps, PlayerStates, EngineTypeOK
    <2>2. game' \in [world : Worlds, player : PlayerStates]
      BY <1>5, <2>1 DEF PlayUpdate
    <2>3. gPlayState' \in PlayStates
      BY <1>5 DEF PlayUpdate, PlayStates
    <2> QED
      BY <1>1, <1>2, <1>5, <2>2, <2>3 DEF PlayUpdate, EngineTypeOK, nextVars, uiVars
  <1>6. CASE PlayUpdateWarps
    BY <1>1, <1>2, <1>6, EngineAssumption
    DEF PlayUpdateWarps, EngineTypeOK, PlayerStates, nextVars, uiVars
  <1>7. CASE PlayUpdateEnds
    BY <1>1, <1>2, <1>7, EngineAssumption
    DEF PlayUpdateEnds, EngineTypeOK, GameStates, PlayStates, nextVars, uiVars
  <1>8. CASE PlayPause
    BY <1>1, <1>8 DEF PlayPause, EngineTypeOK, PlayStates, nextVars, uiVars, liveVars
  <1> QED
    BY <1>3, <1>4, <1>5, <1>6, <1>7, <1>8 DEF PlayMain

LEMMA OtherScreenTypes ==
  ASSUME EngineTypeOK, OtherScreen PROVE EngineTypeOK'
  <1>1. /\ UNCHANGED <<hold, press, sCurrentSceneId, game, gPracticeScreen,
                       gPracticeMenuState>>
        /\ pc' = "draw"
    BY DEF OtherScreen, padVars, uiVars
  <1>2. CASE UNCHANGED <<gGameState, gPlayState, gCurrentLevel, gLevelPhase,
                         gGameFrameCount, nextVars, gNextGameStateTimer>>
    BY <1>1, <1>2 DEF EngineTypeOK, nextVars
  <1>3. CASE VanillaScreen
    <2>1. gGameFrameCount' \in 0..MaxFrame
      BY <1>3, FrameTickTypes, EngineAssumption DEF VanillaScreen, EngineTypeOK
    <2>2. CASE UNCHANGED <<gGameState, gPlayState, gCurrentLevel, gLevelPhase,
                           nextVars, gNextGameStateTimer>>
      BY <1>1, <2>1, <2>2 DEF EngineTypeOK, nextVars
    <2>3. CASE ScreenLeaves
      BY <1>1, <2>1, <2>3, EngineAssumption
      DEF ScreenLeaves, EngineTypeOK, GameStates, PlayStates, nextVars
    <2>4. CASE /\ gNextGameState' = "MAP"
               /\ UNCHANGED <<gGameState, gPlayState, gCurrentLevel, gLevelPhase,
                              gNextLevel, gNextLevelPhase, gNextGameStateTimer>>
      BY <1>1, <2>1, <2>4 DEF EngineTypeOK, GameStates
    <2> QED
      BY <1>3, <2>2, <2>3, <2>4 DEF VanillaScreen
  <1> QED
    BY <1>2, <1>3 DEF OtherScreen

LEMMA MainTypes == SInv /\ MainStep => SInv'
  <1> SUFFICES ASSUME SInv, MainStep PROVE SInv'
    OBVIOUS
  <1>1. EngineTypeOK'
    BY PlayMainTypes, OtherScreenTypes DEF MainStep, SInv
  <1>2. gPracticeMenuState' \in {gPracticeMenuState, "CLOSED"}
    BY DEF MainStep, PlayMain, OtherScreen, PlayStandby, PlayInit, PlayUpdate,
           PlayUpdateWarps, PlayUpdateEnds, PlayPause, uiVars
  <1> QED
    BY <1>1, <1>2, PracticeKept DEF MainStep

LEMMA DrawTypes == SInv /\ DrawStep => SInv'
  <1> SUFFICES ASSUME SInv, DrawStep PROVE SInv'
    OBVIOUS
  <1>1. gPlayState' \in PlayStates /\ game' \in [world : Worlds, player : PlayerStates]
    BY DEF DrawStep, GameDraw, PauseScreenEnds, SInv, EngineTypeOK, PlayStates,
           PlayerStates
  <1>2. EngineTypeOK' /\ UNCHANGED gPracticeMenuState
    BY <1>1 DEF DrawStep, GameDraw, SInv, EngineTypeOK, padVars, nextVars, uiVars
  <1> QED
    BY <1>2, PracticeKept DEF DrawStep

-----------------------------------------------------------------------------
(* Frame advance.                                                          *)

LEMMA GateTypes == SInv /\ GateStep => SInv'
  <1> SUFFICES ASSUME SInv, GateStep PROVE SInv'
    OBVIOUS
  <1>1. hold' \in SUBSET Buttons /\ press' \in SUBSET Buttons
    BY DEF GateStep, Gate, Release, SInv, EngineTypeOK
  <1>2. pc' \in {"main", "draw", "preplay"}
    BY DEF GateStep, Gate
  <1>3. EngineTypeOK' /\ UNCHANGED gPracticeMenuState
    BY <1>1, <1>2 DEF GateStep, SInv, EngineTypeOK, liveVars, nextVars, uiVars
  <1>4. AdvanceTypeOK'
    BY FrameAdvanceAssumption DEF GateStep, Gate, Release, SInv, AdvanceTypeOK
  <1> QED
    BY <1>3, <1>4, SlotsKept, SnapKept, UiKept DEF SInv, GateStep

\* The timers, the pause and the queued step.
LEMMA AdvanceSteppedTypes ==
  ASSUME AdvanceTypeOK, gPracticeActiveSlot \in Slots, AdvanceStepped
  PROVE  /\ sIsPaused' \in BOOLEAN /\ sQueuedFrameSteps' \in 0..1
         /\ sFrameAdvanceHoldTimer' \in 0..(RepeatDelay + 1)
         /\ sFrameAdvanceRepeatTimer' \in 0..RepeatRate
         /\ sSavedWhilePaused' \in [Slots -> BOOLEAN]
  <1> DEFINE toggled == Pressed("DDown")
             wasPaused == IF toggled THEN ~sIsPaused ELSE sIsPaused
             steps == Pressed("DUp") /\ wasPaused
             pauses == Pressed("DUp") /\ ~wasPaused
             paused == wasPaused \/ pauses
             pausedAfterLoad == IF LoadPressed
                                THEN sSavedWhilePaused[gPracticeActiveSlot]
                                ELSE paused
             queued == IF steps THEN 1
                       ELSE IF toggled \/ pauses THEN 0 ELSE sQueuedFrameSteps
             timer == IF steps THEN RepeatRate
                      ELSE IF toggled \/ pauses THEN 0 ELSE sFrameAdvanceRepeatTimer
             held == IF toggled \/ Pressed("DUp") THEN 0 ELSE sFrameAdvanceHoldTimer
             holding == pausedAfterLoad /\ "DUp" \in hold
             repeats == holding /\ Repeats(held)
             due == repeats /\ timer <= 1
  <1>1. /\ sIsPaused' = pausedAfterLoad
        /\ sQueuedFrameSteps' = IF due THEN 1 ELSE queued
        /\ sFrameAdvanceHoldTimer' =
             IF ~holding THEN 0 ELSE IF repeats THEN RepeatDelay + 1 ELSE held + 1
        /\ sFrameAdvanceRepeatTimer' =
             IF ~holding THEN 0
             ELSE IF due THEN RepeatRate
             ELSE IF repeats THEN timer - 1 ELSE timer
        /\ sSavedWhilePaused' =
             IF SavePressed
             THEN [sSavedWhilePaused EXCEPT ![gPracticeActiveSlot] = paused]
             ELSE sSavedWhilePaused
    BY Zenon DEF AdvanceStepped
  <1>2. wasPaused \in BOOLEAN /\ paused \in BOOLEAN
    BY DEF AdvanceTypeOK
  <1>3. sSavedWhilePaused[gPracticeActiveSlot] \in BOOLEAN
    BY DEF AdvanceTypeOK
  <1>4. pausedAfterLoad \in BOOLEAN
    BY <1>2, <1>3
  <1>5. /\ queued \in 0..1 /\ timer \in 0..RepeatRate
        /\ held \in 0..(RepeatDelay + 1)
    BY FrameAdvanceAssumption DEF AdvanceTypeOK
  <1>6. sSavedWhilePaused' \in [Slots -> BOOLEAN]
    <2>1. sSavedWhilePaused \in [Slots -> BOOLEAN]
      BY DEF AdvanceTypeOK
    <2> HIDE DEF paused
    <2> QED
      BY <1>1, <1>2, <2>1
  <1>7. sQueuedFrameSteps' \in 0..1
    BY <1>1, <1>5
  <1>8. sFrameAdvanceRepeatTimer' \in 0..RepeatRate
    <2>1. due \/ ~repeats \/ timer > 1
      BY <1>5, FrameAdvanceAssumption
    <2> HIDE DEF timer, due, repeats, holding
    <2> QED
      BY <1>1, <1>5, <2>1, FrameAdvanceAssumption
  <1>9. sFrameAdvanceHoldTimer' \in 0..(RepeatDelay + 1)
    <2>1. ~holding \/ repeats \/ held < RepeatDelay
      BY <1>5, FrameAdvanceAssumption DEF Repeats
    <2> HIDE DEF held, repeats, holding
    <2> QED
      BY <1>1, <1>5, <2>1, FrameAdvanceAssumption
  <1> QED
    BY <1>1, <1>4, <1>6, <1>7, <1>8, <1>9

LEMMA AdvanceTypes == SInv /\ AdvanceStep => SInv'
  <1> SUFFICES ASSUME SInv, AdvanceStep PROVE SInv'
    OBVIOUS
  <1>1. /\ UNCHANGED <<padVars, gGameState, gPlayState, sCurrentSceneId, gCurrentLevel,
                       gNextGameStateTimer, uiVars, sInputGraceTimer, macroVars,
                       menuVars>>
        /\ pc' = "macro"
    BY DEF AdvanceStep, FrameAdvanceUpdate
  <1>2. LiveOK /\ NextOK /\ gPracticeActiveSlot \in Slots
    BY DEF SInv, EngineTypeOK, LiveOK, NextOK, SlotsInv, SaveTypeOK
  <1>3. SnapInv' /\ UiInv'
    BY <1>1, SnapKept, UiKept DEF SInv, uiVars
  <1>4. AdvanceTypeOK'
    <2>1. CASE UNCHANGED advanceVars
      BY <1>1, <2>1, AdvanceKept DEF SInv
    <2>2. CASE AdvanceCleared /\ UNCHANGED sSavedWhilePaused
      <3>1. /\ 0 \in 0..1 /\ 0 \in 0..(RepeatDelay + 1) /\ 0 \in 0..RepeatRate
            /\ FALSE \in BOOLEAN
        BY FrameAdvanceAssumption
      <3>2. /\ sSavedWhilePaused' = sSavedWhilePaused
            /\ sInputGraceTimer' = sInputGraceTimer
        BY <1>1, <2>2
      <3>3. AdvanceTypeOK
        BY DEF SInv
      <3>4. /\ sIsPaused' = FALSE /\ sQueuedFrameSteps' = 0
            /\ sFrameAdvanceHoldTimer' = 0 /\ sFrameAdvanceRepeatTimer' = 0
        BY <2>2 DEF AdvanceCleared
      <3> QED
        BY <3>1, <3>2, <3>3, <3>4 DEF AdvanceTypeOK
    <2>3. CASE AdvanceStepped
      BY <1>1, <1>2, <2>3, AdvanceSteppedTypes DEF AdvanceTypeOK, SInv
    <2> QED
      BY <2>1, <2>2, <2>3 DEF AdvanceStep, FrameAdvanceUpdate
  <1>5. SlotsInv' /\ LiveOK' /\ NextOK'
    <2>1. CASE UNCHANGED <<saveVars, liveVars, nextVars>>
      BY <1>2, <2>1, SlotsKept, LiveKept, NextKept DEF SInv
    <2>2. CASE SaveStateSlot(gPracticeActiveSlot)
      BY <1>2, <2>2, SaveSlotTypes, LiveKept, NextKept DEF SInv
    <2>3. CASE LoadStateSlot(gPracticeActiveSlot)
      BY <1>2, <2>3, LoadSlotTypes DEF SInv
    <2> QED
      BY <2>1, <2>2, <2>3 DEF AdvanceStep, FrameAdvanceUpdate
  <1>6. EngineTypeOK'
    BY <1>1, <1>5 DEF SInv, EngineTypeOK, LiveOK, NextOK, padVars, uiVars
  <1> QED
    BY <1>3, <1>4, <1>5, <1>6 DEF SInv

-----------------------------------------------------------------------------
(* The ticks: the loads that wait.                                         *)

LEMMA TickTypes == SInv /\ TickStep => SInv'
  <1> SUFFICES ASSUME SInv, TickStep PROVE SInv'
    OBVIOUS
  <1>1. /\ UNCHANGED <<padVars, gGameState, gPlayState, sCurrentSceneId, gCurrentLevel,
                       gNextGameStateTimer, uiVars, advanceVars, sInputGraceTimer,
                       macroVars, menuVars, slotVars, gPracticeActiveSlot>>
        /\ pc' = "sdtick"
    BY DEF TickStep, XloadStep
  <1>2. LiveOK /\ NextOK /\ SlotsInv /\ gPracticeCrossLoadSlot \in Slots
    BY DEF SInv, EngineTypeOK, LiveOK, NextOK, SlotsInv, SaveTypeOK
  <1>3. SnapInv' /\ UiInv' /\ AdvanceTypeOK'
    BY <1>1, SnapKept, UiKept, AdvanceKept DEF SInv, uiVars
  <1>4. SlotsInv' /\ LiveOK' /\ NextOK'
    <2>1. /\ gPracticeCrossLoadState' \in {"IDLE", "AWAIT_SCENE_LOAD"}
          /\ gPracticeCrossLoadSlot' \in Slots
          /\ gPracticeCrossLoadStartFrame' \in 0..MaxFrame
      BY DEF TickStep, XloadStep, XloadTick, SInv, SlotsInv, SaveTypeOK, xloadVars
    <2>2. CASE UNCHANGED <<scratch, sSdCross, liveVars, nextVars>>
      BY <1>1, <1>2, <2>1, <2>2, SlotsKeptByLoad, LiveKept, NextKept
      DEF SlotsInv, SaveTypeOK, StagedIsImage
    <2>3. CASE /\ valid[gPracticeCrossLoadSlot]
               /\ LoadCb(image[gPracticeCrossLoadSlot], gPracticeCrossLoadSlot)
      <3>1. image[gPracticeCrossLoadSlot] \in Images
        BY <1>2, <2>3, ValidIsImage
      <3>2. /\ LiveOK' /\ NextOK' /\ StagedIsImage'
            /\ scratch' \in Images /\ sSdCross' \in Pending \cup {Idle}
        BY <1>2, <2>3, <3>1, LoadCbTypes DEF SlotsInv, SaveTypeOK
      <3> QED
        BY <1>1, <1>2, <2>1, <3>2, SlotsKeptByLoad
    <2> QED
      BY <2>2, <2>3 DEF TickStep, XloadStep, XloadTick
  <1>5. EngineTypeOK'
    BY <1>1, <1>4 DEF SInv, EngineTypeOK, LiveOK, NextOK, padVars, uiVars
  <1> QED
    BY <1>3, <1>4, <1>5 DEF SInv

LEMMA SdTickTypes == SInv /\ SdTickStep => SInv'
  <1> SUFFICES ASSUME SInv, SdTickStep PROVE SInv'
    OBVIOUS
  <1>1. /\ UNCHANGED <<padVars, gGameState, gPlayState, sCurrentSceneId, gCurrentLevel,
                       gNextGameStateTimer, uiVars, advanceVars, sInputGraceTimer,
                       macroVars, menuVars, slotVars, gPracticeActiveSlot, xloadVars,
                       scratch, nextVars>>
        /\ pc' = "screen"
    BY DEF SdTickStep, SdCrossStep
  <1>2. LiveOK /\ SlotsInv
    BY DEF SInv, EngineTypeOK, LiveOK
  <1>3. SnapInv' /\ UiInv' /\ AdvanceTypeOK'
    BY <1>1, SnapKept, UiKept, AdvanceKept DEF SInv, uiVars
  <1>4. sSdCross' \in {sSdCross, Idle}
    BY DEF SdTickStep, SdCrossStep, SdCrossTick
  <1>5. LiveOK'
    <2>1. CASE UNCHANGED liveVars
      BY <1>2, <2>1, LiveKept
    <2>2. CASE sSdCross.pending /\ SnapshotApplyToGame(scratch)
      BY <1>2, <2>2, AppliedTypes DEF SlotsInv, StagedIsImage
    <2> QED
      BY <2>1, <2>2 DEF SdTickStep, SdCrossStep, SdCrossTick
  <1>6. SlotsInv'
    <2>1. StagedIsImage' /\ sSdCross' \in Pending \cup {Idle}
      BY <1>1, <1>2, <1>4 DEF SlotsInv, SaveTypeOK, StagedIsImage, Idle
    <2> QED
      BY <1>1, <1>2, <2>1, SlotsKeptByLoad DEF SlotsInv, SaveTypeOK, xloadVars
  <1>7. EngineTypeOK'
    BY <1>1, <1>5 DEF SInv, EngineTypeOK, LiveOK, padVars, uiVars, nextVars
  <1> QED
    BY <1>3, <1>6, <1>7 DEF SInv

-----------------------------------------------------------------------------
(* The macro: its operations write its own state and the level request.    *)

LEMMA SnapKeptBy ==
  ASSUME SnapInv, sPrevButton' \in SUBSET Buttons, UNCHANGED macroSnap,
         sMacroSnapValid' \in BOOLEAN, sMacroRestorePending' \in BOOLEAN,
         sMacroSnapValid' \/ sMacroRestorePending' =>
           sMacroSnapValid \/ sMacroRestorePending,
         macroLoop' \in BOOLEAN, macroBindState' \in BOOLEAN
  PROVE  SnapInv'
  BY DEF SnapInv, BoundIsImage

LEMMA BoundRestoreTypes ==
  ASSUME SnapInv, NextOK, BoundRestore, sPrevButton' \in SUBSET Buttons,
         UNCHANGED <<sMacroSnapValid, macroSnap, macroLoop, macroBindState>>
  PROVE  SnapInv' /\ NextOK'
  <1>1. CASE macroBindState /\ sMacroSnapValid
    <2>1. macroSnap \in Images
      BY <1>1 DEF SnapInv, BoundIsImage
    <2>2. macroSnap.level \in Levels /\ macroSnap.phase \in Phases
      BY <2>1 DEF Images
    <2>3. NextOK'
      BY <1>1, <2>2, RequestTypes, NextKept DEF BoundRestore
    <2>4. sMacroRestorePending' = TRUE
      BY <1>1 DEF BoundRestore
    <2> QED
      BY <2>1, <2>3, <2>4 DEF SnapInv, BoundIsImage
  <1>2. CASE ~(macroBindState /\ sMacroSnapValid)
    <2>1. UNCHANGED <<sMacroRestorePending, nextVars>>
      BY <1>2, Zenon DEF BoundRestore
    <2> QED
      BY <2>1, NextKept, SnapKeptBy DEF SnapInv
  <1> QED
    BY <1>1, <1>2

LEMMA StartPlayTypes == SnapInv /\ NextOK /\ StartPlay => SnapInv' /\ NextOK'
  <1> SUFFICES ASSUME SnapInv, NextOK, StartPlay PROVE SnapInv' /\ NextOK'
    OBVIOUS
  <1>1. UNCHANGED <<sMacroSnapValid, macroSnap, macroLoop, macroBindState>>
    BY DEF StartPlay
  <1>2. CASE BoundRestore /\ sPrevButton' = {}
    BY <1>1, <1>2, BoundRestoreTypes
  <1>3. CASE UNCHANGED <<sPrevButton, sMacroRestorePending, nextVars>>
    BY <1>1, <1>3, NextKept, SnapKeptBy DEF SnapInv
  <1> QED
    BY <1>2, <1>3 DEF StartPlay, FromTheStart

LEMMA StopPlayTypes == SnapInv /\ NextOK /\ StopPlay => SnapInv' /\ NextOK'
  <1> SUFFICES ASSUME SnapInv, NextOK, StopPlay PROVE SnapInv' /\ NextOK'
    OBVIOUS
  <1>1. UNCHANGED <<sMacroSnapValid, macroSnap, macroLoop, macroBindState, nextVars>>
    BY DEF StopPlay
  <1>2. CASE sPrevButton' = {} /\ sMacroRestorePending' = FALSE
    BY <1>1, <1>2, NextKept, SnapKeptBy DEF SnapInv
  <1>3. CASE UNCHANGED <<sPrevButton, sMacroRestorePending>>
    BY <1>1, <1>3, NextKept, SnapKeptBy DEF SnapInv
  <1> QED
    BY <1>2, <1>3 DEF StopPlay

LEMMA TrimTypes == SnapInv /\ NextOK /\ Trim => SnapInv' /\ NextOK'
  <1> SUFFICES ASSUME SnapInv, NextOK, Trim PROVE SnapInv' /\ NextOK'
    OBVIOUS
  <1>1. UNCHANGED <<sPrevButton, macroSnap, sMacroRestorePending, nextVars, macroLoop,
                    macroBindState>>
    BY DEF Trim
  <1>2. CASE UNCHANGED sMacroSnapValid
    BY <1>1, <1>2, NextKept, SnapKeptBy DEF SnapInv
  <1>3. CASE sMacroSnapValid' = (sMacroSnapValid /\ sMacroHead > 0)
    <2>1. sMacroSnapValid' \in BOOLEAN /\ (sMacroSnapValid' => sMacroSnapValid)
      BY <1>3, Zenon
    <2> QED
      BY <1>1, <2>1, NextKept, SnapKeptBy DEF SnapInv
  <1> QED
    BY <1>2, <1>3 DEF Trim

\* The operations of the hotkeys and of the macro menu.
LEMMA OperationTypes ==
  ASSUME SnapInv, NextOK,
         \/ StopRecord \/ StartRecord \/ StopPlay \/ StartPlay \/ Rewind
         \/ Trim \/ ToggleLoop \/ ToggleBind \/ UNCHANGED <<macroVars, nextVars>>
  PROVE  SnapInv' /\ NextOK'
  <1>1. CASE StopRecord \/ StartRecord \/ Rewind
    <2>1. sPrevButton' \in SUBSET Buttons
      BY <1>1 DEF StopRecord, StartRecord, Rewind, BackToStart, SnapInv
    <2> QED
      BY <1>1, <2>1, NextKept, SnapKeptBy DEF StopRecord, StartRecord, Rewind, SnapInv
  <1>2. CASE ToggleLoop
    <2>1. macroLoop' \in BOOLEAN
      BY <1>2, Zenon DEF ToggleLoop
    <2> QED
      BY <1>2, <2>1, NextKept, SnapKeptBy DEF ToggleLoop, SnapInv
  <1>3. CASE ToggleBind
    <2>1. macroBindState' \in BOOLEAN
      BY <1>3, Zenon DEF ToggleBind
    <2> QED
      BY <1>3, <2>1, NextKept, SnapKeptBy DEF ToggleBind, SnapInv
  <1>4. CASE UNCHANGED <<macroVars, nextVars>>
    BY <1>4, SnapKept, NextKept
  <1> QED
    BY <1>1, <1>2, <1>3, <1>4, StartPlayTypes, StopPlayTypes, TrimTypes

\* What Practice_Macro_PrePlay writes.
LEMMA MacroPrePlayTypes ==
  ASSUME Inv, SInv, MacroPrePlay
  PROVE  /\ LiveOK' /\ NextOK' /\ SnapInv'
         /\ hold' \in SUBSET Buttons /\ press' \in SUBSET Buttons
  <1>1. /\ EngineTypeOK /\ LiveOK /\ NextOK /\ SnapInv
        /\ hold \in SUBSET Buttons /\ press \in SUBSET Buttons
    BY DEF SInv, EngineTypeOK, LiveOK, NextOK
  <1>2. CASE UNCHANGED <<padVars, liveVars, nextVars, macroVars>>
    BY <1>1, <1>2, LiveKept, NextKept, SnapKept DEF padVars
  <1>3. CASE PrePlayArmed
    <2>1. UNCHANGED <<padVars, liveVars, nextVars, sPrevButton, sMacroRestorePending,
                      macroLoop, macroBindState>>
      BY <1>3 DEF PrePlayArmed
    <2>2. SnapInv'
      <3>1. CASE UNCHANGED <<sMacroSnapValid, macroSnap>>
        BY <1>1, <2>1, <3>1, SnapKeptBy DEF SnapInv
      <3>2. CASE sMacroSnapValid' = TRUE /\ macroSnap' = CurrentImage
        <4>1. CurrentImage \in Images
          BY <1>1, CurrentIsImage
        <4> QED
          BY <1>1, <2>1, <3>2, <4>1 DEF SnapInv, BoundIsImage
      <3> QED
        BY <1>3, <3>1, <3>2 DEF PrePlayArmed
    <2> QED
      BY <1>1, <2>1, <2>2, LiveKept, NextKept DEF padVars
  <1>4. CASE PrePlayRecording
    <2>1. UNCHANGED <<padVars, liveVars, nextVars, sPrevButton, sMacroSnapValid,
                      macroSnap, sMacroRestorePending, macroLoop, macroBindState>>
      BY <1>4 DEF PrePlayRecording
    <2> QED
      BY <1>1, <2>1, LiveKept, NextKept, SnapKeptBy DEF padVars, SnapInv
  <1>5. CASE PrePlayRestore
    <2>1. /\ UNCHANGED <<padVars, nextVars, sPrevButton, sMacroSnapValid, macroSnap,
                         macroLoop, macroBindState>>
          /\ sMacroRestorePending
      BY <1>5 DEF PrePlayRestore
    <2>2. macroSnap \in Images
      BY <1>1, <2>1 DEF SnapInv, BoundIsImage
    <2>3. CASE SnapshotApplyToGame(macroSnap) /\ sMacroRestorePending' = FALSE
      BY <1>1, <2>1, <2>2, <2>3, AppliedTypes, NextKept, SnapKeptBy
      DEF padVars, SnapInv
    <2>4. CASE UNCHANGED <<liveVars, sMacroRestorePending>>
      BY <1>1, <2>1, <2>4, LiveKept, NextKept, SnapKeptBy DEF padVars, SnapInv
    <2> QED
      BY <1>5, <2>3, <2>4 DEF PrePlayRestore
  <1>6. CASE PrePlayInject
    <2> DEFINE f == sMacroBuf[sMacroHead + 1]
    <2>1. f \in SUBSET Buttons
      BY <1>6 DEF Inv, MacroInv, MacroBounds, PrePlayInject, sMacroLen
    <2>2. /\ hold' = f /\ press' = f \ sPrevButton /\ sPrevButton' = f
          /\ UNCHANGED <<liveVars, nextVars, sMacroSnapValid, macroSnap,
                         sMacroRestorePending, macroLoop, macroBindState>>
      BY <1>6 DEF PrePlayInject, FreshlyPressed
    <2> HIDE DEF f
    <2> QED
      BY <1>1, <2>1, <2>2, LiveKept, NextKept, SnapKeptBy DEF SnapInv
  <1>7. CASE PrePlayEnd
    <2>1. UNCHANGED <<padVars, liveVars, sMacroSnapValid, macroSnap, macroLoop,
                      macroBindState>> /\ sPrevButton' = {}
      BY <1>7 DEF PrePlayEnd
    <2>2. CASE BoundRestore
      BY <1>1, <2>1, <2>2, LiveKept, BoundRestoreTypes DEF padVars
    <2>3. CASE UNCHANGED <<sMacroRestorePending, nextVars>>
      BY <1>1, <2>1, <2>3, LiveKept, NextKept, SnapKeptBy DEF padVars, SnapInv
    <2> QED
      BY <1>7, <2>2, <2>3 DEF PrePlayEnd, EndStops
  <1> QED
    BY <1>2, <1>3, <1>4, <1>5, <1>6, <1>7 DEF MacroPrePlay

LEMMA PrePlayTypes == Inv /\ SInv /\ PrePlayStep => SInv'
  <1> SUFFICES ASSUME Inv, SInv, PrePlayStep PROVE SInv'
    OBVIOUS
  <1>1. /\ UNCHANGED <<gGameState, gPlayState, sCurrentSceneId, gCurrentLevel,
                       gNextGameStateTimer, uiVars, saveVars, advanceVars,
                       sInputGraceTimer, menuVars>>
        /\ pc' \in {"draw", "main"}
    BY DEF PrePlayStep, MacroPrePlay
  <1>2. SlotsInv' /\ UiInv' /\ AdvanceTypeOK'
    BY <1>1, SlotsKept, UiKept, AdvanceKept DEF SInv, uiVars
  <1>3. /\ LiveOK' /\ NextOK' /\ SnapInv'
        /\ hold' \in SUBSET Buttons /\ press' \in SUBSET Buttons
    BY MacroPrePlayTypes DEF PrePlayStep
  <1>4. EngineTypeOK'
    BY <1>1, <1>3 DEF SInv, EngineTypeOK, LiveOK, NextOK, uiVars
  <1> QED
    BY <1>2, <1>3, <1>4 DEF SInv

LEMMA MacroTypes == SInv /\ MacroStep => SInv'
  <1> SUFFICES ASSUME SInv, MacroStep PROVE SInv'
    OBVIOUS
  <1>1. /\ UNCHANGED <<hold, gGameState, gPlayState, sCurrentSceneId, gCurrentLevel,
                       liveVars, gNextGameStateTimer, uiVars, saveVars, advanceVars,
                       sInputGraceTimer, menuVars>>
        /\ pc' = "tick"
    BY DEF MacroStep, MacroUpdate
  <1>2. SlotsInv' /\ UiInv' /\ AdvanceTypeOK'
    BY <1>1, SlotsKept, UiKept, AdvanceKept DEF SInv, uiVars
  <1>3. press' \in SUBSET Buttons
    BY DEF MacroStep, MacroUpdate, SInv, EngineTypeOK
  <1>4. SnapInv' /\ NextOK'
    <2>1. SnapInv /\ NextOK
      BY DEF SInv, EngineTypeOK, NextOK
    <2>2. \/ StopRecord \/ StartRecord \/ StopPlay \/ StartPlay \/ Rewind
          \/ ToggleLoop \/ UNCHANGED <<macroVars, nextVars>>
      BY DEF MacroStep, MacroUpdate
    <2> QED
      BY <2>1, <2>2, OperationTypes
  <1>5. EngineTypeOK'
    BY <1>1, <1>3, <1>4 DEF SInv, EngineTypeOK, NextOK, uiVars, liveVars
  <1> QED
    BY <1>2, <1>4, <1>5 DEF SInv

-----------------------------------------------------------------------------
(* The SD dialogs.                                                         *)

\* A file whose image is staged in slot 0 makes the slot unfit for RAM loads.
LEMMA StagedTypes ==
  ASSUME SlotsInv, NEW img \in Images \cup {Blank},
         image' \in {image, [image EXCEPT ![0] = img]}, StageInSlot0,
         scratch' \in Images \cup {Blank}, sSdCross' \in Pending \cup {Idle},
         StagedIsImage',
         UNCHANGED <<gPracticeSlotMeta, gPracticeSlotValidBits, gPracticeActiveSlot,
                     xloadVars>>
  PROVE  SlotsInv'
  <1>1. 0 \in Slots
    BY SaveAssumption DEF Slots
  <1>2. SaveTypeOK'
    BY <1>1 DEF SlotsInv, SaveTypeOK, StageInSlot0, xloadVars
  <1>3. MetaDescribesImage'
    <2> SUFFICES ASSUME NEW t \in Slots, valid'[t]
                 PROVE  /\ gPracticeSlotMeta'[t].valid /\ image'[t] # Blank
                        /\ gPracticeSlotMeta'[t].level = image'[t].level
                        /\ gPracticeSlotMeta'[t].phase = image'[t].phase
      BY DEF MetaDescribesImage
    <2>1. t # 0 /\ valid[t]
      BY <1>1 DEF StageInSlot0, SlotsInv, SaveTypeOK
    <2>2. image'[t] = image[t]
      BY <1>1, <2>1 DEF SlotsInv, SaveTypeOK
    <2> QED
      BY <2>1, <2>2 DEF SlotsInv, MetaDescribesImage
  <1> QED
    BY <1>2, <1>3 DEF SlotsInv

\* The dialogs' own state.
DialogOK ==
  /\ sdUi \in {"NONE", "OSK", "BROWSER"}
  /\ oskText \in Names \cup {NoText}
  /\ card \in [Names -> Images \cup {NoFile}]

LEMMA SaveNameTypes ==
  ASSUME EngineTypeOK, SlotsInv, DialogOK, NEW name \in Names,
         SaveNameConfirmed(name),
         UNCHANGED <<gPracticeSlotMeta, gPracticeSlotValidBits, gPracticeActiveSlot,
                     xloadVars>>
  PROVE  SlotsInv' /\ DialogOK'
  <1>1. CurrentImage \in Images
    BY CurrentIsImage
  <1>2. /\ image' = [image EXCEPT ![0] = CurrentImage]
        /\ StageInSlot0 /\ scratch' = CurrentImage /\ sSdCross' = sSdCross
        /\ card' \in {card, [card EXCEPT ![name] = CurrentImage],
                      [card EXCEPT ![name] = NoFile]}
        /\ sdUi' = "NONE" /\ oskText' = oskText
    BY DEF SaveNameConfirmed
  <1>3. SlotsInv'
    BY <1>1, <1>2, StagedTypes DEF SlotsInv, SaveTypeOK, StagedIsImage
  <1>4. card' \in [Names -> Images \cup {NoFile}]
    BY <1>1, <1>2 DEF DialogOK
  <1> QED
    BY <1>2, <1>3, <1>4 DEF DialogOK

LEMMA LoadFileTypes ==
  ASSUME LiveOK, NextOK, SlotsInv, DialogOK, NEW name \in Names,
         card[name] # NoFile, LoadFileSelected(name),
         UNCHANGED <<gPracticeSlotMeta, gPracticeSlotValidBits, gPracticeActiveSlot,
                     xloadVars>>
  PROVE  SlotsInv' /\ DialogOK' /\ LiveOK' /\ NextOK'
  <1>1. card[name] \in Images /\ Blank \in Images \cup {Blank}
    BY DEF DialogOK
  <1>2. 0 \in Slots
    BY SaveAssumption DEF Slots
  <1>3. StageInSlot0 /\ sdUi' = "NONE" /\ UNCHANGED <<oskText, card>>
    BY DEF LoadFileSelected
  <1>4. CASE /\ image' \in {image, [image EXCEPT ![0] = Blank]}
             /\ UNCHANGED <<scratch, sSdCross, liveVars, nextVars>>
    <2>1. SlotsInv'
      BY <1>1, <1>3, <1>4, StagedTypes DEF SlotsInv, SaveTypeOK, StagedIsImage
    <2> QED
      BY <1>3, <1>4, <2>1, LiveKept, NextKept DEF DialogOK
  <1>5. CASE image' = [image EXCEPT ![0] = card[name]] /\ LoadCb(card[name], 0)
    <2>1. /\ LiveOK' /\ NextOK' /\ StagedIsImage'
          /\ scratch' \in Images /\ sSdCross' \in Pending \cup {Idle}
      BY <1>1, <1>2, <1>5, LoadCbTypes DEF SlotsInv, SaveTypeOK
    <2>2. SlotsInv'
      BY <1>1, <1>3, <1>5, <2>1, StagedTypes
    <2> QED
      BY <1>3, <2>1, <2>2 DEF DialogOK
  <1> QED
    BY <1>4, <1>5 DEF LoadFileSelected

LEMMA SdTypes == SInv /\ SdUpdate => SInv'
  <1> SUFFICES ASSUME SInv, SdUpdate PROVE SInv'
    OBVIOUS
  <1>1. /\ UNCHANGED <<padVars, gGameState, gPlayState, sCurrentSceneId, gCurrentLevel,
                       gPracticeScreen, gNextGameStateTimer, gPracticeSlotMeta,
                       gPracticeSlotValidBits, gPracticeActiveSlot, xloadVars,
                       advanceVars, sInputGraceTimer, macroVars, radialVars,
                       subMenuVars>>
        /\ pc' = "poll"
    BY DEF SdUpdate
  <1>2. EngineTypeOK /\ LiveOK /\ NextOK /\ SlotsInv /\ DialogOK
    BY DEF SInv, EngineTypeOK, LiveOK, NextOK, UiInv, MenuTypeOK, DialogOK
  <1>3. CASE UNCHANGED <<image, valid, scratch, card, sSdCross, liveVars, nextVars>>
             /\ sdUi' \in {"NONE", "OSK", "BROWSER"}
             /\ oskText' \in Names \cup {NoText}
    <2>1. SlotsInv'
      BY <1>1, <1>2, <1>3, SlotsKept DEF saveVars, slotVars
    <2>2. DialogOK'
      BY <1>2, <1>3 DEF DialogOK
    <2>3. LiveOK' /\ NextOK'
      BY <1>2, <1>3, LiveKept, NextKept
    <2>4. gPracticeMenuState' \in {gPracticeMenuState, "CLOSED"}
      BY DEF SdUpdate, OskUpdate, FileBrowserUpdate, SaveNameConfirmed,
             LoadFileSelected
    <2> QED
      BY <1>1, <2>1, <2>2, <2>3, <2>4, AdvanceKept, SnapKept
      DEF SInv, EngineTypeOK, LiveOK, NextOK, DialogOK, UiInv, MenuTypeOK, HoldInMenu,
          padVars, radialVars, subMenuVars
  <1>4. CASE oskText # NoText /\ SaveNameConfirmed(oskText)
    <2>1. SlotsInv' /\ DialogOK'
      BY <1>1, <1>2, <1>4, SaveNameTypes DEF DialogOK
    <2>2. LiveOK' /\ NextOK' /\ gPracticeMenuState' = "CLOSED"
      BY <1>2, <1>4, LiveKept, NextKept DEF SaveNameConfirmed
    <2> QED
      BY <1>1, <2>1, <2>2, AdvanceKept, SnapKept
      DEF SInv, EngineTypeOK, LiveOK, NextOK, DialogOK, UiInv, MenuTypeOK, HoldInMenu,
          padVars, radialVars, subMenuVars
  <1>5. CASE \E name \in Names : card[name] # NoFile /\ LoadFileSelected(name)
    <2>1. SlotsInv' /\ DialogOK' /\ LiveOK' /\ NextOK'
      BY <1>1, <1>2, <1>5, LoadFileTypes
    <2>2. gPracticeMenuState' = "CLOSED"
      BY <1>5 DEF LoadFileSelected
    <2> QED
      BY <1>1, <2>1, <2>2, AdvanceKept, SnapKept
      DEF SInv, EngineTypeOK, LiveOK, NextOK, DialogOK, UiInv, MenuTypeOK, HoldInMenu,
          padVars, radialVars, subMenuVars
  <1>6. CASE OskUpdate
    <2>1. CASE /\ oskText' \in IF Pressed("B") /\ oskText = NoText THEN {NoText}
                               ELSE Names \cup {NoText}
               /\ UNCHANGED <<sdUi, image, valid, scratch, card, sSdCross, liveVars,
                              nextVars>>
      BY <1>2, <1>3, <2>1 DEF DialogOK
    <2>2. CASE /\ sdUi' = "NONE"
               /\ UNCHANGED <<oskText, image, valid, scratch, card, sSdCross, liveVars,
                              nextVars>>
      BY <1>2, <1>3, <2>2 DEF DialogOK
    <2>3. CASE UNCHANGED <<sdVars, image, valid, scratch, card, sSdCross, liveVars,
                           nextVars>>
      BY <1>2, <1>3, <2>3 DEF DialogOK, sdVars
    <2> QED
      BY <1>4, <1>6, <2>1, <2>2, <2>3 DEF OskUpdate
  <1>7. CASE FileBrowserUpdate
    <2>1. CASE /\ sdUi' \in {"NONE", "BROWSER"}
               /\ UNCHANGED <<oskText, image, valid, scratch, card, sSdCross, liveVars,
                              nextVars>>
      BY <1>2, <1>3, <2>1 DEF DialogOK
    <2> QED
      BY <1>5, <1>7, <2>1 DEF FileBrowserUpdate
  <1> QED
    BY <1>6, <1>7 DEF SdUpdate

-----------------------------------------------------------------------------
(* The menus and the hotkeys.                                              *)

\* One entry of the macro menu is one of the macro's operations.
LEMMA MacroOptionTypes ==
  ASSUME Inv, SnapInv, NextOK, sConfirmOverwrite \in BOOLEAN,
         sActiveSubMenu \in {"NONE", "MACRO", "OTHER"},
         NEW option \in OptionKinds, MacroOption(option)
  PROVE  /\ SnapInv' /\ NextOK' /\ sConfirmOverwrite' \in BOOLEAN
         /\ sActiveSubMenu' \in {"NONE", "MACRO", "OTHER"}
  <1>1. /\ \/ StopRecord \/ StartRecord \/ StopPlay \/ StartPlay \/ Rewind
           \/ Trim \/ ToggleLoop \/ ToggleBind \/ UNCHANGED <<macroVars, nextVars>>
        /\ sConfirmOverwrite' = TRUE \/ UNCHANGED sConfirmOverwrite
        /\ sActiveSubMenu' = "NONE" \/ UNCHANGED sActiveSubMenu
    <2>1. CASE option = "RECORD"
      <3>1. \/ IsArmed \/ IsRecording
            \/ ~(IsArmed \/ IsRecording) /\ sMacroHead < sMacroLen
            \/ ~(IsArmed \/ IsRecording) /\ sMacroHead >= sMacroLen
        BY DEF Inv, MacroInv, MacroBounds, sMacroLen
      <3> QED
        BY <2>1, <3>1 DEF MacroOption, subMenuVars
    <2>2. CASE option # "RECORD"
      BY <2>2 DEF MacroOption, OptionKinds, subMenuVars
    <2> QED
      BY <2>1, <2>2
  <1>2. SnapInv' /\ NextOK'
    BY <1>1, OperationTypes
  <1> QED
    BY <1>1, <1>2

\* What the menus write, besides the macro's state.
MenusOK ==
  /\ gGameState \in GameStates /\ NextOK
  /\ gPracticeScreen \in {"LEVEL_SELECT", "GAMEPLAY"}
  /\ gPracticeMenuState \in {"CLOSED", "OPEN_FROZEN"}
  /\ sInputGraceTimer \in 0..GraceFrames /\ gPracticeActiveSlot \in Slots

LEMMA StateMenuTypes ==
  ASSUME Inv, MenusOK, SnapInv, UiInv, StateMenuUpdate, UNCHANGED card
  PROVE  MenusOK' /\ SnapInv' /\ UiInv'
  <1>1. UNCHANGED <<gGameState, uiVars, sInputGraceTimer, gPracticeActiveSlot,
                    radialVars, sdVars>>
    BY DEF StateMenuUpdate
  <1>2. /\ NextOK /\ sConfirmOverwrite \in BOOLEAN
        /\ sActiveSubMenu \in {"NONE", "MACRO", "OTHER"}
    BY DEF MenusOK, UiInv, MenuTypeOK
  <1>3. /\ SnapInv' /\ NextOK' /\ sConfirmOverwrite' \in BOOLEAN
        /\ sActiveSubMenu' \in {"NONE", "MACRO", "OTHER"}
    <2>1. CASE /\ UNCHANGED <<macroVars, nextVars>>
               /\ sConfirmOverwrite' = FALSE \/ UNCHANGED sConfirmOverwrite
               /\ sActiveSubMenu' = "NONE" \/ UNCHANGED sActiveSubMenu
      BY <1>2, <2>1, SnapKept, NextKept
    <2>2. CASE /\ StartRecord /\ sConfirmOverwrite' = FALSE
               /\ UNCHANGED sActiveSubMenu
      BY <1>2, <2>2, OperationTypes
    <2>3. CASE \E option \in MacroOptions : MacroOption(option)
      BY <1>2, <2>3, MacroOptionTypes, MenuAssumption
    <2> QED
      BY <2>1, <2>2, <2>3 DEF StateMenuUpdate, subMenuVars
  <1>4. MenusOK'
    BY <1>1, <1>3 DEF MenusOK, uiVars
  <1>5. UiInv'
    BY <1>1, <1>3 DEF UiInv, MenuTypeOK, HoldInMenu, uiVars, radialVars, sdVars
  <1> QED
    BY <1>3, <1>4, <1>5

LEMMA LaunchTypes ==
  ASSUME NEW level \in Levels, NEW phase \in Phases, LaunchLevel(level, phase)
  PROVE  NextOK' /\ gPracticeScreen' = "GAMEPLAY"
  BY DEF LaunchLevel, NextOK, GameStates

LEMMA LevelSelectTypes ==
  ASSUME MenusOK, SnapInv, UiInv, LevelSelectUpdate, UNCHANGED card
  PROVE  MenusOK' /\ SnapInv' /\ UiInv'
  <1>1. UNCHANGED <<gGameState, gPracticeMenuState, sInputGraceTimer,
                    gPracticeActiveSlot, macroVars, radialVars, sConfirmOverwrite,
                    sdVars>>
    BY DEF LevelSelectUpdate
  <1>2. NextOK' /\ gPracticeScreen' \in {"LEVEL_SELECT", "GAMEPLAY"}
    BY LaunchTypes, NextKept DEF LevelSelectUpdate, MenusOK
  <1>3. sActiveSubMenu' \in {"NONE", "MACRO", "OTHER"}
    BY DEF LevelSelectUpdate, UiInv, MenuTypeOK
  <1>4. MenusOK'
    BY <1>1, <1>2 DEF MenusOK
  <1>5. UiInv'
    BY <1>1, <1>3 DEF UiInv, MenuTypeOK, HoldInMenu, radialVars, sdVars
  <1> QED
    BY <1>1, <1>4, <1>5, SnapKept

\* Practice_CycleSlot stays among the slots.
LEMMA CycleTypes ==
  ASSUME gPracticeActiveSlot \in Slots, CycleSlot(1) \/ CycleSlot(-1)
  PROVE  gPracticeActiveSlot' \in Slots
  <1>1. gPracticeActiveSlot \in 0..(NumSlots - 1) /\ NumSlots \in Nat \ {0}
    BY SaveAssumption DEF Slots
  <1>2. CASE CycleSlot(1)
    <2>1. gPracticeActiveSlot' = (gPracticeActiveSlot + 1) % NumSlots
      BY <1>2 DEF CycleSlot
    <2>2. (gPracticeActiveSlot + 1) % NumSlots \in 0..(NumSlots - 1)
      BY <1>1
    <2> QED
      BY <2>1, <2>2 DEF Slots
  <1>3. CASE CycleSlot(-1)
    <2>1. gPracticeActiveSlot' = IF gPracticeActiveSlot = 0 THEN NumSlots - 1
                                 ELSE gPracticeActiveSlot - 1
      BY <1>3 DEF CycleSlot
    <2> QED
      BY <1>1, <2>1 DEF Slots
  <1> QED
    BY <1>2, <1>3

\* In the open menu the hold timer reaches its end only when the menu closes.
LEMMA MenuTypes ==
  ASSUME EngineTypeOK, MenusOK, SnapInv, UiInv, MenuUpdate, UNCHANGED card
  PROVE  MenusOK' /\ SnapInv' /\ UiInv'
  <1>1. SnapInv' /\ gPracticeMenuState # "CLOSED"
    BY SnapKept DEF MenuUpdate
  <1>2. /\ sStartHoldTimer \in 0..StartHoldFrames /\ sStartHoldTimer < StartHoldFrames
        /\ StartHoldFrames \in Nat \ {0}
    BY <1>1, MenuAssumption DEF UiInv, MenuTypeOK, HoldInMenu
  <1>3. NextOK
    BY DEF MenusOK
  <1>4. CASE MenuShoulder
    <2>1. UNCHANGED <<gGameState, uiVars, nextVars, sInputGraceTimer, radialVars,
                      subMenuVars, sdVars>>
      BY <1>4 DEF MenuShoulder
    <2>2. gPracticeActiveSlot' \in Slots
      BY <1>4, CycleTypes DEF MenuShoulder, MenusOK
    <2>3. MenusOK'
      BY <1>3, <2>1, <2>2, NextKept DEF MenusOK, uiVars
    <2> QED
      BY <1>1, <2>1, <2>3
      DEF UiInv, MenuTypeOK, HoldInMenu, uiVars, radialVars, subMenuVars, sdVars
  <1>5. CASE MenuLeave
    <2>1. /\ UNCHANGED <<gPracticeScreen, nextVars, sInputGraceTimer, sMenuDepth,
                         sRadialSub1, gPracticeActiveSlot, subMenuVars, sdVars>>
          /\ gPracticeMenuState' = "CLOSED" /\ gGameState' = "MENU"
          /\ sStartHoldTimer' = sStartHoldTimer + 1
      BY <1>5 DEF MenuLeave, StartHeld
    <2>2. MenusOK'
      BY <1>3, <2>1, NextKept DEF MenusOK, GameStates
    <2>3. sStartHoldTimer' \in 0..StartHoldFrames
      BY <1>2, <2>1
    <2> QED
      BY <1>1, <2>1, <2>2, <2>3 DEF UiInv, MenuTypeOK, HoldInMenu, subMenuVars, sdVars
  <1>6. CASE MenuButtons
    <2>1. sStartHoldTimer' \in 0..StartHoldFrames /\ sStartHoldTimer' < StartHoldFrames
      BY <1>2, <1>6 DEF MenuButtons, Leaving, StartHeld
    <2>2. UNCHANGED gPracticeActiveSlot
      BY <1>6 DEF MenuButtons
    <2> DEFINE Kept == /\ NextOK' /\ gGameState' \in GameStates
                       /\ gPracticeScreen' \in {"LEVEL_SELECT", "GAMEPLAY"}
                       /\ gPracticeMenuState' \in {"CLOSED", "OPEN_FROZEN"}
                       /\ sInputGraceTimer' \in 0..GraceFrames
                       /\ sMenuDepth' \in 0..1
                       /\ sRadialSub1' \in {"DISPLAY", "CHEATS", "SD"}
                       /\ sActiveSubMenu' \in {"NONE", "MACRO", "OTHER"}
                       /\ sConfirmOverwrite' \in BOOLEAN
                       /\ sdUi' \in {"NONE", "OSK", "BROWSER"}
                       /\ oskText' \in Names \cup {NoText}
    <2>3. ASSUME UNCHANGED <<gGameState, uiVars, nextVars, sInputGraceTimer, sMenuDepth,
                             sRadialSub1, subMenuVars, sdVars>>
          PROVE  Kept
      BY <1>3, <2>3, NextKept
      DEF MenusOK, UiInv, MenuTypeOK, uiVars, subMenuVars, sdVars
    <2>4. ASSUME MenuBack PROVE Kept
      BY <1>3, <2>4, NextKept DEF MenuBack, MenusOK, UiInv, MenuTypeOK, subMenuVars,
                                   sdVars
    <2>5. ASSUME NEW slice \in Slices, MenuSelect(slice) PROVE Kept
      <3>1. CASE /\ gPracticeMenuState' = "CLOSED"
                 /\ sInputGraceTimer' = GraceFrames
                 /\ LaunchLevel(gCurrentLevel, gLevelPhase)
                 /\ UNCHANGED <<gGameState, sMenuDepth, sRadialSub1, subMenuVars,
                                sdVars>>
        BY <3>1, LaunchTypes, FrameAdvanceAssumption
        DEF EngineTypeOK, MenusOK, UiInv, MenuTypeOK, subMenuVars, sdVars
      <3>2. CASE /\ gPracticeMenuState' = "CLOSED"
                 /\ gPracticeScreen' = "LEVEL_SELECT"
                 /\ gGameState' = "MAP"
                 /\ UNCHANGED <<nextVars, sInputGraceTimer, sMenuDepth, sRadialSub1,
                                subMenuVars, sdVars>>
        BY <1>3, <3>2, NextKept
        DEF GameStates, MenusOK, UiInv, MenuTypeOK, subMenuVars, sdVars
      <3>3. CASE /\ slice \in {"DISPLAY", "CHEATS", "SD"}
                 /\ sMenuDepth' = 1 /\ sRadialSub1' = slice
                 /\ UNCHANGED <<gGameState, uiVars, nextVars, sInputGraceTimer,
                                subMenuVars, sdVars>>
        BY <1>3, <3>3, NextKept
        DEF MenusOK, UiInv, MenuTypeOK, uiVars, subMenuVars, sdVars
      <3>4. CASE /\ sActiveSubMenu' = IF slice = "MACRO" THEN "MACRO" ELSE "OTHER"
                 /\ UNCHANGED <<gGameState, uiVars, nextVars, sInputGraceTimer,
                                sMenuDepth, sRadialSub1, sConfirmOverwrite, sdVars>>
        BY <1>3, <3>4, NextKept DEF MenusOK, UiInv, MenuTypeOK, uiVars, sdVars
      <3>5. CASE /\ sdUi' = IF slice = "SD_SAVE" THEN "OSK" ELSE "BROWSER"
                 /\ oskText' = IF slice = "SD_SAVE" THEN NoText ELSE oskText
                 /\ UNCHANGED <<gGameState, uiVars, nextVars, sInputGraceTimer,
                                sMenuDepth, sRadialSub1, subMenuVars>>
        BY <1>3, <3>5, NextKept DEF MenusOK, UiInv, MenuTypeOK, uiVars, subMenuVars
      <3> HIDE DEF Kept
      <3> QED
        BY <2>5, <3>1, <3>2, <3>3, <3>4, <3>5 DEF MenuSelect
    <2>6. Kept
      <3> HIDE DEF Kept
      <3> QED
        BY <1>6, <2>3, <2>4, <2>5 DEF MenuButtons
    <2>7. MenusOK'
      BY <2>2, <2>6 DEF MenusOK
    <2> QED
      BY <1>1, <2>1, <2>6, <2>7 DEF UiInv, MenuTypeOK, HoldInMenu
  <1> QED
    BY <1>4, <1>5, <1>6 DEF MenuUpdate

\* The gameplay hotkeys: opening the menu starts its hold timer afresh.
LEMMA HotkeyTypes ==
  ASSUME EngineTypeOK, SlotsInv, UiInv, Hotkeys, UNCHANGED card
  PROVE  /\ SlotsInv' /\ LiveOK' /\ NextOK' /\ UiInv'
         /\ gPracticeMenuState' \in {"CLOSED", "OPEN_FROZEN"}
  <1>1. LiveOK /\ NextOK /\ gPracticeActiveSlot \in Slots
    BY DEF EngineTypeOK, LiveOK, NextOK, SlotsInv, SaveTypeOK
  <1>2. UNCHANGED <<subMenuVars, sdVars>>
    BY DEF Hotkeys
  <1>3. UiInv' /\ gPracticeMenuState' \in {"CLOSED", "OPEN_FROZEN"}
    <2>1. CASE MenuOpenFrozen
      BY <1>2, <2>1, MenuAssumption
      DEF MenuOpenFrozen, UiInv, MenuTypeOK, HoldInMenu, subMenuVars, sdVars
    <2>2. CASE UNCHANGED <<gPracticeMenuState, radialVars>>
      BY <1>2, <2>2
      DEF UiInv, MenuTypeOK, HoldInMenu, EngineTypeOK, radialVars, subMenuVars, sdVars
    <2> QED
      BY <2>1, <2>2 DEF Hotkeys
  <1>4. SlotsInv' /\ LiveOK' /\ NextOK'
    <2>1. CASE UNCHANGED <<saveVars, liveVars, nextVars>>
      BY <1>1, <2>1, SlotsKept, LiveKept, NextKept
    <2>2. CASE SaveStateSlot(gPracticeActiveSlot)
      BY <1>1, <2>2, SaveSlotTypes, LiveKept, NextKept
    <2>3. CASE LoadStateSlot(gPracticeActiveSlot)
      BY <1>1, <2>3, LoadSlotTypes
    <2> QED
      BY <2>1, <2>2, <2>3 DEF Hotkeys
  <1> QED
    BY <1>3, <1>4

LEMMA ScreenTypes == Inv /\ SInv /\ ScreenUpdate => SInv'
  <1> SUFFICES ASSUME Inv, SInv, ScreenUpdate PROVE SInv'
    OBVIOUS
  <1>1. /\ UNCHANGED <<padVars, gPlayState, sCurrentSceneId, gCurrentLevel,
                       gNextGameStateTimer, advanceVars, card>>
        /\ pc' = "poll"
    BY DEF ScreenUpdate
  <1>2. EngineTypeOK /\ LiveOK /\ MenusOK /\ SlotsInv /\ SnapInv /\ UiInv
    BY DEF SInv, EngineTypeOK, LiveOK, NextOK, MenusOK, SlotsInv, SaveTypeOK,
           AdvanceTypeOK
  <1>3. CASE /\ StateMenuUpdate \/ LevelSelectUpdate \/ MenuUpdate
             /\ UNCHANGED <<slotVars, xloadVars, scratch, sSdCross, liveVars>>
    <2>1. MenusOK' /\ SnapInv' /\ UiInv'
      BY <1>1, <1>2, <1>3, StateMenuTypes, LevelSelectTypes, MenuTypes
    <2>2. SlotsInv'
      BY <1>2, <1>3, <2>1
      DEF SlotsInv, SaveTypeOK, MetaDescribesImage, StagedIsImage, MenusOK, slotVars,
          xloadVars
    <2>3. LiveOK'
      BY <1>2, <1>3, LiveKept
    <2>4. AdvanceTypeOK'
      BY <1>1, <2>1 DEF SInv, AdvanceTypeOK, MenusOK, advanceVars, stepVars
    <2>5. EngineTypeOK'
      BY <1>1, <1>2, <2>1, <2>3 DEF EngineTypeOK, LiveOK, NextOK, MenusOK, padVars
    <2> QED
      BY <2>1, <2>2, <2>4, <2>5 DEF SInv
  <1>4. CASE Hotkeys
    <2>1. UNCHANGED <<gGameState, gPracticeScreen, sInputGraceTimer, macroVars>>
      BY <1>4 DEF Hotkeys
    <2>2. /\ SlotsInv' /\ LiveOK' /\ NextOK' /\ UiInv'
          /\ gPracticeMenuState' \in {"CLOSED", "OPEN_FROZEN"}
      BY <1>1, <1>2, <1>4, HotkeyTypes
    <2>3. SnapInv' /\ AdvanceTypeOK'
      BY <1>1, <2>1, SnapKept, AdvanceKept DEF SInv
    <2>4. EngineTypeOK'
      BY <1>1, <1>2, <2>1, <2>2 DEF EngineTypeOK, LiveOK, NextOK, padVars
    <2> QED
      BY <2>2, <2>3, <2>4 DEF SInv
  <1> QED
    BY <1>3, <1>4 DEF ScreenUpdate

-----------------------------------------------------------------------------
LEMMA InitTypes == Init => SInv
  <1> SUFFICES ASSUME Init PROVE SInv
    OBVIOUS
  <1>1. EngineTypeOK
    BY EngineAssumption
    DEF Init, EngineInit, EngineTypeOK, GameStates, PlayStates, PlayerStates
  <1>2. SlotsInv
    <2>1. 0 \in Slots /\ 0 \in 0..MaxFrame
      BY SaveAssumption, EngineAssumption DEF Slots
    <2>2. ~sSdCross.pending
      BY DEF Init, SaveInit, Idle
    <2> QED
      BY <2>1, <2>2
      DEF Init, SaveInit, SlotsInv, SaveTypeOK, MetaDescribesImage, StagedIsImage
  <1>3. AdvanceTypeOK
    <2>1. /\ 0 \in 0..1 /\ 0 \in 0..(RepeatDelay + 1) /\ 0 \in 0..RepeatRate
          /\ 0 \in 0..GraceFrames /\ FALSE \in BOOLEAN
          /\ [s \in Slots |-> FALSE] \in [Slots -> BOOLEAN]
      BY FrameAdvanceAssumption
    <2>2. AdvanceInit
      BY DEF Init
    <2> QED
      BY <2>1, <2>2, Zenon DEF AdvanceInit, AdvanceTypeOK
  <1>4. SnapInv
    BY DEF Init, MacroInit, SnapInv, BoundIsImage
  <1>5. UiInv
    <2>1. 0 \in 0..StartHoldFrames /\ 0 \in 0..1 /\ FALSE \in BOOLEAN
      BY MenuAssumption
    <2>2. card \in [Names -> Images \cup {NoFile}]
      BY MenuAssumption DEF Init, MenuInit
    <2>3. gPracticeMenuState = "CLOSED"
      BY DEF Init, EngineInit
    <2>4. /\ sMenuDepth = 0 /\ sRadialSub1 = "DISPLAY" /\ sStartHoldTimer = 0
          /\ sActiveSubMenu = "NONE" /\ sConfirmOverwrite = FALSE
          /\ sdUi = "NONE" /\ oskText = NoText
      BY DEF Init, MenuInit
    <2> QED
      BY <2>1, <2>2, <2>3, <2>4 DEF UiInv, MenuTypeOK, HoldInMenu
  <1> QED
    BY <1>1, <1>2, <1>3, <1>4, <1>5 DEF SInv

LEMMA StutterTypes == SInv /\ UNCHANGED vars => SInv'
  <1> SUFFICES ASSUME SInv, UNCHANGED vars PROVE SInv'
    OBVIOUS
  <1>1. UNCHANGED <<practiceVars, engineVars>>
    BY DEF vars, practiceVars
  <1>2. EngineTypeOK' /\ UNCHANGED gPracticeMenuState
    BY <1>1 DEF SInv, EngineTypeOK, engineVars, padVars, liveVars, nextVars, uiVars
  <1> QED
    BY <1>1, <1>2, PracticeKept

LEMMA StepTypes == Inv /\ SInv /\ [Next]_vars => SInv'
  BY PollTypes, GateTypes, PrePlayTypes, MainTypes, DrawTypes, AdvanceTypes,
     MacroTypes, SdTypes, TickTypes, SdTickTypes, ScreenTypes, StutterTypes
  DEF Next, SaveOrDialog

\* The invariant of these proofs holds in every reachable state.
THEOREM SInvHolds == Spec => []SInv
  BY InitTypes, StepTypes, InvHolds, PTL DEF Spec

\* Every variable keeps the type of the code's variable, for any number of slots
\* and levels, and any delays and time-outs: the active slot stays a slot, the
\* timers stay within their bounds, and what a load applies is a snapshot.
THEOREM TypeOKHolds == Spec => []TypeOK
  <1>1. Inv /\ SInv => TypeOK
    BY DEF Inv, MacroInv, SInv, SlotsInv, SnapInv, UiInv, TypeOK, MacroTypeOK
  <1> QED
    BY <1>1, InvHolds, SInvHolds, PTL

\* Whatever is saved, staged or loaded, a slot that can be loaded holds the level
\* and the phase its meta record names (Practice_SaveStateSlot, Practice_Sd_Update).
THEOREM MetaHolds == Spec => []MetaDescribesImage
  <1>1. SInv => MetaDescribesImage
    BY DEF SInv, SlotsInv
  <1> QED
    BY <1>1, SInvHolds, PTL

-----------------------------------------------------------------------------
(* Loads fit the scene they go into.                                       *)

\* Practice_Load_Cb writes to the live game only where it may.
LEMMA LoadCbFits ==
  ASSUME NEW img, NEW src, LoadCb(img, src), liveVars' # liveVars
  PROVE  LoadFits
  <1>1. /\ scratch' = img /\ SceneLive(img.level) /\ AddressesMatch(img)
        /\ SnapshotApplyToGame(img)
    BY DEF LoadCb, ApplyUnlessStale
  <1>2. game'.world = img.world
    BY <1>1 DEF SnapshotApplyToGame
  <1> QED
    BY <1>1, <1>2 DEF LoadFits, SceneLive, AddressesMatch, SnapshotApplyToGame

LEMMA LoadSlotFits ==
  ASSUME NEW s, LoadStateSlot(s), liveVars' # liveVars PROVE LoadFits
  BY LoadCbFits DEF LoadStateSlot

LEMMA StepFits ==
  Next /\ liveVars' # liveVars /\ pc \in {"advance", "tick", "screen"} => LoadFits
  <1> SUFFICES ASSUME Next, liveVars' # liveVars, pc \in {"advance", "tick", "screen"}
               PROVE  LoadFits
    OBVIOUS
  <1>1. CASE AdvanceStep
    BY <1>1, LoadSlotFits DEF AdvanceStep, FrameAdvanceUpdate, SaveStateSlot
  <1>2. CASE TickStep
    BY <1>2, LoadCbFits DEF TickStep, XloadStep, XloadTick
  <1>3. CASE SdUpdate
    BY <1>3, LoadCbFits
    DEF SdUpdate, OskUpdate, FileBrowserUpdate, SaveNameConfirmed, LoadFileSelected
  <1>4. CASE ScreenUpdate
    BY <1>4, LoadSlotFits DEF ScreenUpdate, Hotkeys, SaveStateSlot
  <1> QED
    BY <1>1, <1>2, <1>3, <1>4
    DEF Next, SaveOrDialog, PollStep, Poll, GateStep, Gate, PrePlayStep, MacroPrePlay,
       MainStep,
        PlayMain, OtherScreen, DrawStep, GameDraw, MacroStep, MacroUpdate,
        SdTickStep, SdCrossStep

\* A slot or file is put into the running game only in its own level, with that
\* level's overlay in memory and at this launch's addresses, and whole.
THEOREM SnapshotFitsHolds == Spec => SnapshotFitsScene
  <1>1. [Next]_vars =>
          [liveVars' # liveVars /\ pc \in {"advance", "tick", "screen"} => LoadFits]_vars
    BY StepFits
  <1> QED
    BY <1>1, PTL DEF Spec, SnapshotFitsScene

-----------------------------------------------------------------------------
(* The deferred load.                                                      *)

\* What waits in scratch is what was asked for, and so is the image its overlay
\* bytes are copied from.
Described ==
  sSdCross.pending =>
    /\ scratch.level = sSdCross.level /\ scratch.fresh = sSdCross.fresh
    /\ image[sSdCross.overlaySlot] = scratch

\* While a load waits, no save and no other load uses what it waits with.
Undisturbed ==
  sSdCross.pending /\ sSdCross' = sSdCross =>
    UNCHANGED <<scratch, image[sSdCross.overlaySlot]>>

LEMMA LoadCbDescribes ==
  ASSUME NEW img, NEW src, LoadCb(img, src), image'[src] = img
  PROVE  UNCHANGED sSdCross \/ Described'
  <1>1. CASE SceneLive(img.level)
    BY <1>1 DEF LoadCb
  <1>2. CASE ~SceneLive(img.level)
    <2>1. /\ scratch' = img
          /\ sSdCross' = [pending |-> TRUE, level |-> img.level, phase |-> img.phase,
                          start |-> gGameFrameCount, overlaySlot |-> src,
                          fresh |-> img.fresh]
      BY <1>2 DEF LoadCb
    <2>2. /\ sSdCross'.level = img.level /\ sSdCross'.fresh = img.fresh
          /\ sSdCross'.overlaySlot = src
      BY <2>1
    <2> QED
      BY <2>1, <2>2 DEF Described
  <1> QED
    BY <1>1, <1>2

LEMMA LoadSlotDescribes ==
  ASSUME NEW s, LoadStateSlot(s)
  PROVE  UNCHANGED sSdCross \/ Described'
  <1>1. image' = image
    BY DEF LoadStateSlot, slotVars
  <1>2. CASE LoadCb(image[s], s)
    BY <1>1, <1>2, LoadCbDescribes
  <1>3. CASE UNCHANGED sSdCross
    BY <1>3
  <1> QED
    BY <1>2, <1>3 DEF LoadStateSlot

LEMMA LoadFileDescribes ==
  ASSUME SlotsInv, NEW name, LoadFileSelected(name)
  PROVE  UNCHANGED sSdCross \/ Described'
  <1>1. CASE image' = [image EXCEPT ![0] = card[name]] /\ LoadCb(card[name], 0)
    <2>1. 0 \in Slots /\ image \in [Slots -> Images \cup {Blank}]
      BY SaveAssumption DEF Slots, SlotsInv, SaveTypeOK
    <2>2. image'[0] = card[name]
      BY <1>1, <2>1
    <2> QED
      BY <1>1, <2>2, LoadCbDescribes
  <1>2. CASE UNCHANGED sSdCross
    BY <1>2
  <1> QED
    BY <1>1, <1>2 DEF LoadFileSelected

\* A load that begins to wait is described as it stands.
LEMMA StepDescribes ==
  ASSUME SInv, Next
  PROVE  UNCHANGED sSdCross \/ ~sSdCross'.pending \/ Described'
  <1>1. CASE AdvanceStep
    BY <1>1, LoadSlotDescribes
    DEF AdvanceStep, FrameAdvanceUpdate, SaveStateSlot, saveVars
  <1>2. CASE TickStep
    <2>1. image' = image
      BY <1>2 DEF TickStep, XloadStep, slotVars
    <2> QED
      BY <1>2, <2>1, LoadCbDescribes DEF TickStep, XloadStep, XloadTick
  <1>3. CASE SdTickStep
    BY <1>3 DEF SdTickStep, SdCrossStep, SdCrossTick, Idle
  <1>4. CASE SdUpdate
    BY <1>4, LoadFileDescribes
    DEF SInv, SdUpdate, OskUpdate, FileBrowserUpdate, SaveNameConfirmed
  <1>5. CASE ScreenUpdate
    BY <1>5, LoadSlotDescribes DEF ScreenUpdate, Hotkeys, SaveStateSlot, saveVars
  <1> QED
    BY <1>1, <1>2, <1>3, <1>4, <1>5
    DEF Next, SaveOrDialog, PollStep, Poll, GateStep, Gate, PrePlayStep, MacroPrePlay,
       MainStep,
        PlayMain, OtherScreen, DrawStep, GameDraw, MacroStep, MacroUpdate,
        practiceVars, saveVars

LEMMA InitDescribed == Init => Described
  BY DEF Init, SaveInit, Idle, Described

LEMMA StepDescribed ==
  ASSUME SInv, Described, Undisturbed, [Next]_vars PROVE Described'
  <1>1. CASE sSdCross' = sSdCross
    <2>1. CASE ~sSdCross.pending
      BY <1>1, <2>1 DEF Described
    <2>2. CASE sSdCross.pending
      <3>1. /\ scratch' = scratch
            /\ image'[sSdCross.overlaySlot] = image[sSdCross.overlaySlot]
        BY <1>1, <2>2 DEF Undisturbed
      <3> QED
        BY <1>1, <2>2, <3>1 DEF Described
    <2> QED
      BY <2>1, <2>2
  <1>2. CASE ~sSdCross'.pending
    BY <1>2 DEF Described
  <1>3. CASE sSdCross' # sSdCross /\ sSdCross'.pending
    <2>1. Next
      BY <1>3 DEF vars, saveVars
    <2> QED
      BY <1>3, <2>1, StepDescribes
  <1> QED
    BY <1>1, <1>2, <1>3

\* What is applied is in its own level, and is what was described.
LEMMA SdCrossFits ==
  Described /\ Next /\ liveVars' # liveVars /\ pc = "sdtick" =>
    LoadFits /\ image[sSdCross.overlaySlot] = scratch
  <1> SUFFICES ASSUME Described, Next, liveVars' # liveVars, pc = "sdtick"
               PROVE  LoadFits /\ image[sSdCross.overlaySlot] = scratch
    OBVIOUS
  <1>1. SdCrossStep
    BY DEF Next, SaveOrDialog, PollStep, Poll, GateStep, Gate, PrePlayStep, MacroPrePlay,
       MainStep,
           PlayMain, OtherScreen, DrawStep, GameDraw, AdvanceStep, FrameAdvanceUpdate,
           MacroStep, MacroUpdate, SdUpdate, TickStep, XloadStep, SdTickStep,
           ScreenUpdate
  <1>2. /\ SdReady /\ AddressesMatch(sSdCross) /\ SnapshotApplyToGame(scratch)
        /\ scratch' = scratch
    BY <1>1 DEF SdCrossStep, SdCrossTick
  <1>3. /\ scratch.level = sSdCross.level /\ scratch.fresh = sSdCross.fresh
        /\ image[sSdCross.overlaySlot] = scratch
    BY <1>2 DEF Described, SdReady
  <1>4. game'.world = scratch.world
    BY <1>2 DEF SnapshotApplyToGame
  <1> QED
    BY <1>2, <1>3, <1>4
    DEF LoadFits, SdReady, SceneLive, AddressesMatch, SnapshotApplyToGame

\* A load that waited in scratch for its level is written to the live game only
\* there, whole, and with the overlay bytes it was saved with (sd_cross_apply_now),
\* as long as nothing is saved and nothing else is loaded while it waits: scratch
\* and the pool slot are shared with every save and load, and SdLeave shows a run
\* where a save in another level takes them.
THEOREM DeferredLoadHolds == Spec /\ [][Undisturbed]_vars => DeferredLoadFits
  <1>1. SInv /\ Described /\ [Next]_vars /\ [Undisturbed]_vars => Described'
    <2> SUFFICES ASSUME SInv, Described, [Next]_vars, [Undisturbed]_vars
                 PROVE  Described'
      OBVIOUS
    <2>1. CASE Undisturbed
      BY <2>1, StepDescribed
    <2>2. CASE UNCHANGED vars
      BY <2>2 DEF vars, saveVars, slotVars, Described
    <2> QED
      BY <2>1, <2>2
  <1>2. Described /\ [Next]_vars =>
          [liveVars' # liveVars /\ pc = "sdtick" =>
             LoadFits /\ image[sSdCross.overlaySlot] = scratch]_vars
    BY SdCrossFits
  <1> QED
    BY <1>1, <1>2, InitDescribed, SInvHolds, PTL DEF Spec, DeferredLoadFits
=============================================================================

------------------------------ MODULE SaveState ------------------------------
(***************************************************************************)
(* Save states: the RAM slots of slot_manager.c, and practice_save.c's     *)
(* save and load callbacks, cross-scene loads and per-frame tick.          *)
(*                                                                         *)
(* An image is what the serializer writes for a slot or a file: level and  *)
(* phase tags and the snapshot.  fresh says whether the segment addresses  *)
(* it carries are those of this launch (a file may come from another).     *)
(***************************************************************************)
EXTENDS Engine

CONSTANTS
  NumSlots,     \* gPracticeRamSlotCount (4 with an Expansion Pak)
  XloadTimeout  \* PRACTICE_XLOAD_TIMEOUT_FRAMES (360)

ASSUME SaveAssumption == NumSlots \in Nat \ {0} /\ XloadTimeout \in Nat

Slots == 0..(NumSlots - 1)

VARIABLES
  image, valid,           \* slot_manager: the pool, slot_valid[]
  gPracticeActiveSlot, gPracticeSlotMeta, gPracticeSlotValidBits,
  gPracticeCrossLoadState, gPracticeCrossLoadSlot, gPracticeCrossLoadStartFrame,
  scratch,                \* the one PracticeSnapshot both callbacks work in
  sSdCross                \* the sSdCross... statics of the deferred load

slotVars == <<image, valid, gPracticeSlotMeta, gPracticeSlotValidBits>>
xloadVars == <<gPracticeCrossLoadState, gPracticeCrossLoadSlot,
               gPracticeCrossLoadStartFrame>>
saveVars == <<slotVars, gPracticeActiveSlot, xloadVars, scratch, sSdCross>>

Images == [level : Levels, phase : Phases, frame : 0..MaxFrame,
           world : Worlds, fresh : BOOLEAN]
\* A pool slot or scratch that bzero has just cleared.
Blank == [blank |-> TRUE]
NoMeta == [valid |-> FALSE]
Metas == [valid : {TRUE}, level : Levels, phase : Phases]
Idle == [pending |-> FALSE]
\* overlaySlot: the pool slot sSdCrossOvSrc points into.
Pending == [pending : {TRUE}, level : Levels, phase : Phases,
            start : 0..MaxFrame, overlaySlot : Slots, fresh : BOOLEAN]

SaveTypeOK ==
  /\ image \in [Slots -> Images \cup {Blank}]
  /\ valid \in [Slots -> BOOLEAN]
  /\ gPracticeActiveSlot \in Slots
  /\ gPracticeSlotMeta \in [Slots -> Metas \cup {NoMeta}]
  /\ gPracticeSlotValidBits \in SUBSET Slots
  /\ gPracticeCrossLoadState \in {"IDLE", "AWAIT_SCENE_LOAD"}
  /\ gPracticeCrossLoadSlot \in Slots
  /\ gPracticeCrossLoadStartFrame \in 0..MaxFrame
  /\ scratch \in Images \cup {Blank}
  /\ sSdCross \in Pending \cup {Idle}

\* Practice_Save_Init
SaveInit ==
  /\ image = [s \in Slots |-> Blank] /\ valid = [s \in Slots |-> FALSE]
  /\ gPracticeActiveSlot = 0
  /\ gPracticeSlotMeta = [s \in Slots |-> NoMeta]
  /\ gPracticeSlotValidBits = {}
  /\ gPracticeCrossLoadState = "IDLE"
  /\ gPracticeCrossLoadSlot = 0 /\ gPracticeCrossLoadStartFrame = 0
  /\ scratch = Blank
  /\ sSdCross = Idle

-----------------------------------------------------------------------------
(* Capturing and applying a snapshot.                                      *)

\* Practice_Save_Cb serializes the live game, through scratch.
CurrentImage == [level |-> gCurrentLevel, phase |-> gLevelPhase,
                 frame |-> gGameFrameCount, world |-> game.world, fresh |-> TRUE]

SnapshotApplyToGame(sn) ==
  /\ gLevelPhase' = sn.phase
  /\ gGameFrameCount' = sn.frame
  /\ game' = [world |-> sn.world, player |-> "ACTIVE"]

\* Mutant: any state of the level will do.
LevelEntered(level) == gGameState = "PLAY" /\ gCurrentLevel = level

\* The scene a load may write into: this level, running.
SceneLive(level) ==
  gGameState = "PLAY" /\ gPlayState = "UPDATE" /\ gCurrentLevel = level

\* Mutant: a snapshot with the addresses of another launch is applied.
ApplyAnyway(img) == SnapshotApplyToGame(img)

\* The segment addresses kept with a snapshot are those of the scene in memory.
AddressesMatch(img) == img.fresh /\ sCurrentSceneId = img.level

\* A snapshot of another launch is refused: "STALE SAVE - RESAVE".  One of this
\* launch may be refused too: a segment the level does not use keeps the address
\* the scene before it left there.
ApplyUnlessStale(img) ==
  \/ AddressesMatch(img) /\ SnapshotApplyToGame(img)
  \/ UNCHANGED liveVars

\* Practice_Load_Cb on an image that stands in pool slot src: apply it, refuse
\* it as stale, or leave it in scratch and ask the engine for its level.
LoadCb(img, src) ==
  /\ scratch' = img
  /\ IF SceneLive(img.level)
     THEN /\ ApplyUnlessStale(img)
          /\ UNCHANGED <<sSdCross, nextVars>>
     ELSE /\ sSdCross' = [pending |-> TRUE, level |-> img.level,
                          phase |-> img.phase, start |-> gGameFrameCount,
                          overlaySlot |-> src, fresh |-> img.fresh]
          /\ RequestLoad(img.level, img.phase)
          /\ UNCHANGED liveVars

-----------------------------------------------------------------------------
(* Operations the hotkeys call.                                            *)

CanSaveHere ==
  /\ gGameState = "PLAY" /\ gPlayState = "UPDATE"
  /\ gCurrentLevel \in Saveable
  /\ game.player = "ACTIVE"

\* Mutant: the phase asked for last, which Game_SetGameState has cleared.
RequestedMeta == [valid |-> TRUE, level |-> gCurrentLevel, phase |-> gNextLevelPhase]

CurrentMeta == [valid |-> TRUE, level |-> gCurrentLevel, phase |-> gLevelPhase]

\* Practice_SaveStateSlot: slot_manager_save_ram, SyncValidBits, the slot meta.
\* An image always fits its slot (MAX_STATE_SIZE leaves 175 KB to spare).
SaveStateSlot(s) ==
  /\ UNCHANGED <<gPracticeActiveSlot, xloadVars, sSdCross, liveVars, nextVars>>
  /\ IF CanSaveHere
     THEN /\ image' = [image EXCEPT ![s] = CurrentImage]
          /\ valid' = [valid EXCEPT ![s] = TRUE]
          /\ gPracticeSlotValidBits' = {t \in Slots : valid'[t]}
          /\ gPracticeSlotMeta' = [gPracticeSlotMeta EXCEPT ![s] = CurrentMeta]
          /\ scratch' = CurrentImage
     ELSE UNCHANGED <<slotVars, scratch>>

\* Slot s was saved in another level or phase than the one that is running.
OtherScene(s) ==
  LET m == gPracticeSlotMeta[s] IN
  m.valid /\ (m.level # gCurrentLevel \/ m.phase # gLevelPhase)

\* Practice_LoadStateSlot: an empty slot, another scene, or this one.
LoadStateSlot(s) ==
  /\ UNCHANGED <<slotVars, gPracticeActiveSlot>>
  /\ \/ /\ ~valid[s]
        /\ UNCHANGED <<xloadVars, scratch, sSdCross, liveVars, nextVars>>
     \/ /\ valid[s] /\ OtherScene(s)
        /\ gPracticeCrossLoadState' = "AWAIT_SCENE_LOAD"
        /\ gPracticeCrossLoadSlot' = s
        /\ gPracticeCrossLoadStartFrame' = gGameFrameCount
        /\ RequestLoad(gPracticeSlotMeta[s].level, gPracticeSlotMeta[s].phase)
        /\ UNCHANGED <<scratch, sSdCross, liveVars>>
     \/ /\ valid[s] /\ ~OtherScene(s)
        /\ LoadCb(image[s], s)
        /\ UNCHANGED xloadVars

\* Practice_CycleSlot
CycleSlot(delta) ==
  gPracticeActiveSlot' = IF delta > 0
                         THEN (gPracticeActiveSlot + 1) % NumSlots
                         ELSE IF gPracticeActiveSlot = 0 THEN NumSlots - 1
                                                         ELSE gPracticeActiveSlot - 1

-----------------------------------------------------------------------------
(* Practice_Save_Tick: the RAM cross-load, then the deferred (SD) load.    *)

XloadReady ==
  LET m == gPracticeSlotMeta[gPracticeCrossLoadSlot] IN
  m.valid /\ SceneLive(m.level)

TimedOut(start) == gGameFrameCount > start + XloadTimeout

\* Mutant: the wait is not ended when the snapshot has been applied.
XloadOnlyTimesOut == TimedOut(gPracticeCrossLoadStartFrame)

XloadDone == XloadReady \/ TimedOut(gPracticeCrossLoadStartFrame)

XloadTick ==
  LET s == gPracticeCrossLoadSlot IN
  IF gPracticeCrossLoadState = "IDLE"
  THEN UNCHANGED <<xloadVars, scratch, sSdCross, liveVars, nextVars>>
  ELSE /\ UNCHANGED <<gPracticeCrossLoadSlot, gPracticeCrossLoadStartFrame>>
       /\ gPracticeCrossLoadState' =
            IF XloadDone THEN "IDLE" ELSE "AWAIT_SCENE_LOAD"
       /\ IF XloadReady /\ valid[s]
          THEN LoadCb(image[s], s)
          ELSE UNCHANGED <<scratch, sSdCross, liveVars, nextVars>>

\* Mutant: applied as soon as the level is entered.
SdReadyEarly == sSdCross.pending /\ LevelEntered(sSdCross.level)

SdReady == sSdCross.pending /\ SceneLive(sSdCross.level)

\* Mutant: sd_cross_apply_now leaves sSdCrossPending set.
SdOnlyTimesOut == TimedOut(sSdCross.start)

SdDone == SdReady \/ TimedOut(sSdCross.start)

\* sd_cross_apply_now copies the overlay bytes from the pool slot, then
\* applies whatever scratch holds.
SdCrossTick ==
  IF ~sSdCross.pending THEN UNCHANGED <<sSdCross, liveVars>>
  ELSE /\ sSdCross' = IF SdDone THEN Idle ELSE sSdCross
       /\ \/ SdReady /\ AddressesMatch(sSdCross) /\ SnapshotApplyToGame(scratch)
          \/ UNCHANGED liveVars

XloadStep ==
  /\ pc = "tick" /\ XloadTick
  /\ UNCHANGED <<slotVars, gPracticeActiveSlot>>

SdCrossStep ==
  /\ pc = "sdtick" /\ SdCrossTick
  /\ UNCHANGED <<slotVars, gPracticeActiveSlot, xloadVars, scratch, nextVars>>
=============================================================================

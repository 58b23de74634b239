---------------------------- MODULE PracticeRom ----------------------------
(***************************************************************************)
(* The whole frame: the engine with every part of the practice code hooked *)
(* into it.  Each step of the frame is an action; the other parts' state   *)
(* stays as it is.                                                         *)
(***************************************************************************)
EXTENDS Menu

vars == <<engineVars, saveVars, advanceVars, sInputGraceTimer, macroVars, menuVars>>

Init == EngineInit /\ SaveInit /\ AdvanceInit /\ MacroInit /\ MenuInit

\* What the steps of the engine leave alone.
practiceVars == <<saveVars, advanceVars, sInputGraceTimer, macroVars, menuVars>>

PollStep == Poll /\ UNCHANGED practiceVars

GateStep ==
  /\ Gate
  /\ UNCHANGED <<gGameState, gPlayState, sCurrentSceneId, gCurrentLevel, liveVars,
                 nextVars, gNextGameStateTimer, uiVars, saveVars, macroVars, menuVars>>

PrePlayStep == MacroPrePlay /\ UNCHANGED menuVars

MainStep == (PlayMain \/ OtherScreen) /\ UNCHANGED practiceVars

DrawStep == GameDraw(sActiveSubMenu # "NONE") /\ UNCHANGED practiceVars

AdvanceStep == FrameAdvanceUpdate /\ UNCHANGED <<macroVars, menuVars>>

MacroStep == MacroUpdate /\ UNCHANGED menuVars

\* Practice_Save_Tick, unless an SD dialog is open.
TickStep ==
  /\ sdUi = "NONE" /\ pc' = "sdtick"
  /\ XloadStep
  /\ UNCHANGED <<padVars, gGameState, gPlayState, sCurrentSceneId, gCurrentLevel,
                 gNextGameStateTimer, uiVars, advanceVars, sInputGraceTimer, macroVars,
                 menuVars>>

SdTickStep ==
  /\ pc' = "screen"
  /\ SdCrossStep
  /\ UNCHANGED <<padVars, gGameState, gPlayState, sCurrentSceneId, gCurrentLevel,
                 gNextGameStateTimer, uiVars, advanceVars, sInputGraceTimer, macroVars,
                 menuVars>>

\* practice_main.c:131-135: an open SD dialog takes the frame from the save tick.
SaveOrDialog == pc = "tick" /\ (SdUpdate \/ TickStep)

Next == \/ PollStep \/ GateStep \/ PrePlayStep \/ MainStep \/ DrawStep
        \/ AdvanceStep \/ MacroStep \/ SaveOrDialog \/ SdTickStep \/ ScreenUpdate

\* The video retrace drives the frame loop: it never stops.
Spec == Init /\ [][Next]_vars /\ WF_vars(Next)

-----------------------------------------------------------------------------
(* Macros.                                                                 *)

\* Every variable has the type of the code's variable.
TypeOK == EngineTypeOK /\ SaveTypeOK /\ AdvanceTypeOK /\ MacroTypeOK /\ MenuTypeOK

\* The level is running and no menu is over it.
Running == gGameState = "PLAY" /\ gPlayState = "UPDATE" /\ gPracticeMenuState = "CLOSED"

\* Record head and length stay inside the frame buffer, whatever mixture of
\* record, append, rewind, trim and replay the player asks for.
MacroBounds == sMacroHead <= sMacroLen /\ sMacroLen <= MacroCap

\* A recorded frame is the pad the game is about to be given, and it is the
\* last of the macro: a recording never skips, repeats or overwrites a frame.
RecordingIsWhatIsPlayed ==
  pc = "main" /\ Running /\ IsRecording =>
    sMacroHead > 0 /\ sMacroHead = sMacroLen /\ sMacroBuf[sMacroHead] = hold

\* A replayed frame gives the game the recorded buttons, and as freshly
\* pressed the ones that are new against the frame before: a replay that is
\* rewound, looped, trimmed or interrupted never skips an edge or adds one.
ReplayIsExact ==
  pc = "main" /\ Running /\ IsPlaying /\ sMacroHead > 0 =>
    LET before == IF sMacroHead = 1 THEN {} ELSE sMacroBuf[sMacroHead - 1] IN
    hold = sMacroBuf[sMacroHead] /\ press = sMacroBuf[sMacroHead] \ before

\* No frame is replayed while the macro's state has yet to be restored.
RestoreComesFirst == IsPlaying /\ sMacroRestorePending => sMacroHead = 0

\* The player (or the macro itself) pauses, opens the menu or leaves the level.
Interrupted == sIsPaused \/ ~Running

\* The macro recorded one of the hotkeys that send its own replay back.
RewindsItself == \E i \in 1..sMacroLen :
  \E key \in {"START", "DLeft"} : {"L", key} \subseteq sMacroBuf[i]

\* A replay without LOOP comes to its end, unless it is interrupted, holds such
\* a key, or waits for its state to be restored: whatever else the player
\* presses, the recorded frames are used up.
PlainReplayEnds ==
  IsPlaying /\ ~sMacroRestorePending /\ ~macroLoop /\ ~RewindsItself ~>
    ~IsPlaying \/ macroLoop \/ Interrupted

\* A bound macro's state is put back whole, and only into the running level it
\* was taken in.
RestoreMeetsScene ==
  [][IsPlaying /\ sMacroRestorePending /\ ~sMacroRestorePending' /\ IsPlaying' =>
       /\ Running /\ gCurrentLevel = macroSnap.level
       /\ <<gLevelPhase, gGameFrameCount, game.world>>' =
            <<macroSnap.phase, macroSnap.frame, macroSnap.world>>]_vars

-----------------------------------------------------------------------------
(* Save states.                                                            *)

\* A slot that can be loaded holds the scene its meta record announces: the
\* level change a load asks for is the one the image needs.
MetaDescribesImage ==
  \A s \in Slots : valid[s] =>
    /\ gPracticeSlotMeta[s].valid /\ image[s] # Blank
    /\ gPracticeSlotMeta[s].level = image[s].level
    /\ gPracticeSlotMeta[s].phase = image[s].phase

\* A snapshot was put back: into its own level, running, with that level's
\* overlay in memory, at this launch's addresses, and every part of it.
LoadFits ==
  LET sn == scratch' IN
  /\ gGameState = "PLAY" /\ gPlayState = "UPDATE"
  /\ gCurrentLevel = sn.level /\ sCurrentSceneId = sn.level /\ sn.fresh
  /\ <<gLevelPhase, gGameFrameCount, game.world>>' = <<sn.phase, sn.frame, sn.world>>

\* Whichever of the four places of the frame loads a slot or a file, at once or
\* after a change of level, the snapshot fits the scene it goes into.
SnapshotFitsScene ==
  [][liveVars' # liveVars /\ pc \in {"advance", "tick", "screen"} => LoadFits]_vars

\* So does one that waited in scratch while the engine changed the level, and
\* the pool slot its overlay bytes are copied from still holds the same image:
\* "Overlay/segment pointers reference the slot-manager's RAM storage buffer
\* (slot 0) which survives until then" (practice_save.c).
DeferredLoadFits ==
  [][liveVars' # liveVars /\ pc = "sdtick" =>
       LoadFits /\ image[sSdCross.overlaySlot] = scratch]_vars

\* What gGameFrameCount, the clock of the time-outs, needs to run.
ClockRuns == /\ gGameState = "PLAY" /\ gPlayState # "PAUSE"
             /\ ~sIsPaused /\ gPracticeMenuState = "CLOSED"

\* "HUD stuck on XSCENE WAIT past 6 s -> state machine should fall through to
\* LOAD T/O" (HW_VERIFY_phase5.md), as far as the code goes: a cross-scene load
\* is applied or gives up, unless the clock stops.
XloadResolves ==
  gPracticeCrossLoadState = "AWAIT_SCENE_LOAD" ~>
    gPracticeCrossLoadState = "IDLE" \/ ~ClockRuns

\* A deferred load, likewise, does not stay pending in a level that runs.
SdCrossResolves == sSdCross.pending ~> ~sSdCross.pending \/ ~ClockRuns
=============================================================================

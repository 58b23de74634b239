------------------------------- MODULE Engine -------------------------------
(***************************************************************************)
(* The part of the game the practice ROM hooks into: the controller read   *)
(* of sys_joybus.c, the game-state switch and the frame loop of            *)
(* fox_game.c, and Play_Main of fox_play.c.                                *)
(*                                                                         *)
(* One frame is a fixed sequence of steps; pc names the step that runs     *)
(* next, so that what one part of the frame leaves behind (an injected     *)
(* button, a queued level change) is there for the next part to find:      *)
(*                                                                         *)
(*   poll     Controller_UpdateInput, Game_SetGameState, the timer         *)
(*   gate     the GSTATE_PLAY branch: menu, frame advance, input grace     *)
(*   preplay  Practice_Macro_PrePlay                                       *)
(*   main     Play_Main, or the update of another screen                   *)
(*   draw     Game_Draw, whose pause screen can end the vanilla pause      *)
(*   advance  Practice_FrameAdvance_Update                                 *)
(*   macro    Practice_Macro_Update                                        *)
(*   tick     Practice_Sd_Update, or Practice_Save_Tick: the RAM load ...  *)
(*   sdtick   ... and the deferred SD load                                 *)
(*   screen   level select, radial menu or the gameplay hotkeys            *)
(***************************************************************************)
EXTENDS Integers, FiniteSets

CONSTANTS
  Pads,         \* the sets of buttons the player may hold down
  Levels,       \* level ids
  Saveable,     \* the levels listed in sLevelOverlayMap
  Phases,       \* values of gLevelPhase
  Worlds,       \* everything else a snapshot holds, told apart by name
  Ends,         \* how the engine may end a level, or a screen, in this run
  SetupFrames,  \* value Game_SetGameState gives gNextGameStateTimer (3)
  MaxFrame,     \* bound: gGameFrameCount stops growing here
  InputUntil    \* bound: in a level the player lets go from this frame on

Buttons == {"A", "B", "L", "R", "Z", "START", "CRight",
            "DUp", "DDown", "DLeft", "DRight"}
DPad == {"DUp", "DDown", "DLeft", "DRight"}
EndKinds == {"respawn", "gameOver", "map", "complete", "next", "warp", "screen"}

\* The d-pad is a rocker: opposite directions are never held together.
ASSUME PadsAssumption ==
  /\ Pads \subseteq SUBSET Buttons
  /\ {} \in Pads
  /\ \A pad \in Pads : /\ ~({"DUp", "DDown"} \subseteq pad)
                       /\ ~({"DLeft", "DRight"} \subseteq pad)

ASSUME EngineAssumption ==
  /\ Saveable \subseteq Levels /\ Saveable # {}
  /\ Phases \subseteq Nat /\ 0 \in Phases
  /\ Worlds # {}
  /\ Ends \subseteq EndKinds /\ ("warp" \in Ends => 1 \in Phases)
  /\ SetupFrames \in Nat \ {0}
  /\ MaxFrame \in Nat /\ InputUntil \in Nat

VARIABLES
  pc,
  hold, press,          \* gControllerHold / gControllerPress [gMainController]
  gGameState, gPlayState,
  sCurrentSceneId,      \* the scene whose overlay and segments are in memory
  gCurrentLevel, gLevelPhase, gGameFrameCount,
  gNextGameState, gNextLevel, gNextLevelPhase, gNextGameStateTimer,
  game,                 \* the live game: its world, gPlayer[0].state
  gPracticeScreen, gPracticeMenuState

padVars == <<hold, press>>
nextVars == <<gNextGameState, gNextLevel, gNextLevelPhase>>
liveVars == <<gLevelPhase, gGameFrameCount, game>>
uiVars == <<gPracticeScreen, gPracticeMenuState>>
engineVars == <<pc, padVars, gGameState, gPlayState, sCurrentSceneId, gCurrentLevel,
                liveVars, nextVars, gNextGameStateTimer, uiVars>>

GameStates == {"PLAY", "MAP", "MENU", "GAME_OVER"}
PlayStates == {"STANDBY", "INIT", "UPDATE", "PAUSE"}
PlayerStates == {"INIT", "LEVEL_INTRO", "ACTIVE", "WARP", "DOWN"}

EngineTypeOK ==
  /\ pc \in {"poll", "gate", "preplay", "main", "draw", "advance", "macro", "tick",
            "sdtick", "screen"}
  /\ hold \in SUBSET Buttons /\ press \in SUBSET Buttons
  /\ gGameState \in GameStates /\ gPlayState \in PlayStates
  /\ sCurrentSceneId \in Levels \cup GameStates
  /\ gCurrentLevel \in Levels /\ gLevelPhase \in Phases
  /\ gGameFrameCount \in 0..MaxFrame
  /\ gNextGameState \in GameStates \cup {"NONE"}
  /\ gNextLevel \in Levels /\ gNextLevelPhase \in Phases
  /\ gNextGameStateTimer \in 0..SetupFrames
  /\ game \in [world : Worlds, player : PlayerStates]
  /\ gPracticeScreen \in {"LEVEL_SELECT", "GAMEPLAY"}
  /\ gPracticeMenuState \in {"CLOSED", "OPEN_FROZEN"}

\* After boot: Practice_Init has run and the level select is on screen.
EngineInit ==
  /\ pc = "poll"
  /\ hold = {} /\ press = {}
  /\ gGameState = "MAP" /\ gPlayState = "STANDBY"
  /\ sCurrentSceneId = "MAP"
  /\ gCurrentLevel \in Levels /\ gLevelPhase = 0 /\ gGameFrameCount = 0
  /\ gNextGameState = "NONE" /\ gNextLevel = gCurrentLevel /\ gNextLevelPhase = 0
  /\ gNextGameStateTimer = 0
  /\ game \in [world : Worlds, player : {"INIT"}]
  /\ gPracticeScreen = "LEVEL_SELECT" /\ gPracticeMenuState = "CLOSED"

-----------------------------------------------------------------------------
(* Requests other parts make of the engine.                                *)

\* practice_overlay_request_load: hand a level change to the next frame.
RequestLoad(level, phase) ==
  IF level \in Saveable
  THEN /\ gNextGameState' = "PLAY"
       /\ gNextLevel' = level
       /\ gNextLevelPhase' = phase
  ELSE UNCHANGED nextVars

\* One more frame on a counter, up to the bound.
FrameTick(n) == IF n < MaxFrame THEN n + 1 ELSE n

-----------------------------------------------------------------------------
(* poll: the hardware is read against the hold value the last frame left   *)
(* (which a macro may have injected), then a requested game state is       *)
(* entered.                                                                *)

ControllerUpdateInput(pad) ==
  /\ hold' = pad
  /\ press' = pad \ hold

\* Mutant: the timer runs on below zero.
TimerRunsOn(timer) == timer - 1

TimerDown(timer) == IF timer = 0 THEN 0 ELSE timer - 1

\* The timer as Game_SetGameState leaves it.
TimerSet == IF gNextGameState = "NONE" THEN gNextGameStateTimer ELSE SetupFrames

GameSetGameState ==
  IF gNextGameState = "NONE"
  THEN UNCHANGED <<gGameState, gPlayState, gCurrentLevel, gLevelPhase, nextVars>>
  ELSE /\ gGameState' = gNextGameState
       /\ gNextGameState' = "NONE"
       /\ IF gNextGameState = "PLAY"
          THEN /\ gCurrentLevel' = gNextLevel
               /\ gPlayState' = "STANDBY"
               /\ gLevelPhase' = gNextLevelPhase
               /\ gNextLevelPhase' = 0
          ELSE UNCHANGED <<gCurrentLevel, gPlayState, gLevelPhase, gNextLevelPhase>>
       /\ UNCHANGED gNextLevel

\* Game_SetScene: every level, and every other screen, is a scene of its own.
Scene == IF gGameState = "PLAY" THEN gCurrentLevel ELSE gGameState

\* Bound: in a level that runs, the player lets go from InputUntil on.
InputAllowed == \/ gGameState # "PLAY" \/ gPracticeMenuState # "CLOSED"
                \/ gGameFrameCount < InputUntil

\* Game_ChangeScene: while a new scene is read in, nothing but the poll runs.
\* (Two frames and more in the code: the first one stands for all of them.)
Poll ==
  /\ pc = "poll"
  /\ \E pad \in Pads : /\ pad = {} \/ InputAllowed
                       /\ ControllerUpdateInput(pad)
  /\ GameSetGameState
  /\ sCurrentSceneId' = Scene'
  /\ IF Scene' # sCurrentSceneId
     THEN pc' = "poll" /\ gNextGameStateTimer' = TimerSet
     ELSE pc' = "gate" /\ gNextGameStateTimer' = TimerDown(TimerSet)
  /\ UNCHANGED <<gGameFrameCount, game, uiVars>>

-----------------------------------------------------------------------------
(* main: Play_Main, by gPlayState.                                         *)

Pressed(b) == b \in press
StartPressed == Pressed("START") /\ "CRight" \notin hold

PlayStandby ==
  /\ gPlayState = "STANDBY"
  /\ gGameFrameCount' = FrameTick(gGameFrameCount)
  /\ gPlayState' = IF gNextGameStateTimer = 0 THEN "INIT" ELSE "STANDBY"
  /\ UNCHANGED <<gGameState, gCurrentLevel, gLevelPhase, game, nextVars, uiVars>>

\* Play_Init clears gGameFrameCount and creates the player.
PlayInit ==
  /\ gPlayState = "INIT"
  /\ gPlayState' = "UPDATE"
  /\ gGameFrameCount' = 0
  /\ \E w \in Worlds : game' = [world |-> w, player |-> "INIT"]
  /\ UNCHANGED <<gGameState, gCurrentLevel, gLevelPhase, nextVars, uiVars>>

\* What one Play_Update makes of gPlayer[0].state, short of ending the level.
PlayerSteps(s) ==
  CASE s = "INIT"        -> {"LEVEL_INTRO", "ACTIVE"}
    [] s = "LEVEL_INTRO" -> {"LEVEL_INTRO", "ACTIVE"}
    [] s = "ACTIVE"      -> IF Ends = {} THEN {"ACTIVE"} ELSE {"ACTIVE", "DOWN"}
    [] s = "WARP"        -> {"WARP", "ACTIVE"}
    [] s = "DOWN"        -> {"DOWN"}

\* Play_Update, then START: it skips the intro, or pauses where the player is
\* active and the engine has not disabled the pause this frame.
PlayUpdate ==
  /\ gPlayState = "UPDATE"
  /\ gGameFrameCount' = FrameTick(gGameFrameCount)
  /\ \E w \in Worlds, s \in PlayerSteps(game.player), gPauseEnabled \in BOOLEAN :
       /\ gPauseEnabled => s = "ACTIVE"
       /\ game' = [world |-> w, player |-> s]
       /\ gPlayState' = CASE StartPressed /\ s = "LEVEL_INTRO" -> "INIT"
                          [] StartPressed /\ gPauseEnabled     -> "PAUSE"
                          [] OTHER                             -> "UPDATE"
  /\ UNCHANGED <<gGameState, gCurrentLevel, gLevelPhase, nextVars, uiVars>>

\* The level goes on as another one, or another part of itself, with nothing
\* reloaded: the warp of Meteo, Andross to Venom 2.
PlayUpdateWarps ==
  /\ "warp" \in Ends
  /\ gPlayState = "UPDATE" /\ game.player = "ACTIVE"
  /\ gGameFrameCount' = FrameTick(gGameFrameCount)
  /\ gCurrentLevel' \in Levels /\ gLevelPhase' = 1
  /\ \E w \in Worlds, s \in {"WARP", "DOWN"} : game' = [world |-> w, player |-> s]
  /\ UNCHANGED <<gGameState, gPlayState, nextVars, uiVars>>

\* A level that is over.  Respawn and game over send some levels back to their
\* first phase; the last levels lead straight to the next; and with cutscenes
\* skipped a level that is won ends in the practice level select.
PlayUpdateEnds ==
  /\ gPlayState = "UPDATE" /\ game.player = "DOWN"
  /\ gGameFrameCount' = FrameTick(gGameFrameCount)
  /\ \/ /\ "respawn" \in Ends
        /\ gPlayState' = "INIT" /\ gLevelPhase' \in {gLevelPhase, 0}
        /\ UNCHANGED <<gGameState, nextVars, uiVars>>
     \/ /\ "gameOver" \in Ends
        /\ gNextGameState' = "GAME_OVER" /\ gLevelPhase' \in {gLevelPhase, 0}
        /\ UNCHANGED <<gGameState, gPlayState, gNextLevel, gNextLevelPhase, uiVars>>
     \/ /\ "map" \in Ends
        /\ gNextGameState' = "MAP"
        /\ UNCHANGED <<gGameState, gPlayState, gLevelPhase, gNextLevel, gNextLevelPhase,
                       uiVars>>
     \/ /\ "next" \in Ends
        /\ gNextGameState' = "PLAY" /\ gNextLevel' \in Levels
        /\ gNextLevelPhase' \in Phases
        /\ UNCHANGED <<gGameState, gPlayState, gLevelPhase, uiVars>>
     \/ /\ "complete" \in Ends
        /\ gGameState' = "MAP"
        /\ gPracticeMenuState' = "CLOSED"
        /\ gPracticeScreen' = "LEVEL_SELECT"
        /\ UNCHANGED <<gPlayState, gLevelPhase, nextVars>>
  /\ UNCHANGED <<gCurrentLevel, game>>

PlayPause ==
  /\ gPlayState = "PAUSE"
  /\ gPlayState' = IF Pressed("START") THEN "UPDATE" ELSE "PAUSE"
  /\ UNCHANGED <<gGameState, gCurrentLevel, liveVars, nextVars, uiVars>>

PlayMain ==
  /\ pc = "main" /\ pc' = "draw"
  /\ gGameState = "PLAY"
  /\ \/ PlayStandby \/ PlayInit \/ PlayUpdate
     \/ PlayUpdateWarps \/ PlayUpdateEnds \/ PlayPause
  /\ UNCHANGED <<padVars, sCurrentSceneId, gNextGameStateTimer>>

-----------------------------------------------------------------------------
(* main, in any other game state.                                          *)

\* The screens the vanilla map and option menu lead to, and the levels: the
\* map's (Map_PlayLevel) and the training.  They set gGameState themselves.
ScreenLeaves ==
  /\ "screen" \in Ends
  /\ gGameState \in {"MAP", "MENU"}
  /\ gNextGameStateTimer' = SetupFrames - 1
  /\ \/ /\ gGameState' \in IF gGameState = "MAP" THEN {"MENU", "GAME_OVER"} ELSE {"MAP"}
        /\ UNCHANGED <<gPlayState, gCurrentLevel, gLevelPhase>>
     \/ /\ gGameState' = "PLAY" /\ gPlayState' = "STANDBY"
        /\ gCurrentLevel' \in Levels /\ gLevelPhase' = 0
  /\ UNCHANGED nextVars

\* The vanilla map, option menu (which stands for the title as well) and game
\* over.  Map and menu count frames, from 0 when they are set up.
VanillaScreen ==
  /\ IF gGameState = "GAME_OVER" THEN UNCHANGED gGameFrameCount
     ELSE gGameFrameCount' \in {gGameFrameCount, FrameTick(gGameFrameCount), 0}
  /\ \/ UNCHANGED <<gGameState, gPlayState, gCurrentLevel, gLevelPhase, nextVars,
                    gNextGameStateTimer>>
     \/ ScreenLeaves
     \/ /\ gGameState = "GAME_OVER" /\ gNextGameState' = "MAP"
        /\ UNCHANGED <<gGameState, gPlayState, gCurrentLevel, gLevelPhase, gNextLevel,
                       gNextLevelPhase, gNextGameStateTimer>>

\* While the practice level select is up, the map does not run.
OtherScreen ==
  /\ pc = "main" /\ pc' = "draw"
  /\ gGameState # "PLAY"
  /\ IF gGameState = "MAP" /\ gPracticeScreen = "LEVEL_SELECT"
     THEN UNCHANGED <<gGameState, gPlayState, gCurrentLevel, gLevelPhase,
                      gGameFrameCount, nextVars, gNextGameStateTimer>>
     ELSE VanillaScreen
  /\ UNCHANGED <<padVars, sCurrentSceneId, game, uiVars>>

-----------------------------------------------------------------------------
(* draw: HUD_PauseScreen_Update, which runs as the level is drawn.  Some   *)
(* frames after the player's choice it ends the vanilla pause: the level   *)
(* goes on, or is given up for a retry.                                    *)

PauseScreenEnds ==
  /\ gGameState = "PLAY" /\ gPlayState = "PAUSE"
  /\ gPlayState' = "UPDATE"
  /\ game' \in {game} \cup
       IF Ends \cap {"respawn", "gameOver"} = {} THEN {}
       ELSE {[game EXCEPT !.player = "DOWN"]}

\* Nothing is drawn while a submenu is open.
GameDraw(hidden) ==
  /\ pc = "draw" /\ pc' = "advance"
  /\ \/ ~hidden /\ PauseScreenEnds
     \/ UNCHANGED <<gPlayState, game>>
  /\ UNCHANGED <<padVars, gGameState, sCurrentSceneId, gCurrentLevel, gLevelPhase,
                 gGameFrameCount, nextVars, gNextGameStateTimer, uiVars>>
=============================================================================

-------------------------------- MODULE Menu --------------------------------
(***************************************************************************)
(* The last part of Practice_Update: the SD dialogs (practice_sd.c, the    *)
(* on-screen keyboard osk.c, file_browser.c), the level select, the radial *)
(* menu and its submenus, and the gameplay hotkeys.                        *)
(*                                                                         *)
(* Cursors and the stick are abstracted: a press of A acts on any entry    *)
(* the player may have moved to.  Of the submenus only the macro menu has  *)
(* entries that change state modelled here; the others are "OTHER".        *)
(***************************************************************************)
EXTENDS PracticeMacro

CONSTANTS
  Slices,           \* radial menu entries the player picks in this run
  MacroOptions,     \* macro menu entries the player picks in this run
  StartHoldFrames,  \* START_HOLD_FRAMES (45)
  Names,            \* file names the player types
  CardFiles         \* images that may stand on the SD card at boot

SliceKinds == {"RESTART", "LEVELS", "SUBMENU", "DISPLAY", "CHEATS", "SD",
               "SD_SAVE", "SD_LOAD", "MACRO"}
OptionKinds == {"RECORD", "PLAY", "REWIND", "TRIM", "BIND_STATE", "LOOP", "BACK"}

ASSUME MenuAssumption ==
  /\ Slices \subseteq SliceKinds
  /\ MacroOptions \subseteq OptionKinds /\ "BACK" \in MacroOptions
  /\ StartHoldFrames \in Nat \ {0}
  /\ CardFiles \subseteq Images

VARIABLES
  sMenuDepth, sRadialSub1, sStartHoldTimer,
  sActiveSubMenu,       \* "NONE" while sStateMenuOpen is false
  sConfirmOverwrite,
  sdUi,                 \* the SD dialog that is open
  oskText,              \* gOsk.text: a name, or nothing typed yet
  card                  \* the files in SD_DIR

NoText == "nothing typed"
NoFile == [absent |-> TRUE]

radialVars == <<sMenuDepth, sRadialSub1, sStartHoldTimer>>
subMenuVars == <<sActiveSubMenu, sConfirmOverwrite>>
sdVars == <<sdUi, oskText>>
menuVars == <<radialVars, subMenuVars, sdVars, card>>

MenuTypeOK ==
  /\ sMenuDepth \in 0..1 /\ sRadialSub1 \in {"DISPLAY", "CHEATS", "SD"}
  /\ sStartHoldTimer \in 0..StartHoldFrames
  /\ sActiveSubMenu \in {"NONE", "MACRO", "OTHER"}
  /\ sConfirmOverwrite \in BOOLEAN
  /\ sdUi \in {"NONE", "OSK", "BROWSER"}
  /\ oskText \in Names \cup {NoText}
  /\ card \in [Names -> Images \cup {NoFile}]

MenuInit ==
  /\ sMenuDepth = 0 /\ sRadialSub1 = "DISPLAY" /\ sStartHoldTimer = 0
  /\ sActiveSubMenu = "NONE" /\ sConfirmOverwrite = FALSE
  /\ sdUi = "NONE" /\ oskText = NoText
  /\ card \in [Names -> CardFiles \cup {NoFile}]

-----------------------------------------------------------------------------
(* tick, with an SD dialog open: Practice_Sd_Update, and nothing else.     *)

\* Mutant: a RAM load may still use what is staged in slot 0.
StageStaysValid == UNCHANGED valid

\* Slot 0 is about to hold something other than what was saved there.
StageInSlot0 == valid' = [valid EXCEPT ![0] = FALSE]

\* Save under a name.  The image is staged in pool slot 0; the write works,
\* leaves the old file, or (the rename failing) leaves no file at all.
SaveNameConfirmed(name) ==
  /\ image' = [image EXCEPT ![0] = CurrentImage]
  /\ StageInSlot0
  /\ scratch' = CurrentImage
  /\ card' \in {card, [card EXCEPT ![name] = CurrentImage],
                [card EXCEPT ![name] = NoFile]}
  /\ sdUi' = "NONE"
  /\ gPracticeMenuState' = "CLOSED"
  /\ UNCHANGED <<oskText, sSdCross, liveVars, nextVars>>

\* osk_update: B deletes, START confirms, Z cancels, A types, deletes or
\* picks OK, in this order of precedence.
OskUpdate ==
  /\ sdUi = "OSK"
  /\ \/ /\ Pressed("B") \/ (Pressed("A") /\ ~Pressed("START") /\ ~Pressed("Z"))
        /\ oskText' \in IF Pressed("B") /\ oskText = NoText THEN {NoText}
                        ELSE Names \cup {NoText}
        /\ UNCHANGED <<sdUi, image, valid, scratch, card, gPracticeMenuState,
                       sSdCross, liveVars, nextVars>>
     \/ /\ ~Pressed("B") /\ oskText # NoText
        /\ Pressed("START") \/ (Pressed("A") /\ ~Pressed("Z"))
        /\ SaveNameConfirmed(oskText)
     \/ /\ ~Pressed("B") /\ ~Pressed("START") /\ Pressed("Z")
        /\ sdUi' = "NONE"
        /\ UNCHANGED <<oskText, image, valid, scratch, card, gPracticeMenuState,
                       sSdCross, liveVars, nextVars>>
     \/ /\ ~Pressed("B")
        /\ IF Pressed("START") THEN oskText = NoText
                               ELSE ~Pressed("Z") /\ ~Pressed("A")
        /\ UNCHANGED <<sdVars, image, valid, scratch, card, gPracticeMenuState,
                       sSdCross, liveVars, nextVars>>

\* Load a file: it is read into pool slot 0, and if it is sound handed to
\* Practice_Load_Cb.  A failed read leaves slot 0 as it was, or damaged.
LoadFileSelected(name) ==
  /\ StageInSlot0
  /\ \/ /\ image' \in {image, [image EXCEPT ![0] = Blank]}
        /\ UNCHANGED <<scratch, sSdCross, liveVars, nextVars>>
     \/ /\ image' = [image EXCEPT ![0] = card[name]]
        /\ LoadCb(card[name], 0)
  /\ sdUi' = "NONE"
  /\ gPracticeMenuState' = "CLOSED"
  /\ UNCHANGED <<oskText, card>>

FileBrowserUpdate ==
  LET Files == {name \in Names : card[name] # NoFile}
      picks == Pressed("A") \/ Pressed("START")
      leaves == Pressed("B") \/ Pressed("Z")
  IN
  /\ sdUi = "BROWSER"
  /\ \/ ~leaves /\ picks /\ \E name \in Files : LoadFileSelected(name)
     \/ /\ leaves \/ ~picks \/ Files = {}
        /\ sdUi' = IF leaves THEN "NONE" ELSE "BROWSER"
        /\ UNCHANGED <<oskText, image, valid, scratch, card, gPracticeMenuState,
                       sSdCross, liveVars, nextVars>>

SdUpdate ==
  /\ pc = "tick" /\ sdUi # "NONE" /\ pc' = "poll"
  /\ OskUpdate \/ FileBrowserUpdate
  /\ UNCHANGED <<padVars, gGameState, gPlayState, sCurrentSceneId, gCurrentLevel,
                 gPracticeScreen, gNextGameStateTimer, gPracticeSlotMeta,
                 gPracticeSlotValidBits, gPracticeActiveSlot, xloadVars, advanceVars,
                 sInputGraceTimer, macroVars, radialVars, subMenuVars>>

-----------------------------------------------------------------------------
(* Submenus: Practice_StateMenu_Update.                                    *)

\* One entry of the macro menu.
MacroOption(option) ==
  CASE option = "RECORD" /\ (IsArmed \/ IsRecording) ->
         StopRecord /\ UNCHANGED subMenuVars
    [] option = "RECORD" /\ ~(IsArmed \/ IsRecording) /\ sMacroHead < sMacroLen ->
         /\ sConfirmOverwrite' = TRUE
         /\ UNCHANGED <<macroVars, nextVars, sActiveSubMenu>>
    [] option = "RECORD" /\ ~(IsArmed \/ IsRecording) /\ sMacroHead >= sMacroLen ->
         StartRecord /\ UNCHANGED subMenuVars
    [] option = "PLAY" -> /\ IF IsPlaying THEN StopPlay ELSE StartPlay
                          /\ UNCHANGED subMenuVars
    [] option = "REWIND" -> Rewind /\ UNCHANGED subMenuVars
    [] option = "TRIM" -> Trim /\ UNCHANGED subMenuVars
    [] option = "BIND_STATE" -> ToggleBind /\ UNCHANGED subMenuVars
    [] option = "LOOP" -> ToggleLoop /\ UNCHANGED subMenuVars
    [] option = "BACK" ->
         /\ sActiveSubMenu' = IF Pressed("A") THEN "NONE" ELSE sActiveSubMenu
         /\ UNCHANGED <<macroVars, nextVars, sConfirmOverwrite>>

\* While the overwrite question is up, A answers it and B withdraws it.
StateMenuUpdate ==
  /\ sActiveSubMenu # "NONE"
  /\ \/ /\ Pressed("B") /\ sConfirmOverwrite
        /\ sConfirmOverwrite' = FALSE
        /\ UNCHANGED <<macroVars, nextVars, sActiveSubMenu>>
     \/ /\ Pressed("B") /\ ~sConfirmOverwrite
        /\ sActiveSubMenu' = "NONE"
        /\ UNCHANGED <<macroVars, nextVars, sConfirmOverwrite>>
     \/ /\ ~Pressed("B") /\ sConfirmOverwrite /\ Pressed("A")
        /\ StartRecord
        /\ sConfirmOverwrite' = FALSE
        /\ UNCHANGED sActiveSubMenu
     \/ /\ ~Pressed("B") /\ ~sConfirmOverwrite /\ sActiveSubMenu = "MACRO"
        /\ press \cap {"A", "DLeft", "DRight"} # {}
        /\ \E option \in MacroOptions : MacroOption(option)
     \/ /\ sActiveSubMenu = "OTHER" /\ press \cap {"A", "B"} # {}
        /\ \/ UNCHANGED sActiveSubMenu
           \/ sActiveSubMenu' = "NONE"
        /\ UNCHANGED <<macroVars, nextVars, sConfirmOverwrite>>
     \/ /\ press \cap {"A", "B"} = {}
        /\ \/ press \cap {"DLeft", "DRight"} = {}
           \/ sConfirmOverwrite \/ sActiveSubMenu = "OTHER"
        /\ UNCHANGED <<macroVars, nextVars, subMenuVars>>
  /\ UNCHANGED <<gGameState, uiVars, sInputGraceTimer, gPracticeActiveSlot,
                 radialVars, sdVars>>

-----------------------------------------------------------------------------
(* The level select and the radial menu.                                   *)

\* Practice_LaunchLevel
LaunchLevel(level, phase) ==
  /\ gNextGameState' = "PLAY"
  /\ gNextLevel' = level
  /\ gNextLevelPhase' = phase
  /\ gPracticeScreen' = "GAMEPLAY"

LevelSelectUpdate ==
  /\ gPracticeScreen = "LEVEL_SELECT" /\ sActiveSubMenu = "NONE"
  /\ \/ /\ Pressed("START")
        /\ sActiveSubMenu' = "OTHER"
        /\ UNCHANGED <<nextVars, gPracticeScreen>>
     \/ /\ ~Pressed("START") /\ Pressed("A")
        /\ \E level \in Levels, phase \in Phases : LaunchLevel(level, phase)
        /\ UNCHANGED sActiveSubMenu
     \/ /\ ~Pressed("START") /\ ~Pressed("A")
        /\ UNCHANGED <<nextVars, gPracticeScreen, sActiveSubMenu>>
  /\ UNCHANGED <<gGameState, gPracticeMenuState, sInputGraceTimer,
                 gPracticeActiveSlot, macroVars, radialVars, sConfirmOverwrite,
                 sdVars>>

Shoulder(b) == Pressed(b) /\ press \cap DPad = {}
StartHeld == sStartHoldTimer + 1
Leaving == "START" \in hold /\ StartHeld >= StartHoldFrames

MenuShoulder ==
  /\ \/ Shoulder("L") /\ CycleSlot(-1)
     \/ ~Shoulder("L") /\ Shoulder("R") /\ CycleSlot(1)
  /\ UNCHANGED <<gGameState, uiVars, nextVars, sInputGraceTimer, radialVars,
                 subMenuVars, sdVars>>

\* START held long enough: to the option menu.
MenuLeave ==
  /\ ~Shoulder("L") /\ ~Shoulder("R") /\ Leaving
  /\ sStartHoldTimer' = StartHeld
  /\ gPracticeMenuState' = "CLOSED"
  /\ gGameState' = "MENU"
  /\ UNCHANGED <<gPracticeScreen, nextVars, sInputGraceTimer, sMenuDepth, sRadialSub1,
                 gPracticeActiveSlot, subMenuVars, sdVars>>

MenuBack ==
  /\ Pressed("B")
  /\ sMenuDepth' = 0
  /\ gPracticeMenuState' = IF sMenuDepth > 0 THEN gPracticeMenuState ELSE "CLOSED"
  /\ UNCHANGED <<gGameState, gPracticeScreen, nextVars, sInputGraceTimer,
                 sRadialSub1, subMenuVars, sdVars>>

\* A on an entry of the menu.
MenuSelect(slice) ==
  \/ /\ slice = "RESTART" /\ sMenuDepth = 0
     /\ gPracticeMenuState' = "CLOSED"
     /\ sInputGraceTimer' = GraceFrames
     /\ LaunchLevel(gCurrentLevel, gLevelPhase)
     /\ UNCHANGED <<gGameState, sMenuDepth, sRadialSub1, subMenuVars, sdVars>>
  \/ /\ slice = "LEVELS" /\ sMenuDepth = 0
     /\ gPracticeMenuState' = "CLOSED"
     /\ gPracticeScreen' = "LEVEL_SELECT"
     /\ gGameState' = "MAP"
     /\ UNCHANGED <<nextVars, sInputGraceTimer, sMenuDepth, sRadialSub1,
                    subMenuVars, sdVars>>
  \/ /\ slice \in {"DISPLAY", "CHEATS", "SD"} /\ sMenuDepth = 0
     /\ sMenuDepth' = 1 /\ sRadialSub1' = slice
     /\ UNCHANGED <<gGameState, uiVars, nextVars, sInputGraceTimer, subMenuVars, sdVars>>
  \/ /\ \/ slice = "SUBMENU" /\ (sMenuDepth = 1 => sRadialSub1 = "DISPLAY")
        \/ slice = "MACRO" /\ sMenuDepth = 1 /\ sRadialSub1 = "DISPLAY"
     /\ sActiveSubMenu' = IF slice = "MACRO" THEN "MACRO" ELSE "OTHER"
     /\ UNCHANGED <<gGameState, uiVars, nextVars, sInputGraceTimer, sMenuDepth,
                    sRadialSub1, sConfirmOverwrite, sdVars>>
  \/ /\ slice \in {"SD_SAVE", "SD_LOAD"} /\ sMenuDepth = 1 /\ sRadialSub1 = "SD"
     /\ sdUi' = IF slice = "SD_SAVE" THEN "OSK" ELSE "BROWSER"
     /\ oskText' = IF slice = "SD_SAVE" THEN NoText ELSE oskText
     /\ UNCHANGED <<gGameState, uiVars, nextVars, sInputGraceTimer, sMenuDepth,
                    sRadialSub1, subMenuVars>>

\* B, A, or neither; A may be on no entry, or on one that only sets an option.
MenuButtons ==
  /\ ~Shoulder("L") /\ ~Shoulder("R") /\ ~Leaving
  /\ sStartHoldTimer' = IF "START" \in hold THEN StartHeld ELSE 0
  /\ UNCHANGED gPracticeActiveSlot
  /\ \/ MenuBack
     \/ ~Pressed("B") /\ Pressed("A") /\ \E slice \in Slices : MenuSelect(slice)
     \/ /\ ~Pressed("B")
        /\ UNCHANGED <<gGameState, uiVars, nextVars, sInputGraceTimer, sMenuDepth,
                       sRadialSub1, subMenuVars, sdVars>>

MenuUpdate ==
  /\ gPracticeScreen = "GAMEPLAY" /\ gPracticeMenuState # "CLOSED"
  /\ sActiveSubMenu = "NONE"
  /\ MenuShoulder \/ MenuLeave \/ MenuButtons
  /\ UNCHANGED macroVars

-----------------------------------------------------------------------------
(* The gameplay hotkeys.                                                   *)

\* Practice_InputTriggered: both buttons held, one of them just pressed.
Triggered(modifier, button) ==
  \/ modifier \in hold /\ Pressed(button)
  \/ button \in hold /\ Pressed(modifier)

OpensMenu == Triggered("CRight", "START")
SavesPos == ~OpensMenu /\ Triggered("L", "DLeft")
RestoresPos == ~OpensMenu /\ ~SavesPos /\ Triggered("L", "DRight")

\* Practice_Menu_OpenFrozen
MenuOpenFrozen ==
  /\ gPracticeMenuState' = "OPEN_FROZEN"
  /\ sMenuDepth' = 0 /\ sRadialSub1' = "DISPLAY" /\ sStartHoldTimer' = 0

Hotkeys ==
  /\ gPracticeScreen = "GAMEPLAY" /\ gPracticeMenuState = "CLOSED"
  /\ \/ /\ OpensMenu /\ MenuOpenFrozen
        /\ UNCHANGED <<saveVars, liveVars, nextVars>>
     \/ /\ SavesPos /\ SaveStateSlot(gPracticeActiveSlot)
        /\ UNCHANGED <<gPracticeMenuState, radialVars>>
     \/ /\ RestoresPos /\ LoadStateSlot(gPracticeActiveSlot)
        /\ UNCHANGED <<gPracticeMenuState, radialVars>>
     \/ /\ ~OpensMenu /\ ~SavesPos /\ ~RestoresPos
        /\ UNCHANGED <<gPracticeMenuState, radialVars, saveVars, liveVars, nextVars>>
  /\ UNCHANGED <<gGameState, gPracticeScreen, sInputGraceTimer, macroVars,
                 subMenuVars, sdVars>>

ScreenUpdate ==
  /\ pc = "screen" /\ pc' = "poll"
  /\ \/ /\ \/ gPracticeScreen = "LEVEL_SELECT" /\ StateMenuUpdate
           \/ gPracticeMenuState # "CLOSED" /\ StateMenuUpdate
           \/ LevelSelectUpdate
           \/ MenuUpdate
        /\ UNCHANGED <<slotVars, xloadVars, scratch, sSdCross, liveVars>>
     \/ Hotkeys
  /\ UNCHANGED <<padVars, gPlayState, sCurrentSceneId, gCurrentLevel, gNextGameStateTimer,
                 advanceVars, card>>
=============================================================================

---------------------------- MODULE PracticeMacro ----------------------------
(***************************************************************************)
(* practice_macro.c: recording the pad frame by frame, replaying it, and   *)
(* the game state a macro may be bound to.                                 *)
(*                                                                         *)
(* The frame buffer is the sequence of the frames it holds, so sMacroLen   *)
(* is its length; the frame at index i of the code is sMacroBuf[i + 1].    *)
(***************************************************************************)
EXTENDS FrameAdvance, Sequences

CONSTANT MacroCap   \* Practice_Macro_BufCapacity() (18000 frames)

ASSUME MacroAssumption == MacroCap \in Nat

VARIABLES
  sMacroState, sMacroHead, sMacroBuf,
  sPrevButton,               \* the last injected frame
  sMacroSnapValid, macroSnap,
  sMacroRestorePending,
  macroLoop, macroBindState  \* gPracticeConfig

macroVars == <<sMacroState, sMacroHead, sMacroBuf, sPrevButton, sMacroSnapValid,
               macroSnap, sMacroRestorePending, macroLoop, macroBindState>>

MacroStates == {"IDLE", "ARMED", "RECORDING", "PLAYING"}
sMacroLen == Len(sMacroBuf)

MacroTypeOK ==
  /\ sMacroState \in MacroStates
  /\ sMacroHead \in Nat
  /\ sMacroBuf \in Seq(SUBSET Buttons)
  /\ sPrevButton \in SUBSET Buttons
  /\ sMacroSnapValid \in BOOLEAN /\ sMacroRestorePending \in BOOLEAN
  /\ macroSnap \in Images \cup {Blank}
  /\ macroLoop \in BOOLEAN /\ macroBindState \in BOOLEAN

\* Practice_Macro_Init; Practice_Init clears the two options.
MacroInit ==
  /\ sMacroState = "IDLE" /\ sMacroHead = 0 /\ sMacroBuf = <<>>
  /\ sPrevButton = {}
  /\ sMacroSnapValid = FALSE /\ macroSnap = Blank
  /\ sMacroRestorePending = FALSE
  /\ macroLoop = FALSE /\ macroBindState = FALSE

IsArmed == sMacroState = "ARMED"
IsRecording == sMacroState = "RECORDING"
IsPlaying == sMacroState = "PLAYING"

-----------------------------------------------------------------------------
(* preplay: Practice_Macro_PrePlay, in a frame that is going to advance.   *)

AtSnapScene == gCurrentLevel = macroSnap.level /\ gLevelPhase = macroSnap.phase

\* Mutant: frames recorded earlier are kept behind a rewound head.
RecordFrameInserts ==
  /\ sMacroBuf' = Append(sMacroBuf, hold)
  /\ sMacroHead' = sMacroHead + 1

\* Write this frame's pad at the head; the frames after it are gone.
RecordFrame ==
  /\ sMacroBuf' = Append(SubSeq(sMacroBuf, 1, sMacroHead), hold)
  /\ sMacroHead' = sMacroHead + 1

\* Mutant: arming checks no capacity (the bug a comment of the code recalls).
AlwaysRoom == TRUE

RoomLeft == sMacroHead < MacroCap

\* Armed, the game waits for input; a fresh recording may be bound to the
\* state it starts from.
PrePlayArmed ==
  /\ IsArmed
  /\ UNCHANGED <<padVars, liveVars, nextVars, sPrevButton,
                 sMacroRestorePending, macroLoop, macroBindState>>
  /\ \/ /\ hold = {}
        /\ UNCHANGED <<sMacroState, sMacroHead, sMacroBuf, sMacroSnapValid, macroSnap>>
     \/ /\ hold # {} /\ ~RoomLeft
        /\ sMacroState' = "IDLE"
        /\ UNCHANGED <<sMacroHead, sMacroBuf, sMacroSnapValid, macroSnap>>
     \/ /\ hold # {} /\ RoomLeft
        /\ sMacroState' = "RECORDING"
        /\ RecordFrame
        /\ IF sMacroHead = 0 /\ macroBindState /\ gCurrentLevel \in Saveable
           THEN sMacroSnapValid' = TRUE /\ macroSnap' = CurrentImage
           ELSE UNCHANGED <<sMacroSnapValid, macroSnap>>

PrePlayRecording ==
  /\ IsRecording
  /\ UNCHANGED <<padVars, liveVars, nextVars, sPrevButton, sMacroSnapValid,
                 macroSnap, sMacroRestorePending, macroLoop, macroBindState>>
  /\ IF RoomLeft
     THEN RecordFrame /\ UNCHANGED sMacroState
     ELSE sMacroState' = "IDLE" /\ UNCHANGED <<sMacroHead, sMacroBuf>>

\* Mutant: the state is applied in whatever level runs.
AnyLevel == TRUE

AtSnapLevel == gCurrentLevel = macroSnap.level

\* A replay that waits for its state: apply it once its level runs.
PrePlayRestore ==
  /\ IsPlaying /\ sMacroRestorePending
  /\ IF AtSnapLevel
     THEN /\ SnapshotApplyToGame(macroSnap)
          /\ sMacroRestorePending' = FALSE
     ELSE UNCHANGED <<liveVars, sMacroRestorePending>>
  /\ UNCHANGED <<padVars, nextVars, sMacroState, sMacroHead, sMacroBuf, sPrevButton,
                 sMacroSnapValid, macroSnap, macroLoop, macroBindState>>

FreshlyPressed(f) == f \ sPrevButton

PrePlayInject ==
  /\ IsPlaying /\ ~sMacroRestorePending /\ sMacroHead < sMacroLen
  /\ LET f == sMacroBuf[sMacroHead + 1] IN
       /\ hold' = f
       /\ press' = FreshlyPressed(f)
       /\ sPrevButton' = f
  /\ sMacroHead' = sMacroHead + 1
  /\ UNCHANGED <<liveVars, nextVars, sMacroState, sMacroBuf, sMacroSnapValid,
                 macroSnap, sMacroRestorePending, macroLoop, macroBindState>>

\* The macro is bound: restore its state first, changing scene if need be.
BoundRestore ==
  IF macroBindState /\ sMacroSnapValid
  THEN /\ sMacroRestorePending' = TRUE
       /\ IF AtSnapScene THEN UNCHANGED nextVars
                         ELSE RequestLoad(macroSnap.level, macroSnap.phase)
  ELSE UNCHANGED <<sMacroRestorePending, nextVars>>

\* Mutant: at the end of the macro only the buttons are let go.
EndKeepsPlaying == UNCHANGED <<sMacroState, sMacroHead, sMacroRestorePending, nextVars>>

EndStops == /\ sMacroState' = "IDLE"
            /\ UNCHANGED <<sMacroHead, sMacroRestorePending, nextVars>>

PrePlayEnd ==
  /\ IsPlaying /\ ~sMacroRestorePending /\ sMacroHead >= sMacroLen
  /\ sPrevButton' = {}
  /\ IF macroLoop
     THEN /\ sMacroHead' = 0
          /\ BoundRestore
          /\ UNCHANGED sMacroState
     ELSE EndStops
  /\ UNCHANGED <<padVars, liveVars, sMacroBuf, sMacroSnapValid, macroSnap,
                 macroLoop, macroBindState>>

MacroPrePlay ==
  /\ pc = "preplay"
  /\ IF gPlayState # "UPDATE"
     THEN UNCHANGED <<padVars, liveVars, nextVars, macroVars>>
     ELSE \/ PrePlayArmed
          \/ PrePlayRecording
          \/ PrePlayRestore
          \/ PrePlayInject
          \/ PrePlayEnd
          \/ /\ sMacroState = "IDLE"
             /\ UNCHANGED <<padVars, liveVars, nextVars, macroVars>>
  /\ pc' = IF sMacroState' = "ARMED" THEN "draw" ELSE "main"
  /\ UNCHANGED <<gGameState, gPlayState, sCurrentSceneId, gCurrentLevel,
                 gNextGameStateTimer, uiVars, saveVars, advanceVars, sInputGraceTimer>>

-----------------------------------------------------------------------------
(* Operations of the hotkeys and of the macro menu.                        *)

\* At the end of what is recorded it appends, anywhere else it starts over.
StartRecord ==
  /\ sMacroState' = "ARMED"
  /\ sPrevButton' = {}
  /\ IF sMacroHead = sMacroLen /\ sMacroLen > 0
     THEN UNCHANGED <<sMacroHead, sMacroBuf>>
     ELSE sMacroHead' = 0 /\ sMacroBuf' = <<>>
  /\ UNCHANGED <<sMacroSnapValid, macroSnap, sMacroRestorePending, nextVars,
                 macroLoop, macroBindState>>

StopRecord ==
  /\ sMacroState' = IF IsArmed \/ IsRecording THEN "IDLE" ELSE sMacroState
  /\ UNCHANGED <<sMacroHead, sMacroBuf, sPrevButton, sMacroSnapValid, macroSnap,
                 sMacroRestorePending, nextVars, macroLoop, macroBindState>>

\* Mutants: what StartPlay sets back, without the one or the other.
HeadNotReset == UNCHANGED sMacroHead /\ sPrevButton' = {}
EdgesNotReset == sMacroHead' = 0 /\ UNCHANGED sPrevButton

FromTheStart == sMacroHead' = 0 /\ sPrevButton' = {}

StartPlay ==
  /\ IF sMacroLen = 0
     THEN UNCHANGED <<sMacroState, sMacroHead, sPrevButton, sMacroRestorePending,
                      nextVars>>
     ELSE /\ sMacroState' = "PLAYING"
          /\ FromTheStart
          /\ BoundRestore
  /\ UNCHANGED <<sMacroBuf, sMacroSnapValid, macroSnap, macroLoop, macroBindState>>

StopPlay ==
  /\ IF IsPlaying
     THEN /\ sMacroState' = "IDLE" /\ sPrevButton' = {}
          /\ sMacroRestorePending' = FALSE
     ELSE UNCHANGED <<sMacroState, sPrevButton, sMacroRestorePending>>
  /\ UNCHANGED <<sMacroHead, sMacroBuf, sMacroSnapValid, macroSnap, nextVars,
                 macroLoop, macroBindState>>

\* Mutant: back by one frame, whether there is one or not.
OneFrameBack == sMacroHead' = sMacroHead - 1 /\ sPrevButton' = {}

BackToStart == sMacroHead' = 0 /\ sPrevButton' = {}

Rewind ==
  /\ BackToStart
  /\ UNCHANGED <<sMacroState, sMacroBuf, sMacroSnapValid, macroSnap,
                 sMacroRestorePending, nextVars, macroLoop, macroBindState>>

KeptByTrim == SubSeq(sMacroBuf, 1, sMacroHead)

\* Cut the macro at the head; cutting everything forgets the bound state.
Trim ==
  /\ IF sMacroLen = 0 \/ sMacroHead > sMacroLen
     THEN UNCHANGED <<sMacroBuf, sMacroSnapValid>>
     ELSE /\ sMacroBuf' = KeptByTrim
          /\ sMacroSnapValid' = (sMacroSnapValid /\ sMacroHead > 0)
  /\ UNCHANGED <<sMacroState, sMacroHead, sPrevButton, macroSnap,
                 sMacroRestorePending, nextVars, macroLoop, macroBindState>>

ToggleLoop ==
  /\ macroLoop' = ~macroLoop
  /\ UNCHANGED <<sMacroState, sMacroHead, sMacroBuf, sPrevButton, sMacroSnapValid,
                 macroSnap, sMacroRestorePending, nextVars, macroBindState>>

ToggleBind ==
  /\ macroBindState' = ~macroBindState
  /\ UNCHANGED <<sMacroState, sMacroHead, sMacroBuf, sPrevButton, sMacroSnapValid,
                 macroSnap, sMacroRestorePending, nextVars, macroLoop>>

-----------------------------------------------------------------------------
(* macro: Practice_Macro_Update, the L hotkeys in their order.             *)

MacroKeys == <<"DUp", "DRight", "DLeft", "DDown", "START">>

\* The key that acts: the first pressed one, with L held.
MacroKey(k) ==
  /\ gGameState = "PLAY" /\ gPracticeMenuState = "CLOSED"
  /\ "L" \in hold /\ Pressed(MacroKeys[k])
  /\ \A j \in 1..(k - 1) : ~Pressed(MacroKeys[j])

MacroUpdate ==
  /\ pc = "macro" /\ pc' = "tick"
  /\ \/ MacroKey(1) /\ (IsArmed \/ IsRecording) /\ StopRecord
     \/ MacroKey(1) /\ ~(IsArmed \/ IsRecording) /\ StartRecord
     \/ MacroKey(2) /\ IsPlaying /\ StopPlay
     \/ MacroKey(2) /\ ~IsPlaying /\ StartPlay
     \/ MacroKey(3) /\ Rewind
     \/ MacroKey(4) /\ ToggleLoop
     \/ MacroKey(5) /\ StartPlay
     \/ (\A k \in 1..Len(MacroKeys) : ~MacroKey(k)) /\ UNCHANGED <<macroVars, nextVars>>
  \* L + Start is swallowed
  /\ press' = IF MacroKey(5) THEN press \ {"START"} ELSE press
  /\ UNCHANGED <<hold, gGameState, gPlayState, sCurrentSceneId, gCurrentLevel, liveVars,
                 gNextGameStateTimer, uiVars, saveVars, advanceVars, sInputGraceTimer>>
=============================================================================

------------------------- MODULE PracticeRom_proofs -------------------------
(***************************************************************************)
(* What holds of a macro, for every pad, level, buffer size and menu: the  *)
(* record head stays in the buffer, a recorded frame is the frame played,  *)
(* a replayed frame is the frame recorded, and no frame is replayed before *)
(* the state the macro is bound to is back.                                *)
(***************************************************************************)
EXTENDS PracticeRom, TLAPS

\* What was injected last is the frame under the head.
LastInjected ==
  IsPlaying => sPrevButton = IF sMacroHead = 0 THEN {} ELSE sMacroBuf[sMacroHead]

\* The part of the invariant that speaks of the macro alone.
MacroInv ==
  /\ sMacroState \in MacroStates
  /\ sMacroHead \in Nat
  /\ sMacroBuf \in Seq(SUBSET Buttons)
  /\ MacroBounds
  /\ RestoreComesFirst
  /\ LastInjected

\* The inductive invariant.
Inv ==
  /\ hold \in SUBSET Buttons
  /\ MacroInv
  /\ RecordingIsWhatIsPlayed
  /\ ReplayIsExact

-----------------------------------------------------------------------------
\* Cutting a sequence at a place inside it.
LEMMA CutAt ==
  ASSUME NEW S, NEW seq \in Seq(S), NEW n \in Nat, n <= Len(seq)
  PROVE  /\ SubSeq(seq, 1, n) \in Seq(S)
         /\ Len(SubSeq(seq, 1, n)) = n
         /\ n > 0 => SubSeq(seq, 1, n)[n] = seq[n]
  OBVIOUS

\* Recording writes one frame at the head and leaves it the last one.
LEMMA RecordFrameBounds ==
  ASSUME MacroInv, RoomLeft, hold \in SUBSET Buttons, RecordFrame
  PROVE  /\ sMacroHead' \in Nat /\ sMacroHead' > 0
         /\ sMacroBuf' \in Seq(SUBSET Buttons)
         /\ sMacroHead' = Len(sMacroBuf') /\ Len(sMacroBuf') <= MacroCap
         /\ sMacroBuf'[sMacroHead'] = hold
  <1> DEFINE cut == SubSeq(sMacroBuf, 1, sMacroHead)
  <1>1. cut \in Seq(SUBSET Buttons) /\ Len(cut) = sMacroHead
    BY CutAt DEF MacroInv, MacroBounds, sMacroLen
  <1>2. sMacroBuf' = Append(cut, hold) /\ sMacroHead' = sMacroHead + 1
    BY DEF RecordFrame
  <1>3. /\ Append(cut, hold) \in Seq(SUBSET Buttons)
        /\ Len(Append(cut, hold)) = sMacroHead + 1
        /\ Append(cut, hold)[sMacroHead + 1] = hold
    BY <1>1 DEF MacroInv
  <1>4. sMacroHead \in Nat /\ sMacroHead + 1 <= MacroCap
    BY MacroAssumption DEF MacroInv, RoomLeft
  <1> QED
    BY <1>2, <1>3, <1>4

\* The operations of the hotkeys and of the macro menu keep the macro sound.
LEMMA StartRecordInv == MacroInv /\ StartRecord => MacroInv'
  <1> SUFFICES ASSUME MacroInv, StartRecord PROVE MacroInv'
    OBVIOUS
  <1>1. sMacroState' = "ARMED"
    BY DEF StartRecord
  <1>2. CASE sMacroHead' = sMacroHead /\ sMacroBuf' = sMacroBuf
    BY <1>1, <1>2 DEF MacroInv, MacroBounds, RestoreComesFirst, LastInjected,
                      IsPlaying, MacroStates, sMacroLen
  <1>3. CASE sMacroHead' = 0 /\ sMacroBuf' = <<>>
    <2>1. Len(<<>>) = 0 /\ <<>> \in Seq(SUBSET Buttons) /\ 0 <= MacroCap
      BY MacroAssumption
    <2> QED
      BY <1>1, <1>3, <2>1 DEF MacroInv, MacroBounds, RestoreComesFirst,
                              LastInjected, IsPlaying, MacroStates, sMacroLen
  <1> QED
    BY <1>2, <1>3 DEF StartRecord

LEMMA StopRecordInv == MacroInv /\ StopRecord => MacroInv'
  BY DEF MacroInv, StopRecord, MacroBounds, RestoreComesFirst, LastInjected,
         IsPlaying, IsArmed, IsRecording, MacroStates, sMacroLen

LEMMA StartPlayInv == MacroInv /\ StartPlay => MacroInv'
  BY DEF MacroInv, StartPlay, FromTheStart, MacroBounds, RestoreComesFirst,
         LastInjected, IsPlaying, MacroStates, sMacroLen

LEMMA StopPlayInv == MacroInv /\ StopPlay => MacroInv'
  BY DEF MacroInv, StopPlay, MacroBounds, RestoreComesFirst, LastInjected,
         IsPlaying, MacroStates, sMacroLen

LEMMA RewindInv == MacroInv /\ Rewind => MacroInv'
  BY DEF MacroInv, Rewind, BackToStart, MacroBounds, RestoreComesFirst,
         LastInjected, IsPlaying, MacroStates, sMacroLen

LEMMA TrimInv == MacroInv /\ Trim => MacroInv'
  <1> SUFFICES ASSUME MacroInv, Trim PROVE MacroInv'
    OBVIOUS
  <1>1. CASE sMacroBuf' = sMacroBuf
    BY <1>1 DEF MacroInv, Trim, MacroBounds, RestoreComesFirst, LastInjected,
                IsPlaying, sMacroLen
  <1>2. CASE sMacroBuf' = SubSeq(sMacroBuf, 1, sMacroHead)
    <2>1. /\ sMacroBuf' \in Seq(SUBSET Buttons)
          /\ Len(sMacroBuf') = sMacroHead
          /\ sMacroHead > 0 => sMacroBuf'[sMacroHead] = sMacroBuf[sMacroHead]
      BY <1>2, CutAt DEF MacroInv, MacroBounds, sMacroLen
    <2>2. UNCHANGED <<sMacroState, sMacroHead, sPrevButton, sMacroRestorePending>>
      BY DEF Trim
    <2>3. sMacroHead \in Nat /\ sMacroHead <= MacroCap
      BY MacroAssumption DEF MacroInv, MacroBounds, sMacroLen
    <2>4. MacroBounds' /\ RestoreComesFirst'
      BY <2>1, <2>2, <2>3 DEF MacroInv, MacroBounds, RestoreComesFirst, IsPlaying,
                              sMacroLen
    <2>5. LastInjected'
      BY <2>1, <2>2, <2>3 DEF MacroInv, LastInjected, IsPlaying
    <2> QED
      BY <2>1, <2>2, <2>4, <2>5 DEF MacroInv
  <1> QED
    BY <1>1, <1>2 DEF Trim, KeptByTrim

LEMMA ToggleLoopInv == MacroInv /\ ToggleLoop => MacroInv'
  BY DEF MacroInv, ToggleLoop, MacroBounds, RestoreComesFirst, LastInjected,
         IsPlaying, sMacroLen

LEMMA ToggleBindInv == MacroInv /\ ToggleBind => MacroInv'
  BY DEF MacroInv, ToggleBind, MacroBounds, RestoreComesFirst, LastInjected,
         IsPlaying, sMacroLen

LEMMA MacroUnchanged == MacroInv /\ UNCHANGED macroVars => MacroInv'
  BY DEF MacroInv, macroVars, MacroBounds, RestoreComesFirst, LastInjected,
         IsPlaying, sMacroLen

-----------------------------------------------------------------------------
(* Practice_Macro_PrePlay, with what it leaves for Play_Main.              *)

LEMMA PrePlayArmedInv ==
  ASSUME Inv, PrePlayArmed PROVE Inv'
  <1>1. /\ UNCHANGED <<hold, sPrevButton, sMacroRestorePending>>
        /\ sMacroState' # "PLAYING" /\ sMacroState' \in MacroStates
    BY DEF PrePlayArmed, padVars, Inv, MacroInv, IsArmed, MacroStates
  <1>2. CASE UNCHANGED <<sMacroHead, sMacroBuf>> /\ sMacroState' # "RECORDING"
    BY <1>1, <1>2 DEF Inv, MacroInv, MacroBounds, RestoreComesFirst, LastInjected,
                RecordingIsWhatIsPlayed, ReplayIsExact, IsPlaying, IsRecording,
                sMacroLen
  <1>3. CASE RoomLeft /\ RecordFrame
    BY <1>1, <1>3, RecordFrameBounds
    DEF Inv, MacroInv, MacroBounds, RestoreComesFirst, LastInjected,
        RecordingIsWhatIsPlayed, ReplayIsExact, IsPlaying, sMacroLen
  <1> QED
    BY <1>2, <1>3 DEF PrePlayArmed, IsArmed

LEMMA PrePlayRecordingInv ==
  ASSUME Inv, PrePlayRecording PROVE Inv'
  <1>1. /\ UNCHANGED <<hold, sPrevButton, sMacroRestorePending>>
        /\ sMacroState' # "PLAYING" /\ sMacroState' \in MacroStates
    BY DEF PrePlayRecording, padVars, Inv, MacroInv, IsRecording, MacroStates
  <1>2. CASE UNCHANGED <<sMacroHead, sMacroBuf>> /\ sMacroState' # "RECORDING"
    BY <1>1, <1>2 DEF Inv, MacroInv, MacroBounds, RestoreComesFirst, LastInjected,
                RecordingIsWhatIsPlayed, ReplayIsExact, IsPlaying, IsRecording,
                sMacroLen
  <1>3. CASE RoomLeft /\ RecordFrame
    BY <1>1, <1>3, RecordFrameBounds
    DEF Inv, MacroInv, MacroBounds, RestoreComesFirst, LastInjected,
        RecordingIsWhatIsPlayed, ReplayIsExact, IsPlaying, sMacroLen
  <1> QED
    BY <1>2, <1>3 DEF PrePlayRecording

LEMMA PrePlayRestoreInv ==
  ASSUME Inv, PrePlayRestore PROVE Inv'
  <1>1. /\ UNCHANGED <<hold, press, sMacroState, sMacroHead, sMacroBuf, sPrevButton>>
        /\ sMacroState = "PLAYING" /\ sMacroHead = 0
    BY DEF PrePlayRestore, padVars, IsPlaying, Inv, MacroInv, RestoreComesFirst
  <1> QED
    BY <1>1 DEF Inv, MacroInv, MacroBounds, RestoreComesFirst, LastInjected,
                RecordingIsWhatIsPlayed, ReplayIsExact, IsPlaying, IsRecording,
                sMacroLen

LEMMA PrePlayInjectInv ==
  ASSUME Inv, PrePlayInject PROVE Inv'
  <1> DEFINE f == sMacroBuf[sMacroHead + 1]
  <1>1. /\ sMacroHead + 1 \in 1..Len(sMacroBuf) /\ f \in SUBSET Buttons
        /\ sMacroHead \in Nat
    BY DEF Inv, MacroInv, MacroBounds, PrePlayInject, sMacroLen
  <1>2. /\ hold' = f /\ press' = f \ sPrevButton /\ sPrevButton' = f
        /\ sMacroHead' = sMacroHead + 1
        /\ UNCHANGED <<sMacroState, sMacroBuf, sMacroRestorePending>>
        /\ sMacroState = "PLAYING" /\ ~sMacroRestorePending
    BY DEF PrePlayInject, FreshlyPressed, IsPlaying
  <1>3. sPrevButton = IF sMacroHead = 0 THEN {} ELSE sMacroBuf[sMacroHead]
    BY <1>2 DEF Inv, MacroInv, LastInjected, IsPlaying
  <1>4. MacroInv'
    BY <1>1, <1>2 DEF Inv, MacroInv, MacroBounds, RestoreComesFirst, LastInjected,
                      IsPlaying, sMacroLen
  <1>5. RecordingIsWhatIsPlayed'
    BY <1>2 DEF RecordingIsWhatIsPlayed, IsRecording
  <1>6. ReplayIsExact'
    BY <1>1, <1>2, <1>3 DEF ReplayIsExact
  <1> QED
    BY <1>1, <1>2, <1>4, <1>5, <1>6 DEF Inv

LEMMA PrePlayEndInv ==
  ASSUME Inv, PrePlayEnd PROVE Inv'
  <1>1. /\ UNCHANGED <<hold, press, sMacroBuf>> /\ sPrevButton' = {}
    BY DEF PrePlayEnd, padVars
  <1>2. CASE sMacroState' = "IDLE" /\ UNCHANGED sMacroHead
    BY <1>1, <1>2 DEF Inv, MacroInv, MacroBounds, RestoreComesFirst, LastInjected,
                RecordingIsWhatIsPlayed, ReplayIsExact, IsPlaying, IsRecording,
                MacroStates, sMacroLen
  <1>3. CASE sMacroHead' = 0 /\ UNCHANGED sMacroState
    BY <1>1, <1>3 DEF Inv, MacroInv, MacroBounds, RestoreComesFirst, LastInjected,
                RecordingIsWhatIsPlayed, ReplayIsExact, IsPlaying, IsRecording,
                PrePlayEnd, sMacroLen
  <1> QED
    BY <1>2, <1>3 DEF PrePlayEnd, EndStops

-----------------------------------------------------------------------------
(* The other steps leave the macro alone or use one of its operations.     *)

\* A step that does not lead to Play_Main and keeps the macro sound.
LEMMA OtherStepInv ==
  ASSUME MacroInv', hold' \in SUBSET Buttons, pc' # "main" PROVE Inv'
  BY DEF Inv, RecordingIsWhatIsPlayed, ReplayIsExact

LEMMA PollInv == Inv /\ PollStep => Inv'
  <1> SUFFICES ASSUME Inv, PollStep PROVE Inv'
    OBVIOUS
  <1>1. pc' # "main" /\ UNCHANGED macroVars
    BY DEF PollStep, Poll, practiceVars
  <1>2. hold' \in SUBSET Buttons
    BY PadsAssumption DEF PollStep, Poll, ControllerUpdateInput
  <1> QED
    BY <1>1, <1>2, MacroUnchanged, OtherStepInv DEF Inv

\* The gate lets another game state through to main; a level comes to preplay.
LEMMA GateInv == Inv /\ GateStep => Inv'
  <1> SUFFICES ASSUME Inv, GateStep PROVE Inv'
    OBVIOUS
  <1>1. UNCHANGED <<macroVars, gGameState>>
    BY DEF GateStep
  <1>2. MacroInv'
    BY <1>1, MacroUnchanged DEF Inv
  <1>3. hold' \in SUBSET Buttons
    BY DEF Inv, GateStep, Gate, Release
  <1>4. CASE pc' = "main"
    <2>1. ~Running'
      BY <1>1, <1>4 DEF GateStep, Gate, Running
    <2> QED
      BY <1>2, <1>3, <2>1 DEF Inv, RecordingIsWhatIsPlayed, ReplayIsExact
  <1>5. CASE pc' # "main"
    BY <1>2, <1>3, <1>5, OtherStepInv
  <1> QED
    BY <1>4, <1>5

LEMMA PrePlayInv == Inv /\ PrePlayStep => Inv'
  <1> SUFFICES ASSUME Inv, PrePlayStep PROVE Inv'
    OBVIOUS
  <1>1. CASE gPlayState # "UPDATE"
    <2>1. UNCHANGED <<hold, macroVars, gPlayState>>
      BY <1>1 DEF PrePlayStep, MacroPrePlay, padVars
    <2>2. MacroInv' /\ ~Running'
      BY <1>1, <2>1, MacroUnchanged DEF Inv, Running
    <2> QED
      BY <2>1, <2>2 DEF Inv, RecordingIsWhatIsPlayed, ReplayIsExact
  <1>2. CASE PrePlayArmed
    BY <1>2, PrePlayArmedInv
  <1>3. CASE PrePlayRecording
    BY <1>3, PrePlayRecordingInv
  <1>4. CASE PrePlayRestore
    BY <1>4, PrePlayRestoreInv
  <1>5. CASE PrePlayInject
    BY <1>5, PrePlayInjectInv
  <1>6. CASE PrePlayEnd
    BY <1>6, PrePlayEndInv
  <1>7. CASE sMacroState = "IDLE" /\ UNCHANGED <<padVars, macroVars>>
    <2>1. MacroInv' /\ sMacroState' = "IDLE" /\ hold' = hold
      BY <1>7, MacroUnchanged DEF Inv, macroVars, padVars
    <2> QED
      BY <2>1 DEF Inv, RecordingIsWhatIsPlayed, ReplayIsExact, IsRecording, IsPlaying
  <1> QED
    BY <1>1, <1>2, <1>3, <1>4, <1>5, <1>6, <1>7 DEF PrePlayStep, MacroPrePlay

LEMMA MacroStepInv == Inv /\ MacroStep => Inv'
  <1> SUFFICES ASSUME Inv, MacroStep PROVE Inv'
    OBVIOUS
  <1>1. \/ StopRecord \/ StartRecord \/ StopPlay \/ StartPlay \/ Rewind
        \/ ToggleLoop \/ UNCHANGED macroVars
    BY DEF MacroStep, MacroUpdate
  <1>2. MacroInv'
    BY <1>1, StopRecordInv, StartRecordInv, StopPlayInv, StartPlayInv, RewindInv,
       ToggleLoopInv, MacroUnchanged DEF Inv
  <1>3. pc' # "main" /\ hold' = hold
    BY DEF MacroStep, MacroUpdate
  <1> QED
    BY <1>2, <1>3, OtherStepInv DEF Inv

\* One entry of the macro menu.
LEMMA MacroOptionInv ==
  ASSUME MacroInv, NEW option \in OptionKinds, MacroOption(option)
  PROVE  MacroInv'
  <1>1. \/ StopRecord \/ StartRecord \/ StopPlay \/ StartPlay \/ Rewind
        \/ Trim \/ ToggleLoop \/ ToggleBind \/ UNCHANGED macroVars
    <2>1. CASE option = "RECORD"
      <3>1. \/ IsArmed \/ IsRecording
            \/ ~(IsArmed \/ IsRecording) /\ sMacroHead < sMacroLen
            \/ ~(IsArmed \/ IsRecording) /\ sMacroHead >= sMacroLen
        BY DEF MacroInv, MacroBounds, sMacroLen
      <3> QED
        BY <2>1, <3>1 DEF MacroOption
    <2>2. CASE option # "RECORD"
      BY <2>2 DEF MacroOption, OptionKinds
    <2> QED
      BY <2>1, <2>2
  <1> QED
    BY <1>1, StopRecordInv, StartRecordInv, StopPlayInv, StartPlayInv, RewindInv,
       TrimInv, ToggleLoopInv, ToggleBindInv, MacroUnchanged

LEMMA ScreenInv == Inv /\ ScreenUpdate => Inv'
  <1> SUFFICES ASSUME Inv, ScreenUpdate PROVE Inv'
    OBVIOUS
  <1>1. pc' # "main" /\ hold' = hold
    BY DEF ScreenUpdate, padVars
  <1>2. CASE StateMenuUpdate
    <2>1. \/ UNCHANGED macroVars
          \/ StartRecord
          \/ \E option \in MacroOptions : MacroOption(option)
      BY <1>2 DEF StateMenuUpdate
    <2>2. MacroInv'
      BY <2>1, MacroUnchanged, StartRecordInv, MacroOptionInv, MenuAssumption DEF Inv
    <2> QED
      BY <1>1, <2>2, OtherStepInv DEF Inv
  <1>3. CASE UNCHANGED macroVars
    BY <1>1, <1>3, MacroUnchanged, OtherStepInv DEF Inv
  <1>4. StateMenuUpdate \/ UNCHANGED macroVars
    BY DEF ScreenUpdate, LevelSelectUpdate, MenuUpdate, Hotkeys
  <1> QED
    BY <1>2, <1>3, <1>4

\* Play_Main, Game_Draw, frame advance and the save states, and the SD dialogs.
LEMMA RestInv ==
  Inv /\ (\/ MainStep \/ DrawStep \/ AdvanceStep
          \/ SdUpdate \/ TickStep \/ SdTickStep) => Inv'
  <1> SUFFICES ASSUME Inv, \/ MainStep \/ DrawStep \/ AdvanceStep
                           \/ SdUpdate \/ TickStep \/ SdTickStep
               PROVE  Inv'
    OBVIOUS
  <1>1. pc' # "main" /\ hold' = hold /\ UNCHANGED macroVars
    BY DEF MainStep, PlayMain, OtherScreen, DrawStep, GameDraw, practiceVars,
           AdvanceStep, FrameAdvanceUpdate, SdUpdate, TickStep, SdTickStep, padVars
  <1> QED
    BY <1>1, MacroUnchanged, OtherStepInv DEF Inv

-----------------------------------------------------------------------------
LEMMA InitInv == Init => Inv
  BY MacroAssumption
  DEF Init, EngineInit, MacroInit, Inv, MacroInv, MacroBounds, RestoreComesFirst,
      LastInjected, RecordingIsWhatIsPlayed, ReplayIsExact, IsPlaying, IsRecording,
      MacroStates, sMacroLen, Buttons

LEMMA StutterInv == Inv /\ UNCHANGED vars => Inv'
  BY DEF Inv, MacroInv, MacroBounds, RestoreComesFirst, LastInjected,
         RecordingIsWhatIsPlayed, ReplayIsExact, IsPlaying, IsRecording, Running,
         sMacroLen, vars, engineVars, padVars, uiVars, macroVars

LEMMA StepInv == Inv /\ [Next]_vars => Inv'
  BY PollInv, GateInv, PrePlayInv, MacroStepInv, ScreenInv, RestInv, StutterInv
  DEF Next, SaveOrDialog

\* The invariant of the proofs holds in every reachable state.
THEOREM InvHolds == Spec => []Inv
  BY InitInv, StepInv, PTL DEF Spec

\* For every buffer size and every sequence of hotkeys, menu entries, pauses and
\* level changes, head and length of the macro stay inside the frame buffer:
\* Practice_Macro_PrePlay never writes or reads past its end.
THEOREM MacroBoundsHolds == Spec => []MacroBounds
  <1>1. Inv => MacroBounds
    BY DEF Inv, MacroInv
  <1> QED
    BY <1>1, InvHolds, PTL

\* What a recording stores is what the game is played with.
THEOREM RecordingHolds == Spec => []RecordingIsWhatIsPlayed
  <1>1. Inv => RecordingIsWhatIsPlayed
    BY DEF Inv
  <1> QED
    BY <1>1, InvHolds, PTL

\* A replay gives the game the recorded buttons and their edges, however it was
\* started, rewound, trimmed or looped before.
THEOREM ReplayHolds == Spec => []ReplayIsExact
  <1>1. Inv => ReplayIsExact
    BY DEF Inv
  <1> QED
    BY <1>1, InvHolds, PTL

\* A bound replay gives out no frame before its state has been restored.
THEOREM RestoreFirstHolds == Spec => []RestoreComesFirst
  <1>1. Inv => RestoreComesFirst
    BY DEF Inv, MacroInv
  <1> QED
    BY <1>1, InvHolds, PTL

-----------------------------------------------------------------------------
(* Where a bound state is put back.                                        *)

\* The gate leads to Practice_Macro_PrePlay in a level, and under no menu.
PrePlayScene ==
  pc = "preplay" => gGameState = "PLAY" /\ gPracticeMenuState = "CLOSED"

\* A step after which the bound state still waits, or nothing is replayed.
StillWaits == IsPlaying /\ sMacroRestorePending => sMacroRestorePending' \/ ~IsPlaying'

LEMMA PrePlaySceneHolds == Spec => []PrePlayScene
  <1>1. Init => PrePlayScene
    BY DEF Init, EngineInit, PrePlayScene
  <1>2. ASSUME PrePlayScene, [Next]_vars PROVE PrePlayScene'
    <2>1. CASE GateStep
      BY <2>1 DEF GateStep, Gate, uiVars, PrePlayScene
    <2>2. CASE UNCHANGED vars
      BY <1>2, <2>2 DEF vars, engineVars, uiVars, PrePlayScene
    <2>3. CASE pc' # "preplay"
      BY <2>3 DEF PrePlayScene
    <2>4. ASSUME Next, ~GateStep PROVE pc' # "preplay"
      BY <2>4 DEF Next, SaveOrDialog, PollStep, Poll, PrePlayStep, MacroPrePlay, MainStep,
         PlayMain,
                  OtherScreen, DrawStep, GameDraw, AdvanceStep, FrameAdvanceUpdate,
                  MacroStep, MacroUpdate, SdUpdate, TickStep, SdTickStep, ScreenUpdate
    <2> QED
      BY <1>2, <2>1, <2>2, <2>3, <2>4
  <1> QED
    BY <1>1, <1>2, PTL DEF Spec

\* No operation of the hotkeys or of the menu gives a waiting state up and plays on.
LEMMA OperationWaits ==
  ASSUME \/ StopRecord \/ StartRecord \/ StopPlay \/ StartPlay \/ Rewind
         \/ Trim \/ ToggleLoop \/ ToggleBind \/ UNCHANGED macroVars
  PROVE  StillWaits
  <1>1. CASE StopPlay
    BY <1>1 DEF StopPlay, StillWaits, IsPlaying
  <1>2. CASE StartPlay
    BY <1>2 DEF StartPlay, BoundRestore, StillWaits, IsPlaying
  <1>3. CASE UNCHANGED sMacroRestorePending
    BY <1>3 DEF StillWaits
  <1>4. StopPlay \/ StartPlay \/ UNCHANGED sMacroRestorePending
    BY DEF StopRecord, StartRecord, Rewind, Trim, ToggleLoop, ToggleBind, macroVars
  <1> QED
    BY <1>1, <1>2, <1>3, <1>4

LEMMA OtherStepsWait ==
  ASSUME Inv, Next, ~PrePlayStep PROVE StillWaits
  <1>1. CASE MacroStep
    BY <1>1, OperationWaits DEF MacroStep, MacroUpdate
  <1>2. CASE ScreenUpdate
    <2>1. CASE StateMenuUpdate
      <3>1. ASSUME NEW option \in MacroOptions, MacroOption(option)
            PROVE  StillWaits
        <4>1. CASE option = "RECORD"
          <5>1. \/ IsArmed \/ IsRecording
                \/ ~(IsArmed \/ IsRecording) /\ sMacroHead < sMacroLen
                \/ ~(IsArmed \/ IsRecording) /\ sMacroHead >= sMacroLen
            BY DEF Inv, MacroInv, MacroBounds, sMacroLen
          <5> QED
            BY <3>1, <4>1, <5>1, OperationWaits DEF MacroOption
        <4>2. CASE option # "RECORD"
          BY <3>1, <4>2, OperationWaits, MenuAssumption DEF MacroOption, OptionKinds
        <4> QED
          BY <4>1, <4>2
      <3>2. CASE UNCHANGED macroVars \/ StartRecord
        BY <3>2, OperationWaits
      <3> QED
        BY <2>1, <3>1, <3>2 DEF StateMenuUpdate
    <2>2. CASE UNCHANGED macroVars
      BY <2>2, OperationWaits
    <2>3. StateMenuUpdate \/ UNCHANGED macroVars
      BY <1>2 DEF ScreenUpdate, LevelSelectUpdate, MenuUpdate, Hotkeys
    <2> QED
      BY <2>1, <2>2, <2>3
  <1>3. CASE UNCHANGED macroVars
    BY <1>3, OperationWaits
  <1>4. MacroStep \/ ScreenUpdate \/ UNCHANGED macroVars
    BY DEF Next, SaveOrDialog, PollStep, Poll, practiceVars, GateStep, MainStep, DrawStep,
           AdvanceStep, FrameAdvanceUpdate, SdUpdate, TickStep, SdTickStep
  <1> QED
    BY <1>1, <1>2, <1>3, <1>4

\* A replay's state is put back whole, and only into its own level while that runs:
\* Practice_Macro_PrePlay waits for it, and nothing the player does in between -
\* rewinding, trimming, unbinding, another level - lets the replay go on without it.
THEOREM RestoreMeetsSceneHolds == Spec => RestoreMeetsScene
  <1> DEFINE Step == IsPlaying /\ sMacroRestorePending /\ ~sMacroRestorePending'
                       /\ IsPlaying' =>
                       /\ Running /\ gCurrentLevel = macroSnap.level
                       /\ <<gLevelPhase, gGameFrameCount, game.world>>' =
                            <<macroSnap.phase, macroSnap.frame, macroSnap.world>>
  <1>1. ASSUME Inv, PrePlayScene, [Next]_vars PROVE [Step]_vars
    <2>1. CASE PrePlayStep
      <3>1. CASE PrePlayRestore /\ gPlayState = "UPDATE"
        <4>1. pc = "preplay"
          BY <2>1 DEF PrePlayStep, MacroPrePlay
        <4>2. Running
          BY <1>1, <3>1, <4>1 DEF PrePlayScene, Running
        <4>3. CASE AtSnapLevel
          BY <3>1, <4>2, <4>3 DEF PrePlayRestore, AtSnapLevel, SnapshotApplyToGame
        <4>4. CASE ~AtSnapLevel
          BY <3>1, <4>4 DEF PrePlayRestore
        <4> QED
          BY <4>3, <4>4
      <3>2. CASE ~(PrePlayRestore /\ gPlayState = "UPDATE")
        <4>1. StillWaits
          BY <2>1, <3>2 DEF PrePlayStep, MacroPrePlay, PrePlayArmed, PrePlayRecording,
                            PrePlayInject, PrePlayEnd, macroVars, StillWaits
        <4> QED
          BY <4>1 DEF StillWaits
      <3> QED
        BY <3>1, <3>2
    <2>2. CASE Next /\ ~PrePlayStep
      BY <1>1, <2>2, OtherStepsWait DEF StillWaits
    <2>3. CASE UNCHANGED vars
      BY <2>3
    <2> QED
      BY <1>1, <2>1, <2>2, <2>3
  <1> QED
    BY <1>1, InvHolds, PrePlaySceneHolds, PTL DEF Spec, RestoreMeetsScene
=============================================================================

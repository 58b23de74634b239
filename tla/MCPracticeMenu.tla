--------------------------- MODULE MCPracticeMenu ---------------------------
(***************************************************************************)
(* The practice menu, in the hands of a player who uses its macros or its  *)
(* save files, but not both.  Each is explored to the end; the theorems    *)
(* about them hold for a player who mixes them.                            *)
(***************************************************************************)
EXTENDS PracticeRom

VARIABLE use

\* The menus and dialogs; the hotkeys that save, load and change slots.
MacroPads == {{}, {"A"}, {"B"}, {"Z"}, {"CRight", "START"}}
FilePads == {{}, {"A"}, {"R"}, {"CRight", "START"}, {"L", "DLeft"}, {"L", "DRight"}}
MenuPads == MacroPads \cup FilePads

\* A file written in an earlier launch.
OldFile == [level |-> "CO", phase |-> 0, frame |-> 0, world |-> "w1", fresh |-> FALSE]
OldFiles == {OldFile}

\* With macros the card stays empty and no name is typed.
MacroUse == /\ hold \in MacroPads
            /\ oskText = NoText /\ \A name \in Names : card[name] = NoFile

\* With files the macro menu stays closed.
FileUse == /\ hold \in FilePads
           /\ sActiveSubMenu # "MACRO" /\ (sMenuDepth = 1 => sRadialSub1 = "SD")

Habit == IF use = "macros" THEN MacroUse ELSE FileUse

\* Bound: a player who uses files goes to another level by a load only.
StaysInLevels ==
  use = "files" /\ gPracticeScreen = "GAMEPLAY" => gPracticeScreen' = "GAMEPLAY"

UseInit == Init /\ use \in {"macros", "files"} /\ Habit
UseNext == Next /\ UNCHANGED use /\ Habit' /\ StaysInLevels
UseSpec == UseInit /\ [][UseNext]_<<vars, use>>
=============================================================================

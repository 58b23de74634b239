--------------------------- MODULE MCPracticeRom ---------------------------
(***************************************************************************)
(* Instances of PracticeRom for TLC: the buttons, slots and menu entries   *)
(* each run offers the player.                                             *)
(***************************************************************************)
EXTENDS PracticeRom

\* Macro hotkeys and one game button.
MacroPads == {{}, {"A"}, {"DDown"}, {"L", "DUp"}, {"L", "DRight"}, {"L", "DLeft"},
              {"L", "DDown"}, {"L", "START"}}

\* D-pad saves and loads, the vanilla pause.
SavePads == {{}, {"A"}, {"DLeft"}, {"DRight"}, {"START"}}

\* A save, and a load from the card, of a player who then leaves the level.
LeavePads == {{}, {"A"}, {"CRight", "START"}, {"L", "DLeft"}}

\* A file of this very build, at the same addresses.
CurrentFile == [level |-> "VE", phase |-> 0, frame |-> 0, world |-> "w1", fresh |-> TRUE]
CurrentFiles == {CurrentFile}
=============================================================================

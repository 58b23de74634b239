------------------------------ MODULE MCSlotFile ------------------------------
(***************************************************************************)
(* SlotFile with the directory as it was before the call that is running.  *)
(***************************************************************************)
EXTENDS SlotFile

VARIABLE before   \* history: shelf when the last call began

HistoryInit == Init /\ before = shelf

HistoryNext == Next /\ before' = IF step = "idle" THEN shelf ELSE before

HistorySpec == HistoryInit /\ [][HistoryNext]_<<vars, before>>

\* slot_manager.c:384-386: "If the ROM crashes mid-write, the user keeps their
\* previous save instead of getting a half-finished one."  After a power cycle
\* (slot 0 is empty) a name that had a save when the call began still has one.
PreviousSaveKept ==
  step = "idle" /\ slot0 = Nothing =>
    \A n \in Names : before[n] # NoFile => shelf[n] # NoFile
=============================================================================

--------------------------- MODULE MCFrameAdvance ---------------------------
(***************************************************************************)
(* Frame advance, with two history variables: for how many frames D-Up has *)
(* been held in a level, and how many game frames have run since it went   *)
(* down.                                                                   *)
(***************************************************************************)
EXTENDS PracticeRom

VARIABLES held, ran

\* The frame-advance keys, the pause and the practice menu.
\* D-Up is not pressed in one frame with D-Right: see README, "Limits of what
\* holds".
AdvancePads == {{}, {"A"}, {"B"}, {"R"}, {"DUp"}, {"DDown"}, {"DLeft"},
                {"DRight"}, {"START"}, {"CRight", "START"},
                {"DUp", "CRight", "START"}}

\* Bound: the history stops counting once three repeats are behind it.
HistoryCap == RepeatDelay + 3 * RepeatRate

HistoryInit == Init /\ held = 0 /\ ran = 0

\* D-Up went down at this poll, or has stayed down since it did.  A press in a
\* frame in which only the pad is read (the scene changes), or outside a level,
\* is never seen.
HeldNow ==
  IF pc' = "poll" \/ {gGameState, gGameState'} # {"PLAY"} \/ "DUp" \notin hold' THEN 0
  ELSE IF "DUp" \notin hold THEN 1
  ELSE IF held = 0 THEN 0 ELSE IF held < HistoryCap THEN held + 1 ELSE held

HistoryNext ==
  /\ Next
  /\ held' = IF pc = "poll" THEN HeldNow ELSE held
  /\ ran' = CASE held' = 0 \/ (pc = "advance" /\ held = 1) -> 0
              [] pc = "gate" /\ pc' = "preplay" /\ ran < HistoryCap -> ran + 1
              [] OTHER -> ran

HistorySpec == HistoryInit /\ [][HistoryNext]_<<vars, held, ran>>

\* What the header of practice_frame_advance.c promises of D-Up: the first
\* press pauses, or steps one frame where the game is paused; held past the
\* delay it steps one frame every RepeatRate frames, no more and no less.
StepCadence ==
  pc = "poll" /\ sIsPaused /\ held > 0 /\ held < HistoryCap =>
    LET beyond == IF held > RepeatDelay THEN held - RepeatDelay ELSE 0
        repeats == beyond \div RepeatRate
    IN ran \in {repeats, repeats + 1}

\* A step belongs to the press that asked for it: once a frame has run with D-Up
\* up, no queued step is left to run later, whatever menu, pause or level change
\* came between.
NoStepLeftBehind == pc = "macro" /\ "DUp" \notin hold => sQueuedFrameSteps = 0
=============================================================================

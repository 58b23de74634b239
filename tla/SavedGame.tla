------------------------------ MODULE SavedGame ------------------------------
(***************************************************************************)
(* What the EEPROM save promises: one stored save, replaced as a whole by  *)
(* the one the game asks for, and lost only when it was not safe before.   *)
(***************************************************************************)
CONSTANTS Saves, Unsaved

VARIABLES
  stored,   \* the save the next boot finds
  wanted,   \* the save the game is waiting to see written
  safe      \* whether stored survives whatever happens next

vars == <<stored, wanted, safe>>

Init ==
  /\ stored \in Saves \cup {Unsaved}
  /\ wanted = Unsaved
  /\ safe \in BOOLEAN

Ask(d) == wanted' = d /\ stored' = stored

Commit == wanted # Unsaved /\ stored' = wanted /\ wanted' = wanted

\* The call is over, or the console restarts.
End == wanted' = Unsaved /\ stored' \in {stored, wanted} \ {Unsaved}

Degrade == UNCHANGED <<stored, wanted>>

Lose ==
  /\ ~safe
  /\ stored' \in Saves \cup {Unsaved}
  /\ wanted' \in {wanted, Unsaved}

Next == safe' \in BOOLEAN /\ (Commit \/ End \/ Degrade \/ Lose \/ \E d \in Saves : Ask(d))

Spec == Init /\ [][Next]_vars
=============================================================================

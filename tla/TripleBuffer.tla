---------------------------- MODULE TripleBuffer ----------------------------
(***************************************************************************)
(* What the console promises of its three frame buffers: the frames are    *)
(* drawn into them in turn, every finished one is shown, in the order of   *)
(* drawing and for a vertical interrupt at least, and none is drawn over   *)
(* that is shown or about to be.                                           *)
(***************************************************************************)
EXTENDS Naturals

CONSTANT FillBuffer  \* what is shown before the first frame

VARIABLES
  drawing,  \* the buffer that is drawn into, in a set; or the empty set
  done,     \* that of the last finished frame
  next,     \* that of the frame to show from the next interrupt on
  shown     \* that on the screen

vars == <<drawing, done, next, shown>>

Following(b) == IF b = FillBuffer THEN 0 ELSE (b + 1) % 3

Init ==
  /\ drawing = {}
  /\ done = FillBuffer /\ next = FillBuffer /\ shown = FillBuffer

Draw ==
  /\ drawing = {} /\ Following(done) \notin {next, shown}
  /\ drawing' = {Following(done)}
  /\ UNCHANGED <<done, next, shown>>

Finish ==
  /\ drawing = {Following(done)}
  /\ drawing' = {} /\ done' = Following(done)
  /\ UNCHANGED <<next, shown>>

\* The frame before is on the screen, and this one is finished.
Swap ==
  /\ next = shown /\ next # done
  /\ next' = Following(next)
  /\ UNCHANGED <<drawing, done, shown>>

Show == shown' = next /\ UNCHANGED <<drawing, done, next>>

Next == Draw \/ Finish \/ Swap \/ Show

Spec == Init /\ [][Next]_vars
=============================================================================

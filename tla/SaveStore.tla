------------------------------ MODULE SaveStore ------------------------------
(***************************************************************************)
(* What the save directory of the SD card promises to whoever reads it,    *)
(* whatever happens to the console while a save is being written: a name   *)
(* holds a whole save or nothing.  It changes only while a save under that *)
(* name is asked for, and no sooner than the save asked for is whole on    *)
(* the card, as the name's spare; then the previous save is cleared and    *)
(* the spare takes its place.                                              *)
(***************************************************************************)
CONSTANTS Names, Saves, NoFile

VARIABLES
  shelf,     \* what each name holds
  spare,     \* the whole save beside it, if there is one
  request    \* the save that is being written

svars == <<shelf, spare, request>>

NoRequest == [none |-> TRUE]
Requests == [name : Names, save : Saves]

Contents == Saves \cup {NoFile}

StoreTypeOK ==
  /\ shelf \in [Names -> Contents] /\ spare \in [Names -> Contents]
  /\ request \in Requests \cup {NoRequest}

StoreInit ==
  /\ shelf \in [Names -> Contents] /\ spare \in [Names -> Contents]
  /\ request = NoRequest

Ask ==
  /\ request = NoRequest
  /\ request' \in Requests
  /\ UNCHANGED <<shelf, spare>>

\* A spare of an earlier save gives way to the one asked for.
Scrap ==
  /\ request # NoRequest
  /\ spare' = [spare EXCEPT ![request.name] = NoFile]
  /\ UNCHANGED <<shelf, request>>

Write ==
  /\ request # NoRequest
  /\ spare' = [spare EXCEPT ![request.name] = request.save]
  /\ UNCHANGED <<shelf, request>>

SpareIsWhole == request # NoRequest /\ spare[request.name] = request.save

Clear ==
  /\ SpareIsWhole
  /\ shelf' = [shelf EXCEPT ![request.name] = NoFile]
  /\ UNCHANGED <<spare, request>>

Finish ==
  /\ SpareIsWhole
  /\ shelf' = [shelf EXCEPT ![request.name] = request.save]
  /\ spare' = [spare EXCEPT ![request.name] = NoFile]
  /\ request' = NoRequest

\* The request ends, in a failure or a crash.  The spare may go with it.
GiveUp ==
  /\ request # NoRequest
  /\ request' = NoRequest
  /\ spare' \in {spare, [spare EXCEPT ![request.name] = NoFile]}
  /\ UNCHANGED shelf

StoreNext == Ask \/ Scrap \/ Write \/ Clear \/ Finish \/ GiveUp

StoreSpec == StoreInit /\ [][StoreNext]_svars
=============================================================================

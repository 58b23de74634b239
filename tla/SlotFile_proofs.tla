--------------------------- MODULE SlotFile_proofs ---------------------------
(***************************************************************************)
(* The proofs of SlotFile: its three invariants, and that the directory it *)
(* leaves behind is the one SaveStore promises.                            *)
(***************************************************************************)
EXTENDS SlotFile, TLAPS

Kept == Saves \ Foreign

\* What a file name holds is a whole save; only the temporary may be torn.
DirectoryIsWhole == \A n \in Names : disk[n].sav \in Saves \cup {NoFile}

\* While slot 0 is staged for the card it holds the save asked for, and once
\* the temporary has been closed, so does that.
Staged ==
  /\ Saving => slot0 \in Kept
  /\ step \in {"unlink", "rename"} => disk[name].tmp = slot0

\* Slot 0 is valid only between the calls to the card.
Slot0Kept == slot0Valid => step = "idle" /\ slot0 = ramSaved /\ slot0 \in Kept

IInv ==
  /\ TypeOK /\ DirectoryIsWhole /\ Staged /\ Slot0Kept /\ AppliedIsSound
  /\ step = "read" => attempt \in 0..1

-----------------------------------------------------------------------------
LEMMA InitIInv == ASSUME Init PROVE IInv
  <1>1. disk \in [Names -> [sav : Contents, tmp : Contents]] /\ DirectoryIsWhole
    <2> DEFINE D == [sav : Saves \cup {NoFile}, tmp : Contents]
    <2>1. disk \in [Names -> D]
      BY DEF Init
    <2>2. \A d \in D : /\ d \in [sav : Contents, tmp : Contents]
                       /\ d.sav \in Saves \cup {NoFile}
      BY DEF Contents
    <2> HIDE DEF D
    <2> QED BY <2>1, <2>2 DEF DirectoryIsWhole
  <1>2. TypeOK
    <2>1. attempt \in 0..2
      BY DEF Init
    <2> QED BY <1>1, <2>1 DEF Init, TypeOK, Steps
  <1>3. Staged /\ Slot0Kept /\ AppliedIsSound
    BY DEF Init, Staged, Slot0Kept, AppliedIsSound, Saving
  <1> QED BY <1>1, <1>2, <1>3 DEF Init, IInv

\* Every operation keeps the invariant.
LEMMA SaveRamKeeps == ASSUME IInv, NEW s \in Kept, SaveRam(s) PROVE IInv'
  BY SlotFileAssumption
     DEF SaveRam, IInv, TypeOK, DirectoryIsWhole, Staged, Slot0Kept, AppliedIsSound,
         Saving, Steps, Contents, Kept

LEMMA LoadRamKeeps == ASSUME IInv, LoadRam PROVE IInv'
  BY SlotFileAssumption
     DEF LoadRam, IInv, TypeOK, DirectoryIsWhole, Staged, Slot0Kept, AppliedIsSound,
         Saving, Steps, Contents, Kept

LEMMA SaveSdKeeps ==
  ASSUME IInv, NEW n \in Names, NEW s \in Kept, SaveSdNamed(n, s) PROVE IInv'
  BY SlotFileAssumption
     DEF SaveSdNamed, IInv, TypeOK, DirectoryIsWhole, Staged, Slot0Kept, AppliedIsSound,
         Saving, Steps, Contents, Kept

LEMMA OpenTmpKeeps == ASSUME IInv, OpenTmp PROVE IInv'
  BY SlotFileAssumption
     DEF OpenTmp, IInv, TypeOK, DirectoryIsWhole, Staged, Slot0Kept, AppliedIsSound,
         Saving, Steps, Contents, Kept

LEMMA WriteTmpKeeps == ASSUME IInv, WriteTmp PROVE IInv'
  BY SlotFileAssumption
     DEF WriteTmp, IInv, TypeOK, DirectoryIsWhole, Staged, Slot0Kept, AppliedIsSound,
         Saving, Steps, Contents, Kept

LEMMA CloseTmpKeeps == ASSUME IInv, CloseTmp PROVE IInv'
  BY SlotFileAssumption
     DEF CloseTmp, IInv, TypeOK, DirectoryIsWhole, Staged, Slot0Kept, AppliedIsSound,
         Saving, Steps, Contents, Kept

LEMMA UnlinkDestKeeps == ASSUME IInv, UnlinkDest PROVE IInv'
  BY SlotFileAssumption
     DEF UnlinkDest, IInv, TypeOK, DirectoryIsWhole, Staged, Slot0Kept, AppliedIsSound,
         Saving, Steps, Contents, Kept

LEMMA RenameTmpKeeps == ASSUME IInv, RenameTmp PROVE IInv'
  BY SlotFileAssumption
     DEF RenameTmp, IInv, TypeOK, DirectoryIsWhole, Staged, Slot0Kept, AppliedIsSound,
         Saving, Steps, Contents, Kept

LEMMA LoadSdKeeps == ASSUME IInv, NEW n \in Names, LoadSdNamed(n) PROVE IInv'
  <1>1. TypeOK' /\ DirectoryIsWhole'
    <2>1. attempt' \in 0..2
      BY DEF LoadSdNamed
    <2> QED BY <2>1 DEF LoadSdNamed, IInv, TypeOK, DirectoryIsWhole, Steps, Contents
  <1>2. Staged' /\ Slot0Kept'
    BY DEF LoadSdNamed, IInv, Staged, Slot0Kept, Saving, Kept
  <1>3. AppliedIsSound' /\ (step' = "read" => attempt' \in 0..1)
    BY DEF LoadSdNamed, IInv, AppliedIsSound
  <1> QED BY <1>1, <1>2, <1>3 DEF IInv

LEMMA ReadFileKeeps == ASSUME IInv, ReadFile PROVE IInv'
  BY SlotFileAssumption
     DEF ReadFile, Accepted, MayRetry, IInv, TypeOK, DirectoryIsWhole, Staged, Slot0Kept,
         AppliedIsSound, Saving, Steps, Contents, Kept

LEMMA PowerCycleKeeps == ASSUME IInv, PowerCycle PROVE IInv'
  <1>1. TypeOK' /\ DirectoryIsWhole'
    <2>1. attempt' \in 0..2
      BY DEF PowerCycle
    <2> QED BY <2>1 DEF PowerCycle, IInv, TypeOK, DirectoryIsWhole, Steps, Contents
  <1>2. Staged' /\ Slot0Kept'
    BY DEF PowerCycle, IInv, Staged, Slot0Kept, Saving, Kept
  <1>3. AppliedIsSound' /\ (step' = "read" => attempt' \in 0..1)
    BY DEF PowerCycle, IInv, AppliedIsSound
  <1> QED BY <1>1, <1>2, <1>3 DEF IInv

LEMMA StepKeeps == ASSUME IInv, [Next]_vars PROVE IInv'
  <1>1. CASE UNCHANGED vars
    BY <1>1 DEF vars, IInv, TypeOK, DirectoryIsWhole, Staged, Slot0Kept, AppliedIsSound,
                Saving
  <1>2. CASE SaveStep
    BY <1>2, OpenTmpKeeps, WriteTmpKeeps, CloseTmpKeeps, UnlinkDestKeeps, RenameTmpKeeps
       DEF SaveStep
  <1>3. CASE Next /\ ~SaveStep
    BY <1>3, SaveRamKeeps, LoadRamKeeps, SaveSdKeeps, LoadSdKeeps, ReadFileKeeps,
       PowerCycleKeeps
       DEF Next, Kept
  <1> QED BY <1>1, <1>2, <1>3

\* The inductive invariant of the slot and its files: for any names and saves,
\* a name holds a whole save, slot 0 what is being written, and the temporary
\* that is renamed all of it.
THEOREM IInvHolds == Spec => []IInv
  BY InitIInv, StepKeeps, PTL DEF Spec

-----------------------------------------------------------------------------
\* Every variable of SlotFile keeps its type, the retry counter its bound.
THEOREM SlotFileTypeOK == Spec => []TypeOK
  <1>1. IInv => TypeOK BY DEF IInv
  <1> QED BY <1>1, IInvHolds, PTL

\* slot_manager_load_ram(0) gives back what slot_manager_save_ram(0) saved,
\* whatever was staged in the slot for the card in between.
THEOREM RamSlotHolds == Spec => []RamSlotIsWhatWasSaved
  <1>1. IInv => RamSlotIsWhatWasSaved BY DEF IInv, Slot0Kept, RamSlotIsWhatWasSaved
  <1> QED BY <1>1, IInvHolds, PTL

\* load_cb is never given an image that is torn, damaged or of another version.
THEOREM AppliedHolds == Spec => []AppliedIsSound
  <1>1. IInv => AppliedIsSound BY DEF IInv
  <1> QED BY <1>1, IInvHolds, PTL

-----------------------------------------------------------------------------
(* The refinement of SaveStore.                                            *)

request == IF Saving THEN [name |-> name, save |-> slot0] ELSE [none |-> TRUE]

LEMMA RequestTold == ASSUME NEW n, NEW s PROVE [name |-> n, save |-> s] # [none |-> TRUE]
  OBVIOUS

LEMMA InitRefines == ASSUME Init PROVE Store!StoreInit
  <1>1. shelf \in [Names -> Store!Contents] /\ spare \in [Names -> Store!Contents]
    BY DEF Init, shelf, spare, Store!Contents
  <1>2. ~Saving
    BY DEF Init, Saving
  <1> QED BY <1>1, <1>2 DEF Store!StoreInit, Store!NoRequest

StoreStep == [Store!StoreNext]_<<shelf, spare, request>>

\* A step that neither writes a file nor starts or ends a save.
LEMMA Stutters ==
  ASSUME UNCHANGED disk, Saving' = Saving, Saving => UNCHANGED <<name, slot0>>
  PROVE  UNCHANGED <<shelf, spare, request>>
  BY DEF shelf, spare, request

\* What a step that writes only the temporary of the name being saved does to
\* the directory as its readers see it.
LEMMA TmpWritten ==
  ASSUME IInv, NEW c \in Contents, disk' = [disk EXCEPT ![name].tmp = c]
  PROVE  /\ UNCHANGED shelf
         /\ spare' = [spare EXCEPT ![name] = IF c \in Saves THEN c ELSE NoFile]
  BY DEF shelf, spare, IInv, TypeOK

\* A save that ends and leaves its file alone, and its temporary or not.
LEMMA GivesUp ==
  ASSUME Saving, ~Saving', UNCHANGED shelf,
         spare' \in {spare, [spare EXCEPT ![name] = NoFile]}
  PROVE  Store!GiveUp
  BY RequestTold DEF Store!GiveUp, Store!NoRequest

LEMMA SaveSdRefines ==
  ASSUME NEW n \in Names, NEW s \in Kept, SaveSdNamed(n, s) PROVE Store!StoreNext
  <1>1. ~Saving /\ Saving' /\ UNCHANGED <<shelf, spare>> /\ name' = n /\ slot0' = s
    BY DEF SaveSdNamed, Saving, shelf, spare
  <1>2. Store!Ask
    BY <1>1, RequestTold DEF Store!Ask, Store!NoRequest, Store!Requests, Kept
  <1> QED BY <1>2 DEF Store!StoreNext

\* The temporary is created: the spare of an earlier save, if any, is scrapped.
LEMMA OpenTmpRefines == ASSUME IInv, OpenTmp PROVE StoreStep
  <1>1. Saving /\ UNCHANGED <<name, slot0>>
    BY DEF OpenTmp, Saving
  <1>2. CASE disk' = [disk EXCEPT ![name].tmp = Torn] /\ step' = "write"
    <2>1. UNCHANGED shelf /\ spare' = [spare EXCEPT ![name] = NoFile]
      BY <1>2, TmpWritten, SlotFileAssumption DEF Contents
    <2>2. Store!Scrap
      BY <1>1, <1>2, <2>1, RequestTold DEF Store!Scrap, Store!NoRequest, Saving
    <2> QED BY <2>2 DEF StoreStep, Store!StoreNext
  <1>3. CASE step' = "idle" /\ UNCHANGED disk
    <2>1. ~Saving' /\ UNCHANGED <<shelf, spare>>
      BY <1>3 DEF Saving, shelf, spare
    <2> QED BY <1>1, <2>1, GivesUp DEF StoreStep, Store!StoreNext
  <1> QED BY <1>2, <1>3 DEF OpenTmp

\* Closed, the temporary is the spare; if that fails, the save is given up.
LEMMA CloseTmpRefines == ASSUME IInv, CloseTmp PROVE StoreStep
  <1>1. Saving /\ UNCHANGED <<name, slot0>> /\ slot0 \in Saves
    BY DEF CloseTmp, Saving, IInv, Staged, Kept
  <1>2. CASE disk' = [disk EXCEPT ![name].tmp = slot0] /\ step' = "unlink"
    <2>1. UNCHANGED shelf /\ spare' = [spare EXCEPT ![name] = slot0]
      BY <1>1, <1>2, TmpWritten DEF Contents
    <2>2. Store!Write
      BY <1>1, <1>2, <2>1, RequestTold DEF Store!Write, Store!NoRequest, Saving
    <2> QED BY <2>2 DEF StoreStep, Store!StoreNext
  <1>3. CASE /\ \E left \in {Torn, NoFile} : disk' = [disk EXCEPT ![name].tmp = left]
             /\ step' = "idle"
    <2>1. UNCHANGED shelf /\ spare' = [spare EXCEPT ![name] = NoFile] /\ ~Saving'
      BY <1>3, TmpWritten, SlotFileAssumption DEF Contents, Saving
    <2> QED BY <1>1, <2>1, GivesUp DEF StoreStep, Store!StoreNext
  <1> QED BY <1>2, <1>3 DEF CloseTmp

\* The previous save is unlinked when the spare is whole.
LEMMA UnlinkRefines == ASSUME IInv, UnlinkDest PROVE StoreStep
  <1>1. Saving /\ Saving' /\ UNCHANGED <<name, slot0>>
    BY DEF UnlinkDest, Saving
  <1>2. CASE UNCHANGED disk
    BY <1>1, <1>2, Stutters DEF StoreStep
  <1>3. CASE disk' = [disk EXCEPT ![name].sav = NoFile]
    <2>1. shelf' = [shelf EXCEPT ![name] = NoFile] /\ UNCHANGED spare
      BY <1>3 DEF shelf, spare, IInv, TypeOK
    <2>2. spare[name] = slot0
      BY DEF UnlinkDest, spare, IInv, TypeOK, Staged, Saving, Kept
    <2>3. Store!Clear
      BY <1>1, <2>1, <2>2, RequestTold
         DEF Store!Clear, Store!SpareIsWhole, Store!NoRequest
    <2> QED BY <2>3 DEF StoreStep, Store!StoreNext
  <1> QED BY <1>2, <1>3 DEF UnlinkDest

LEMMA RenameRefines == ASSUME IInv, RenameTmp PROVE StoreStep
  <1>1. Saving /\ ~Saving' /\ UNCHANGED <<name, slot0>>
    BY DEF RenameTmp, Saving
  <1>2. CASE disk' = [disk EXCEPT ![name].sav = disk[name].tmp, ![name].tmp = NoFile]
    <2>1. disk[name].tmp = slot0 /\ slot0 \in Saves /\ name \in Names
      BY DEF RenameTmp, IInv, TypeOK, Staged, Saving, Kept
    <2>2. shelf' = [shelf EXCEPT ![name] = slot0]
      BY <1>2, <2>1 DEF shelf, IInv, TypeOK
    <2>3. spare' = [spare EXCEPT ![name] = NoFile] /\ spare[name] = slot0
      BY <1>2, <2>1, SlotFileAssumption DEF spare, IInv, TypeOK
    <2>4. Store!Finish
      BY <1>1, <2>2, <2>3, RequestTold
         DEF Store!Finish, Store!SpareIsWhole, Store!NoRequest
    <2> QED BY <2>4 DEF StoreStep, Store!StoreNext
  <1>3. CASE disk' = [disk EXCEPT ![name].tmp = NoFile]
    <2>1. UNCHANGED shelf /\ spare' = [spare EXCEPT ![name] = NoFile]
      BY <1>3, TmpWritten, SlotFileAssumption DEF Contents
    <2> QED BY <1>1, <2>1, GivesUp DEF StoreStep, Store!StoreNext
  <1>4. CASE UNCHANGED disk
    <2>1. UNCHANGED <<shelf, spare>>
      BY <1>4 DEF shelf, spare
    <2> QED BY <1>1, <2>1, GivesUp DEF StoreStep, Store!StoreNext
  <1> QED BY <1>2, <1>3, <1>4 DEF RenameTmp

LEMMA PowerCycleRefines == ASSUME PowerCycle PROVE StoreStep
  <1>1. UNCHANGED <<shelf, spare>> /\ ~Saving'
    BY DEF PowerCycle, shelf, spare, Saving
  <1>2. CASE Saving
    BY <1>1, <1>2, GivesUp DEF StoreStep, Store!StoreNext
  <1>3. CASE ~Saving
    BY <1>1, <1>3 DEF StoreStep, request
  <1> QED BY <1>2, <1>3

LEMMA OtherRefines ==
  ASSUME IInv, \/ \E s \in Kept : SaveRam(s)
               \/ LoadRam \/ WriteTmp \/ ReadFile
               \/ \E n \in Names : LoadSdNamed(n)
  PROVE  StoreStep
  BY Stutters DEF SaveRam, LoadRam, WriteTmp, ReadFile, LoadSdNamed, StoreStep, Saving

LEMMA StepRefines == ASSUME IInv, [Next]_vars PROVE StoreStep
  <1>1. CASE UNCHANGED vars
    BY <1>1, Stutters DEF vars, Saving, StoreStep
  <1>2. CASE SaveStep
    BY <1>2, OpenTmpRefines, CloseTmpRefines, UnlinkRefines, RenameRefines, OtherRefines
       DEF SaveStep
  <1>3. CASE \E n \in Names, s \in Kept : SaveSdNamed(n, s)
    BY <1>3, SaveSdRefines DEF StoreStep
  <1>4. CASE Next /\ ~SaveStep /\ ~\E n \in Names, s \in Kept : SaveSdNamed(n, s)
    BY <1>4, OtherRefines, PowerCycleRefines DEF Next, Kept
  <1> QED BY <1>1, <1>2, <1>3, <1>4

\* Every failed call, left-over file and power cycle included, the directory of
\* the card is the one SaveStore promises: a name holds a whole save or nothing,
\* and its save is unlinked only when the one replacing it is whole beside it.
THEOREM StoreHolds == Spec => StoreSpec
  <1>1. IInv /\ [Next]_vars => StoreStep
    BY StepRefines
  <1>2. Spec => Store!StoreInit
    BY InitRefines DEF Spec
  <1> QED BY <1>1, <1>2, IInvHolds, PTL
             DEF Spec, StoreSpec, Store!StoreSpec, Store!svars, StoreStep, request
=============================================================================

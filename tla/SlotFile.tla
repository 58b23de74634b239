------------------------------ MODULE SlotFile ------------------------------
(***************************************************************************)
(* lib/slot_manager.c: slot 0 of the RAM pool, and the named saves on the  *)
(* SD card, written to "<name>.tmp" and renamed.  The steps of a save are  *)
(* its FatFs calls, each of which may fail, with the power going at any    *)
(* point in between.                                                       *)
(***************************************************************************)
EXTENDS Naturals

CONSTANTS
  Names,     \* file names
  Saves,     \* serialized images, told apart by name
  Foreign,   \* the ones of another library or state version
  NoFile, Torn,   \* no directory entry; one whose data is not all there
  Nothing, Damaged   \* no image; one whose CRC is wrong

ASSUME SlotFileAssumption ==
  /\ Foreign \subseteq Saves
  /\ {NoFile, Torn, Nothing, Damaged} \cap Saves = {}
  /\ NoFile # Torn /\ Nothing # Damaged

VARIABLES
  disk,           \* per name, the file itself (sav) and its temporary (tmp)
  step, name, wrote, attempt,   \* the call that is running
  slot0, slot0Valid,   \* sSlotManager.storage's first slot, slot_valid[0]
  applied,        \* the image last given to load_cb
  ramSaved        \* history: the image of the last slot_manager_save_ram(0)

vars == <<disk, step, name, wrote, attempt, slot0, slot0Valid, applied, ramSaved>>

Contents == Saves \cup {NoFile, Torn}
Steps == {"idle", "open", "write", "close", "unlink", "rename", "read"}

TypeOK ==
  /\ disk \in [Names -> [sav : Contents, tmp : Contents]]
  /\ step \in Steps /\ name \in Names
  /\ wrote \in BOOLEAN /\ attempt \in 0..2
  /\ slot0 \in Saves \cup {Nothing, Damaged} /\ slot0Valid \in BOOLEAN
  /\ applied \in Saves \cup {Nothing, Damaged}
  /\ ramSaved \in Saves \cup {Nothing}

\* The card may hold saves of earlier sessions, and a left-over
\* temporary, torn or whole.
Init ==
  /\ disk \in [Names -> [sav : Saves \cup {NoFile}, tmp : Contents]]
  /\ step = "idle" /\ name \in Names
  /\ wrote = FALSE /\ attempt = 0
  /\ slot0 = Nothing /\ slot0Valid = FALSE
  /\ applied = Nothing
  /\ ramSaved = Nothing

-----------------------------------------------------------------------------
(* slot_manager_save_ram(0), slot_manager_load_ram(0)                      *)

SaveRam(s) ==
  /\ step = "idle"
  /\ slot0' = s /\ slot0Valid' = TRUE /\ ramSaved' = s
  /\ UNCHANGED <<disk, step, name, wrote, attempt, applied>>

LoadRam ==
  /\ step = "idle" /\ slot0Valid
  /\ applied' = slot0
  /\ UNCHANGED <<disk, step, name, wrote, attempt, slot0, slot0Valid, ramSaved>>

-----------------------------------------------------------------------------
(* slot_manager_save_sd_named                                              *)

\* The image is staged in slot 0, which a RAM load may no longer use.
SaveSdNamed(n, s) ==
  /\ step = "idle"
  /\ name' = n /\ step' = "open"
  /\ slot0' = s /\ slot0Valid' = FALSE
  /\ UNCHANGED <<disk, wrote, attempt, applied, ramSaved>>

\* Mutant: the file to be replaced is unlinked before the temporary is written.
OpenUnlinksFirst ==
  /\ step = "open"
  /\ disk' = [disk EXCEPT ![name] = [sav |-> NoFile, tmp |-> Torn]]
  /\ step' = "write"
  /\ UNCHANGED <<name, wrote, attempt, slot0, slot0Valid, applied, ramSaved>>

OpenTmp ==
  /\ step = "open"
  /\ \/ /\ disk' = [disk EXCEPT ![name].tmp = Torn]
        /\ step' = "write"
     \/ step' = "idle" /\ UNCHANGED disk
  /\ UNCHANGED <<name, wrote, attempt, slot0, slot0Valid, applied, ramSaved>>

WriteTmp ==
  /\ step = "write"
  /\ wrote' \in BOOLEAN
  /\ step' = "close"
  /\ UNCHANGED <<disk, name, attempt, slot0, slot0Valid, applied, ramSaved>>

\* f_close commits the directory entry.  If it or the write failed, the
\* temporary is removed, as far as that works.
CloseTmp ==
  /\ step = "close"
  /\ \/ /\ wrote
        /\ disk' = [disk EXCEPT ![name].tmp = slot0]
        /\ step' = "unlink"
     \/ /\ \E left \in {Torn, NoFile} : disk' = [disk EXCEPT ![name].tmp = left]
        /\ step' = "idle"
  /\ UNCHANGED <<name, wrote, attempt, slot0, slot0Valid, applied, ramSaved>>

\* f_unlink(path), its result ignored.
UnlinkDest ==
  /\ step = "unlink" /\ step' = "rename"
  /\ \/ disk' = [disk EXCEPT ![name].sav = NoFile]
     \/ UNCHANGED disk
  /\ UNCHANGED <<name, wrote, attempt, slot0, slot0Valid, applied, ramSaved>>

\* f_rename refuses to overwrite; when it fails the temporary is removed.
RenameTmp ==
  /\ step = "rename" /\ step' = "idle"
  /\ \/ /\ disk[name].sav = NoFile
        /\ disk' = [disk EXCEPT ![name].sav = disk[name].tmp, ![name].tmp = NoFile]
     \/ disk' = [disk EXCEPT ![name].tmp = NoFile]
     \/ UNCHANGED disk
  /\ UNCHANGED <<name, wrote, attempt, slot0, slot0Valid, applied, ramSaved>>

-----------------------------------------------------------------------------
(* slot_manager_load_sd_named                                              *)

\* Mutant: slot 0 stays valid while the file is staged in it.
LoadKeepsSlotValid(n) ==
  /\ step = "idle" /\ disk[n].sav # NoFile
  /\ name' = n /\ step' = "read" /\ attempt' = 0
  /\ UNCHANGED <<disk, wrote, slot0, slot0Valid, applied, ramSaved>>

LoadSdNamed(n) ==
  /\ step = "idle" /\ disk[n].sav # NoFile
  /\ name' = n /\ step' = "read" /\ attempt' = 0
  /\ slot0Valid' = FALSE
  /\ UNCHANGED <<disk, wrote, slot0, applied, ramSaved>>

\* Mutant: the versions in the header are not compared.
AcceptedAnyVersion(content) == content \in Saves

\* A header the build accepts.
Accepted(content) == content \in Saves \ Foreign

\* Mutant: read again for as long as the CRC is wrong.
AlwaysRetry == TRUE

\* One retry.
MayRetry == attempt = 0

\* The file is read into slot 0.  What arrives is refused, whole, or damaged
\* on the way: the CRC says so, and the file is read once more.
ReadFile ==
  /\ step = "read"
  /\ \/ /\ slot0' \in {slot0, Damaged}
        /\ step' = "idle"
        /\ UNCHANGED <<attempt, applied>>
     \/ /\ Accepted(disk[name].sav)
        /\ slot0' = disk[name].sav
        /\ applied' = disk[name].sav
        /\ step' = "idle"
        /\ UNCHANGED attempt
     \/ /\ Accepted(disk[name].sav)
        /\ slot0' = Damaged
        /\ attempt' = attempt + 1
        /\ step' = IF MayRetry THEN "read" ELSE "idle"
        /\ UNCHANGED applied
  /\ UNCHANGED <<disk, name, wrote, slot0Valid, ramSaved>>

-----------------------------------------------------------------------------
\* The console is switched off and on again.
PowerCycle ==
  /\ step' = "idle"
  /\ slot0' = Nothing /\ slot0Valid' = FALSE
  /\ applied' = Nothing /\ ramSaved' = Nothing
  /\ wrote' = FALSE /\ attempt' = 0
  /\ UNCHANGED <<disk, name>>

SaveStep == OpenTmp \/ WriteTmp \/ CloseTmp \/ UnlinkDest \/ RenameTmp

Next ==
  \/ \E s \in Saves \ Foreign : SaveRam(s)
  \/ LoadRam
  \/ \E n \in Names, s \in Saves \ Foreign : SaveSdNamed(n, s)
  \/ SaveStep
  \/ \E n \in Names : LoadSdNamed(n)
  \/ ReadFile
  \/ PowerCycle

Spec == Init /\ [][Next]_vars

-----------------------------------------------------------------------------
\* A load from RAM slot 0 gives back what was saved there: never the bytes an
\* SD save or load, finished, failed or interrupted, has staged in the slot.
RamSlotIsWhatWasSaved == slot0Valid => slot0 = ramSaved

\* The game is never given an image that is torn, damaged on the way from the
\* card, or of another version.
AppliedIsSound == applied \in (Saves \ Foreign) \cup {Nothing}

\* The directory as its readers see it.
shelf == [n \in Names |-> disk[n].sav]
spare == [n \in Names |-> IF disk[n].tmp \in Saves THEN disk[n].tmp ELSE NoFile]
Saving == step \in {"open", "write", "close", "unlink", "rename"}
Store == INSTANCE SaveStore WITH
           request <- IF Saving THEN [name |-> name, save |-> slot0]
                                ELSE [none |-> TRUE]

\* Every crash, failed call and left-over file included, the saves on the card
\* are what SaveStore promises: whole ones, and no save is unlinked before its
\* successor is all there.
StoreSpec == Store!StoreSpec
=============================================================================

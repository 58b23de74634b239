----------------------------- MODULE EepromSave -----------------------------
(***************************************************************************)
(* The cartridge's EEPROM save: Save_Read and Save_Write of fox_save.c on  *)
(* the graphics thread, Save_ReadData and Save_WriteData of sys_joybus.c   *)
(* on the serial thread, the block loops and the cache of sys_save.c, and  *)
(* the access token of the serial interface (libultra).                    *)
(*                                                                         *)
(* A save file is two copies of N blocks.  Block N of a copy holds its     *)
(* checksum, which is taken to tell every two saves apart (the code's has  *)
(* eight bits).  The chip takes 15 ms for a block; the power may go, and   *)
(* any transfer fail, at every block.                                      *)
(***************************************************************************)
EXTENDS Naturals

CONSTANTS
  N,            \* blocks of one copy (32 on the cartridge)
  Content,      \* contents of a block
  Zero, Torn,   \* of cleared memory; of a block cut while the chip wrote it
  Saves,        \* the states of the game that get saved
  Default,      \* gDefaultSave
  Image,        \* per save, the blocks of its copy
  Unsaved,      \* no save
  ResetAfter    \* blocks the chip takes between the PRENMI and the reset (33)

ASSUME EepromAssumption ==
  /\ N \in Nat \ {0}
  /\ {Zero, Torn} \subseteq Content
  /\ Default \in Saves /\ Unsaved \notin Saves
  /\ Image \in [Saves -> [1..N -> Content]]
  /\ \A d, e \in Saves : Image[d][N] = Image[e][N] => d = e
  /\ \A d \in Saves : Image[d][N] \notin {Zero, Torn}
  /\ ResetAfter \in Nat

VARIABLES
  eeprom,     \* the chip: copy 1 (save) and copy 2 (backup)
  prev,       \* sPrevSaveData, what the ROM believes the chip holds
  io,         \* gSaveIOBuffer
  ram,        \* the save in gSaveFile
  game,       \* where the graphics thread is
  request,    \* the SI_*_SAVE message in gSerialThreadMesgQueue
  answer,     \* the message in gSaveMesgQueue
  serial,     \* where the serial thread is
  copy, blk,  \* its i: the block it is at
  siFree,     \* __osSiAccessQueue holds its token
  nmi,        \* gStartNMI
  since       \* blocks programmed since the PRENMI, up to ResetAfter

gfxVars == <<ram, game, request, answer>>
vars == <<eeprom, prev, io, ram, game, request, answer, serial, copy, blk,
          siFree, nmi, since>>

File == [1..2 -> [1..N -> Content]]
ZeroFile == [c \in 1..2 |-> [i \in 1..N |-> Zero]]
FileOf(d) == [c \in 1..2 |-> Image[d]]

\* Save_Checksum agrees with the checksum stored in the copy.
Valid(image) == \E d \in Saves : image = Image[d]
SaveIn(image) == CHOOSE d \in Saves : image = Image[d]

\* What Save_Read makes of a file: the first copy, else the backup.
Recover(file) ==
  IF Valid(file[1]) THEN SaveIn(file[1])
  ELSE IF Valid(file[2]) THEN SaveIn(file[2]) ELSE Unsaved

TypeOK ==
  /\ eeprom \in File /\ prev \in File /\ io \in File
  /\ ram \in Saves \cup {Unsaved}
  /\ game \in {"boot", "reading", "writing", "play"}
  /\ request \in {"none", "read", "write"}
  /\ answer \in {"none", "success", "failed"}
  /\ serial \in {"idle", "writing", "programming"}
  /\ copy \in 1..2 /\ blk \in 1..N
  /\ siFree \in BOOLEAN /\ nmi \in BOOLEAN /\ since \in 0..ResetAfter

\* A new chip, or one that a session before this one wrote.
Init ==
  /\ eeprom \in {[c \in 1..2 |-> [i \in 1..N |-> Torn]]} \cup {FileOf(d) : d \in Saves}
  /\ prev = ZeroFile /\ io = ZeroFile /\ ram = Unsaved
  /\ game = "boot" /\ request = "none" /\ answer = "none"
  /\ serial = "idle" /\ copy = 1 /\ blk = 1
  /\ siFree = TRUE /\ nmi = FALSE /\ since = 0

-----------------------------------------------------------------------------
(* The graphics thread                                                     *)

\* Save_Read, called by the practice ROM in Game_Initialize, once.
SaveRead ==
  /\ game = "boot"
  /\ game' = "reading" /\ request' = "read"
  /\ UNCHANGED <<eeprom, prev, io, ram, answer, serial, copy, blk, siFree, nmi, since>>

\* Save_Write, from the point where gSaveFile holds d.
Write(d) ==
  /\ ram' = d /\ io' = FileOf(d)
  /\ game' = "writing" /\ request' = "write"

\* Save_Read returns 0: the game goes on with what a copy holds.
SaveReadDone ==
  /\ game = "reading" /\ answer = "success" /\ Recover(io) # Unsaved
  /\ ram' = Recover(io) /\ game' = "play" /\ answer' = "none"
  /\ UNCHANGED <<eeprom, prev, io, request, serial, copy, blk, siFree, nmi, since>>

\* Save_Read returns -1: Game_Initialize writes gDefaultSave at once.
SaveReadFailed ==
  /\ game = "reading"
  /\ answer = "failed" \/ (answer = "success" /\ Recover(io) = Unsaved)
  /\ Write(Default) /\ answer' = "none"
  /\ UNCHANGED <<eeprom, prev, serial, copy, blk, siFree, nmi, since>>

SaveWrite(d) ==
  /\ game = "play"
  /\ Write(d)
  /\ UNCHANGED <<eeprom, prev, answer, serial, copy, blk, siFree, nmi, since>>

\* No caller looks at what Save_Write returns.
SaveWriteReturns ==
  /\ game = "writing" /\ answer # "none"
  /\ game' = "play" /\ answer' = "none"
  /\ UNCHANGED <<eeprom, prev, io, ram, request, serial, copy, blk, siFree, nmi, since>>

-----------------------------------------------------------------------------
(* The serial thread                                                       *)

Reply(a) == answer' = a

\* Mutant: the thread sends no answer.
RefuseInSilence ==
  /\ serial = "idle" /\ request # "none"
  /\ nmi \/ siFree
  /\ request' = "none"
  /\ UNCHANGED <<eeprom, prev, io, ram, game, answer, serial, copy, blk, siFree, nmi,
                 since>>

\* gStartNMI, or osEepromProbe finds no chip.
Refuse ==
  /\ serial = "idle" /\ request # "none"
  /\ nmi \/ siFree
  /\ request' = "none" /\ Reply("failed")
  /\ UNCHANGED <<eeprom, prev, io, ram, game, serial, copy, blk, siFree, nmi, since>>

\* Save_ReadData: every block is read, and only then cached.
ReadData ==
  /\ serial = "idle" /\ request = "read" /\ ~nmi /\ siFree
  /\ io' = eeprom /\ prev' = eeprom
  /\ request' = "none" /\ Reply("success")
  /\ UNCHANGED <<eeprom, ram, game, serial, copy, blk, siFree, nmi, since>>

\* Save_ReadBlock fails at block i of copy c.  When it is the chip's status
\* that cannot be read, osEepromRead returns with the access token in hand.
ReadDataFails(c, i) ==
  /\ serial = "idle" /\ request = "read" /\ ~nmi /\ siFree
  /\ io' = [k \in 1..2 |-> [j \in 1..N |->
              IF k < c \/ (k = c /\ j < i) THEN eeprom[k][j] ELSE io[k][j]]]
  /\ siFree' \in BOOLEAN
  /\ request' = "none" /\ Reply("failed")
  /\ UNCHANGED <<eeprom, prev, ram, game, serial, copy, blk, nmi, since>>

\* Save_WriteData, osEepromProbe has found the chip.
WriteData ==
  /\ serial = "idle" /\ request = "write" /\ ~nmi /\ siFree
  /\ request' = "none"
  /\ serial' = "writing" /\ copy' = 1 /\ blk' = 1
  /\ UNCHANGED <<eeprom, prev, io, ram, game, answer, siFree, nmi, since>>

\* The next turn of Save_WriteEeprom's loop, or its end.
NextBlock ==
  \/ /\ blk < N
     /\ blk' = blk + 1 /\ serial' = "writing" /\ UNCHANGED <<copy, answer>>
  \/ /\ blk = N /\ copy = 1
     /\ copy' = 2 /\ blk' = 1 /\ serial' = "writing" /\ UNCHANGED answer
  \/ /\ blk = N /\ copy = 2
     /\ serial' = "idle" /\ Reply("success") /\ UNCHANGED <<copy, blk>>

\* Mutant: the backup is taken to have changed where the save has.
SameInFirstCopy == prev[1][blk] = io[1][blk]

\* Mutant: the block goes to both copies at once.
CachedTwice(file) ==
  [file EXCEPT ![1][blk] = io[copy][blk], ![2][blk] = io[copy][blk]]

Same == prev[copy][blk] = io[copy][blk]
Cached(file) == [file EXCEPT ![copy][blk] = io[copy][blk]]

SkipBlock ==
  /\ serial = "writing" /\ Same
  /\ NextBlock
  /\ UNCHANGED <<eeprom, prev, io, ram, game, request, siFree, nmi, since>>

\* The cache takes the new block before the chip has it.
WriteBlock ==
  /\ serial = "writing" /\ ~Same /\ siFree
  /\ prev' = Cached(prev)
  /\ serial' = "programming"
  /\ UNCHANGED <<eeprom, io, ram, game, request, answer, copy, blk, siFree, nmi, since>>

\* osEepromWrite fails, again with or without the access token released, and
\* the chip may have taken the block all the same.
WriteBlockFails ==
  /\ serial = "writing" /\ ~Same /\ siFree
  /\ prev' = Cached(prev) /\ eeprom' \in {eeprom, Cached(eeprom)}
  /\ siFree' \in BOOLEAN
  /\ serial' = "idle" /\ Reply("failed")
  /\ UNCHANGED <<io, ram, game, request, copy, blk, nmi, since>>

\* Mutant: the blocks are counted on.
BlockWrittenUncapped ==
  /\ serial = "programming"
  /\ eeprom' = Cached(eeprom)
  /\ NextBlock
  /\ since' = IF nmi THEN since + 1 ELSE since
  /\ UNCHANGED <<prev, io, ram, game, request, siFree, nmi>>

\* Timer_Wait(15 ms) is over, and so is the chip.
BlockWritten ==
  /\ serial = "programming"
  /\ eeprom' = Cached(eeprom)
  /\ NextBlock
  /\ since' = IF nmi /\ since < ResetAfter THEN since + 1 ELSE since
  /\ UNCHANGED <<prev, io, ram, game, request, siFree, nmi>>

-----------------------------------------------------------------------------
(* The console                                                             *)

\* The reset button: the fault thread sets gStartNMI.
PreNMI ==
  /\ ~nmi /\ nmi' = TRUE
  /\ UNCHANGED <<eeprom, prev, io, ram, game, request, answer, serial, copy, blk,
                 siFree, since>>

\* Memory after power on and after a reset: bootproc clears all of the BSS.
Boot ==
  /\ prev' = ZeroFile /\ io' = ZeroFile /\ ram' = Unsaved
  /\ game' = "boot" /\ request' = "none" /\ answer' = "none"
  /\ serial' = "idle" /\ copy' = 1 /\ blk' = 1
  /\ siFree' = TRUE /\ nmi' = FALSE /\ since' = 0

\* Half a second later the CPU restarts; the chip finishes the block it is at.
Reset ==
  /\ nmi /\ (serial # "idle" => since = ResetAfter)
  /\ eeprom' = IF serial = "programming" THEN Cached(eeprom) ELSE eeprom
  /\ Boot

\* The power goes and comes back.
PowerCycle ==
  /\ \/ eeprom' = eeprom
     \/ /\ serial = "programming"
        /\ eeprom' \in {Cached(eeprom), [eeprom EXCEPT ![copy][blk] = Torn]}
  /\ Boot

Graphics == \/ SaveRead \/ SaveReadDone \/ SaveReadFailed \/ SaveWriteReturns
Serial == \/ Refuse \/ ReadData \/ WriteData
          \/ SkipBlock \/ WriteBlock \/ WriteBlockFails \/ BlockWritten
          \/ \E c \in 1..2, i \in 1..N : ReadDataFails(c, i)
Next == \/ Graphics \/ Serial
        \/ \E d \in Saves : SaveWrite(d)
        \/ PreNMI \/ Reset \/ PowerCycle

Spec == Init /\ [][Next]_vars
FairSpec == Spec /\ WF_vars(Graphics) /\ WF_vars(Serial)

-----------------------------------------------------------------------------
(* Properties                                                              *)

\* The cache says what the chip holds, up to the block that is under way.
CacheTrue ==
  prev = IF serial = "programming" THEN Cached(eeprom) ELSE eeprom

Stored == Recover(eeprom)
Wanted == IF game = "writing" THEN ram ELSE Unsaved

\* The backup is of the stored save, and the first copy's checksum of that
\* save, of the one being written, or of none: nothing can be lost.
Safe ==
  /\ CacheTrue /\ Stored # Unsaved
  /\ eeprom[2] = Image[Stored]
  /\ \A d \in Saves : eeprom[1][N] = Image[d][N] => d \in {Stored, Wanted}

\* A power cut, a reset or a failing transfer at any block of a write leaves
\* the old save or the new one, unless the two copies disagreed before it or
\* the cache was wrong: fox_save.c's backup copy does its work.
Game == INSTANCE SavedGame WITH stored <- Stored, wanted <- Wanted, safe <- Safe
SavedGameSpec == Game!Spec

\* A Save_Write that reports success, with a cache that told the truth, has
\* put both copies on the chip, although it wrote only the blocks that changed.
SuccessIsStored ==
  game = "writing" /\ answer = "success" /\ CacheTrue => eeprom = FileOf(ram)

\* Save_Read and Save_Write come back, whatever fails and even after the
\* PRENMI, as long as the serial interface's token was not lost.
CallsReturn ==
  game \in {"reading", "writing"} ~> (game \in {"play", "boot"} \/ ~siFree)
=============================================================================

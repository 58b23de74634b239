-------------------------- MODULE EepromSave_proofs --------------------------
(***************************************************************************)
(* The proofs of EepromSave: type correctness, that a reported success is  *)
(* on the chip, and that whatever fails the save is the one SavedGame      *)
(* promises, for any number of blocks and any saves.                       *)
(***************************************************************************)
EXTENDS EepromSave, TLAPS

Busy == serial # "idle"

\* One call at a time: a request is pending, in work, or answered.
OneCall ==
  /\ request = "read" => game = "reading"
  /\ request = "write" => game = "writing"
  /\ Busy => game = "writing"
  /\ answer # "none" => game \in {"reading", "writing"}
  /\ request # "none" => ~Busy /\ answer = "none"
  /\ Busy => answer = "none"

\* A block the loop of Save_WriteEeprom is past.
Past(c, i) == c < copy \/ (c = copy /\ i < blk)

\* While a save is written the buffer holds it twice, and the cache agrees with
\* the buffer up to the block the loop is at.
WriteOrder ==
  /\ game = "writing" => ram \in Saves /\ io = FileOf(ram)
  /\ Busy => \A c \in 1..2, i \in 1..N : Past(c, i) => prev[c][i] = io[c][i]
  /\ serial = "programming" => prev[copy][blk] = io[copy][blk]
  /\ game = "writing" /\ answer = "success" => prev = io

IInv == TypeOK /\ OneCall /\ WriteOrder

-----------------------------------------------------------------------------
(* Files and what Save_Read makes of them.                                 *)

LEMMA FileOfType == ASSUME NEW d \in Saves PROVE FileOf(d) \in File
  BY EepromAssumption DEF FileOf, File

LEMMA ZeroFileType == ZeroFile \in File
  BY EepromAssumption DEF ZeroFile, File

LEMMA BlockType ==
  ASSUME NEW f \in File, NEW c \in 1..2, NEW i \in 1..N
  PROVE  f[c][i] \in Content
  BY DEF File

LEMMA ExceptType ==
  ASSUME NEW f \in File, NEW c \in 1..2, NEW i \in 1..N, NEW v \in Content
  PROVE  [f EXCEPT ![c][i] = v] \in File
  BY DEF File

LEMMA ExceptBlocks ==
  ASSUME NEW f \in File, NEW c \in 1..2, NEW i \in 1..N, NEW v
  PROVE  \A k \in 1..2, j \in 1..N :
           [f EXCEPT ![c][i] = v][k][j] = IF k = c /\ j = i THEN v ELSE f[k][j]
  BY DEF File

LEMMA SameFile ==
  ASSUME NEW f \in File, NEW g \in File,
         \A c \in 1..2, i \in 1..N : f[c][i] = g[c][i]
  PROVE  f = g
  <1>1. ASSUME NEW c \in 1..2 PROVE f[c] = g[c]
    <2> DEFINE fc == f[c]  gc == g[c]
    <2>1. /\ fc \in [1..N -> Content] /\ gc \in [1..N -> Content]
          /\ \A i \in 1..N : fc[i] = gc[i]
      BY DEF File
    <2> HIDE DEF fc, gc
    <2>2. fc = [i \in 1..N |-> fc[i]] /\ gc = [i \in 1..N |-> gc[i]]
      BY <2>1, Zenon
    <2>3. fc = gc
      BY <2>1, <2>2, Zenon
    <2> QED BY <2>3 DEF fc, gc
  <1> QED BY <1>1 DEF File

LEMMA SaveOfImage ==
  ASSUME NEW d \in Saves
  PROVE  Valid(Image[d]) /\ SaveIn(Image[d]) = d
  <1>1. \A x \in Saves : Image[d] = Image[x] => x = d
    BY EepromAssumption
  <1> QED BY <1>1 DEF Valid, SaveIn

LEMMA RecoverFirst ==
  ASSUME NEW f, NEW d \in Saves, f[1] = Image[d] PROVE Recover(f) = d
  BY SaveOfImage DEF Recover

LEMMA RecoverSecond ==
  ASSUME NEW f, NEW d \in Saves, ~Valid(f[1]), f[2] = Image[d] PROVE Recover(f) = d
  BY SaveOfImage DEF Recover

LEMMA RecoverType == ASSUME NEW f PROVE Recover(f) \in Saves \cup {Unsaved}
  <1>1. CASE Valid(f[1])
    BY <1>1, SaveOfImage DEF Valid, Recover
  <1>2. CASE Valid(f[2]) /\ ~Valid(f[1])
    BY <1>2, SaveOfImage DEF Valid, Recover
  <1>3. CASE ~Valid(f[2]) /\ ~Valid(f[1])
    BY <1>3 DEF Recover
  <1> QED BY <1>1, <1>2, <1>3

-----------------------------------------------------------------------------
(* The invariant.                                                          *)

LEMMA CountersStart == 1 \in 1..2 /\ 1 \in 1..N /\ 0 \in 0..ResetAfter
  BY EepromAssumption

LEMMA InitIInv == ASSUME Init PROVE IInv
  <1>1. eeprom \in File
    <2>1. [c \in 1..2 |-> [i \in 1..N |-> Torn]] \in File
      BY EepromAssumption DEF File
    <2> QED BY <2>1, FileOfType DEF Init
  <1>2. TypeOK
    BY <1>1, ZeroFileType, CountersStart DEF Init, TypeOK
  <1>3. OneCall /\ WriteOrder
    BY DEF Init, OneCall, WriteOrder, Busy
  <1> QED BY <1>2, <1>3 DEF IInv

LEMMA WriteKeepsType == ASSUME IInv, NEW d \in Saves, Write(d)
                        PROVE  io' \in File /\ ram' \in Saves /\ game' \in {"writing"}
  BY FileOfType DEF Write

\* The graphics thread's steps.
LEMMA GraphicsKeeps ==
  ASSUME IInv, Graphics \/ \E d \in Saves : SaveWrite(d) PROVE IInv'
  <1>1. CASE SaveRead
    BY <1>1 DEF SaveRead, IInv, TypeOK, OneCall, WriteOrder, Busy, Past, FileOf
  <1>2. CASE SaveReadDone
    BY <1>2, RecoverType DEF SaveReadDone, IInv, TypeOK, OneCall, WriteOrder, Busy, Past
  <1>3. CASE SaveReadFailed
    <2>1. TypeOK'
      BY <1>3, WriteKeepsType, EepromAssumption DEF SaveReadFailed, Write, IInv, TypeOK
    <2>2. OneCall'
      BY <1>3 DEF SaveReadFailed, Write, IInv, OneCall, TypeOK, Busy
    <2>3. WriteOrder'
      BY <1>3, EepromAssumption
         DEF SaveReadFailed, Write, IInv, OneCall, WriteOrder, TypeOK, Busy, FileOf
    <2> QED BY <2>1, <2>2, <2>3 DEF IInv
  <1>4. CASE SaveWriteReturns
    BY <1>4 DEF SaveWriteReturns, IInv, TypeOK, OneCall, WriteOrder, Busy, Past, FileOf
  <1>5. ASSUME NEW d \in Saves, SaveWrite(d) PROVE IInv'
    <2>1. TypeOK'
      BY <1>5, WriteKeepsType DEF SaveWrite, Write, IInv, TypeOK
    <2>2. OneCall'
      BY <1>5 DEF SaveWrite, Write, IInv, OneCall, TypeOK, Busy
    <2>3. WriteOrder'
      BY <1>5 DEF SaveWrite, Write, IInv, OneCall, WriteOrder, TypeOK, Busy, FileOf
    <2> QED BY <2>1, <2>2, <2>3 DEF IInv
  <1> QED BY <1>1, <1>2, <1>3, <1>4, <1>5 DEF Graphics

\* The serial thread's answers, and the start of a write.
LEMMA AnswersKeep ==
  ASSUME IInv, \/ Refuse \/ ReadData \/ WriteData
               \/ \E c \in 1..2, i \in 1..N : ReadDataFails(c, i)
  PROVE  IInv'
  <1>1. CASE Refuse
    BY <1>1 DEF Refuse, Reply, IInv, TypeOK, OneCall, WriteOrder, Busy, Past, FileOf
  <1>2. CASE ReadData
    BY <1>2 DEF ReadData, Reply, IInv, TypeOK, OneCall, WriteOrder, Busy, Past, FileOf
  <1>3. CASE WriteData
    <2>1. TypeOK' /\ OneCall'
      BY <1>3, EepromAssumption DEF WriteData, IInv, TypeOK, OneCall, Busy
    <2>2. \A c \in 1..2, i \in 1..N : ~Past(c, i)'
      BY <1>3 DEF WriteData, Past
    <2>3. WriteOrder'
      BY <1>3, <2>2 DEF WriteData, IInv, OneCall, WriteOrder, Busy, FileOf
    <2> QED BY <2>1, <2>3 DEF IInv
  <1>4. ASSUME NEW c \in 1..2, NEW i \in 1..N, ReadDataFails(c, i) PROVE IInv'
    <2>1. io' \in File
      BY <1>4 DEF ReadDataFails, IInv, TypeOK, File
    <2>2. game = "reading" /\ ~Busy /\ answer' = "failed"
      BY <1>4 DEF ReadDataFails, Reply, IInv, OneCall, Busy
    <2>3. TypeOK'
      BY <1>4, <2>1 DEF ReadDataFails, Reply, IInv, TypeOK
    <2>4. OneCall' /\ WriteOrder'
      BY <1>4, <2>2 DEF ReadDataFails, Reply, IInv, OneCall, WriteOrder, Busy
    <2> QED BY <2>3, <2>4 DEF IInv
  <1> QED BY <1>1, <1>2, <1>3, <1>4

\* The loop goes on from a block that the cache has.
LEMMA NextBlockKeeps ==
  ASSUME IInv, Busy, NextBlock, prev[copy][blk] = io[copy][blk],
         UNCHANGED <<prev, io, ram, game, request>>,
         eeprom' \in File, siFree' \in BOOLEAN, nmi' \in BOOLEAN, since' \in 0..ResetAfter
  PROVE  IInv'
  <1>1. TypeOK'
    BY EepromAssumption DEF NextBlock, Reply, IInv, TypeOK
  <1>2. OneCall'
    BY DEF NextBlock, Reply, IInv, OneCall, Busy
  <1>3. \A c \in 1..2, i \in 1..N : Past(c, i) \/ (c = copy /\ i = blk)
                                      => prev[c][i] = io[c][i]
    BY DEF IInv, WriteOrder
  <1>4. Busy' => \A c \in 1..2, i \in 1..N : Past(c, i)' => prev[c][i] = io[c][i]
    <2>1. Busy' => \A c \in 1..2, i \in 1..N :
                     Past(c, i)' => Past(c, i) \/ (c = copy /\ i = blk)
      BY EepromAssumption DEF NextBlock, Busy, Past, IInv, TypeOK
    <2> QED BY <1>3, <2>1
  <1>5. answer' = "success" => prev' = io'
    <2>1. SUFFICES ASSUME answer' = "success" PROVE prev = io
      OBVIOUS
    <2>2. copy = 2 /\ blk = N
      BY <2>1 DEF NextBlock, IInv, OneCall
    <2>3. \A c \in 1..2, i \in 1..N : Past(c, i) \/ (c = copy /\ i = blk)
      BY <2>2, EepromAssumption DEF Past
    <2> QED BY <1>3, <2>3, SameFile DEF IInv, TypeOK
  <1>6. WriteOrder'
    BY <1>4, <1>5 DEF NextBlock, IInv, WriteOrder, FileOf
  <1> QED BY <1>1, <1>2, <1>6 DEF IInv

LEMMA CachedFile ==
  ASSUME IInv, NEW f \in File
  PROVE  /\ Cached(f) \in File
         /\ \A c \in 1..2, i \in 1..N :
              Cached(f)[c][i] = IF c = copy /\ i = blk THEN io[c][i] ELSE f[c][i]
  <1>1. copy \in 1..2 /\ blk \in 1..N
    BY DEF IInv, TypeOK
  <1>2. io[copy][blk] \in Content
    BY <1>1, BlockType DEF IInv, TypeOK
  <1>3. Cached(f) \in File
    BY <1>1, <1>2, ExceptType DEF Cached
  <1>4. \A c \in 1..2, i \in 1..N :
          Cached(f)[c][i] = IF c = copy /\ i = blk THEN io[copy][blk] ELSE f[c][i]
    BY <1>1, ExceptBlocks DEF Cached
  <1> QED BY <1>3, <1>4

\* The block loop's steps.
LEMMA LoopKeeps ==
  ASSUME IInv, SkipBlock \/ WriteBlock \/ WriteBlockFails \/ BlockWritten PROVE IInv'
  <1>1. CASE SkipBlock
    BY <1>1, NextBlockKeeps DEF SkipBlock, Same, Busy, IInv, TypeOK
  <1>2. CASE WriteBlock
    <2>1. TypeOK'
      BY <1>2, CachedFile DEF WriteBlock, IInv, TypeOK
    <2>2. OneCall'
      BY <1>2 DEF WriteBlock, IInv, OneCall, Busy
    <2>3. \A c \in 1..2, i \in 1..N :
            Past(c, i) \/ (c = copy /\ i = blk) => prev'[c][i] = io[c][i]
      BY <1>2, CachedFile DEF WriteBlock, IInv, TypeOK, WriteOrder, Busy
    <2>4. WriteOrder'
      BY <1>2, <2>3 DEF WriteBlock, IInv, TypeOK, OneCall, WriteOrder, Busy, Past, FileOf
    <2> QED BY <2>1, <2>2, <2>4 DEF IInv
  <1>3. CASE WriteBlockFails
    <2>1. TypeOK'
      BY <1>3, CachedFile DEF WriteBlockFails, Reply, IInv, TypeOK
    <2>2. OneCall'
      BY <1>3 DEF WriteBlockFails, Reply, IInv, OneCall, Busy
    <2>3. WriteOrder'
      BY <1>3 DEF WriteBlockFails, Reply, IInv, OneCall, WriteOrder, Busy, FileOf
    <2> QED BY <2>1, <2>2, <2>3 DEF IInv
  <1>4. CASE BlockWritten
    <2>1. since' \in 0..ResetAfter
      BY <1>4, EepromAssumption DEF BlockWritten, IInv, TypeOK
    <2>2. prev[copy][blk] = io[copy][blk]
      BY <1>4 DEF BlockWritten, IInv, WriteOrder
    <2> QED BY <1>4, <2>1, <2>2, CachedFile, NextBlockKeeps
               DEF BlockWritten, Busy, IInv, TypeOK
  <1> QED BY <1>1, <1>2, <1>3, <1>4

LEMMA BootKeeps == ASSUME Boot, eeprom' \in File PROVE IInv'
  <1>1. TypeOK'
    BY ZeroFileType, CountersStart DEF Boot, TypeOK
  <1>2. OneCall' /\ WriteOrder'
    BY DEF Boot, OneCall, WriteOrder, Busy
  <1> QED BY <1>1, <1>2 DEF IInv

\* The console's steps.
LEMMA ConsoleKeeps == ASSUME IInv, PreNMI \/ Reset \/ PowerCycle PROVE IInv'
  <1>1. CASE PreNMI
    BY <1>1 DEF PreNMI, IInv, TypeOK, OneCall, WriteOrder, Busy, Past, FileOf
  <1>2. CASE Reset
    BY <1>2, BootKeeps, CachedFile DEF Reset, IInv, TypeOK
  <1>3. CASE PowerCycle
    <2>1. [eeprom EXCEPT ![copy][blk] = Torn] \in File
      BY ExceptType, EepromAssumption DEF IInv, TypeOK
    <2> QED BY <1>3, <2>1, BootKeeps, CachedFile DEF PowerCycle, IInv, TypeOK
  <1> QED BY <1>1, <1>2, <1>3

LEMMA StepKeeps == ASSUME IInv, [Next]_vars PROVE IInv'
  <1>1. CASE UNCHANGED vars
    BY <1>1 DEF vars, IInv, TypeOK, OneCall, WriteOrder, Busy, Past, FileOf
  <1>2. CASE Next
    BY <1>2, GraphicsKeeps, AnswersKeep, LoopKeeps, ConsoleKeeps DEF Next, Serial
  <1> QED BY <1>1, <1>2

\* The inductive invariant: one call at a time, and a cache that agrees with
\* the buffer up to the block the write is at.
THEOREM IInvHolds == Spec => []IInv
  BY InitIInv, StepKeeps, PTL DEF Spec

\* Every variable of the EEPROM save keeps its type, its loops their bounds.
THEOREM EepromTypeOK == Spec => []TypeOK
  <1>1. IInv => TypeOK BY DEF IInv
  <1> QED BY <1>1, IInvHolds, PTL

\* A Save_Write that reports success, with a cache that told the truth, has put
\* both copies on the chip, although it wrote only the blocks that changed.
THEOREM SuccessHolds == Spec => []SuccessIsStored
  <1>1. IInv => SuccessIsStored
    BY DEF IInv, SuccessIsStored, CacheTrue, WriteOrder, OneCall, Busy
  <1> QED BY <1>1, IInvHolds, PTL

-----------------------------------------------------------------------------
(* The refinement of SavedGame.                                            *)

Changed(f, c, i, v) == [f EXCEPT ![c][i] = v]

\* One block of a safe file changes: to the block of the save being written,
\* in order, or to one that was cut.
LEMMA BlockIsSafe ==
  ASSUME NEW f \in File, NEW old \in Saves, NEW new \in Saves,
         NEW c \in 1..2, NEW i \in 1..N, NEW v \in {Torn, Image[new][i]},
         Recover(f) = old, f[2] = Image[old],
         \A d \in Saves : f[1][N] = Image[d][N] => d \in {old, new},
         c = 2 => f[1] = Image[new]
  PROVE  Recover(Changed(f, c, i, v)) \in {old, new}
  <1> DEFINE g == Changed(f, c, i, v)
  <1>1. CASE c = 2
    <2>1. g[1] = Image[new]
      BY <1>1 DEF Changed, File
    <2> QED BY <2>1, RecoverFirst
  <1>2. CASE c = 1
    <2>1. g[2] = Image[old]
      BY <1>2 DEF Changed, File
    <2>2. ASSUME NEW d \in Saves, g[1] = Image[d] PROVE d \in {old, new}
      <3>1. g[1][N] = Image[d][N]
        BY <2>2
      <3>2. g[1][N] = IF i = N THEN v ELSE f[1][N]
        BY <1>2, EepromAssumption DEF Changed, File
      <3>3. CASE i # N
        BY <3>1, <3>2, <3>3
      <3>4. CASE i = N
        BY <3>1, <3>2, <3>4, EepromAssumption
      <3> QED BY <3>3, <3>4
    <2>3. CASE Valid(g[1])
      BY <2>2, <2>3, RecoverFirst DEF Valid
    <2>4. CASE ~Valid(g[1])
      BY <2>1, <2>4, RecoverSecond
    <2> QED BY <2>3, <2>4
  <1> QED BY <1>1, <1>2

LEMMA InitRefines == ASSUME Init PROVE Game!Init
  BY RecoverType DEF Init, Game!Init, Stored, Wanted, Safe

LEMMA SafeIsBoolean == Safe' \in BOOLEAN
  BY DEF Safe

LEMMA StoredType == Stored' \in Saves \cup {Unsaved}
  BY RecoverType DEF Stored

\* A step that changes neither the chip nor what the game waits for.
LEMMA KeepsRefine ==
  ASSUME UNCHANGED eeprom, Wanted' = Wanted PROVE Game!Next
  BY SafeIsBoolean DEF Game!Next, Game!Degrade, Stored

\* A save is asked for.
LEMMA AskRefines ==
  ASSUME UNCHANGED eeprom, NEW d \in Saves, Wanted' = d PROVE Game!Next
  BY SafeIsBoolean DEF Game!Next, Game!Ask, Stored

\* When the save was not safe, anything may be stored.
LEMMA LoseRefines ==
  ASSUME ~Safe, Wanted' \in {Wanted, Unsaved} PROVE Game!Next
  BY SafeIsBoolean, StoredType DEF Game!Next, Game!Lose

\* When it was, a call that ends leaves the old save or the new one.
LEMMA EndRefines ==
  ASSUME Stored' \in {Stored, Wanted}, Stored' # Unsaved, Wanted' = Unsaved
  PROVE  Game!Next
  BY SafeIsBoolean DEF Game!Next, Game!End

LEMMA WriteRefines ==
  ASSUME Stored' \in {Stored, Wanted}, Wanted' = Wanted, Wanted # Unsaved
  PROVE  Game!Next
  BY SafeIsBoolean DEF Game!Next, Game!Commit, Game!Degrade

\* A block the chip takes, whole or torn, while a safe save is being replaced.
LEMMA ChipIsSafe ==
  ASSUME IInv, Safe, Busy, serial = "writing" \/ serial = "programming",
         NEW v \in {Torn, io[copy][blk]}
  PROVE  Recover(Changed(eeprom, copy, blk, v)) \in {Stored, ram}
  <1>1. /\ copy \in 1..2 /\ blk \in 1..N /\ eeprom \in File /\ ram \in Saves
        /\ game = "writing" /\ io = FileOf(ram)
    BY DEF IInv, TypeOK, OneCall, WriteOrder
  <1>2. Stored \in Saves
    BY RecoverType DEF Safe, Stored
  <1>3. v \in {Torn, Image[ram][blk]}
    BY <1>1 DEF FileOf
  <1>4. ASSUME copy = 2 PROVE eeprom[1] = Image[ram]
    <2>1. \A i \in 1..N : prev[1][i] = Image[ram][i]
      BY <1>1, <1>4 DEF IInv, WriteOrder, Past, FileOf
    <2>2. prev[1] = eeprom[1]
      BY <1>1, <1>4 DEF Safe, CacheTrue, Cached, File
    <2> DEFINE e1 == eeprom[1]  im == Image[ram]
    <2>3. /\ e1 \in [1..N -> Content] /\ im \in [1..N -> Content]
          /\ \A i \in 1..N : e1[i] = im[i]
      BY <1>1, <2>1, <2>2, EepromAssumption DEF File
    <2> HIDE DEF e1, im
    <2>4. e1 = [i \in 1..N |-> e1[i]] /\ im = [i \in 1..N |-> im[i]]
      BY <2>3, Zenon
    <2>5. e1 = im
      BY <2>3, <2>4, Zenon
    <2> QED BY <2>5 DEF e1, im
  <1>5. \A d \in Saves : eeprom[1][N] = Image[d][N] => d \in {Stored, ram}
    BY <1>1 DEF Safe, Wanted
  <1>6. Recover(eeprom) = Stored /\ eeprom[2] = Image[Stored]
    BY DEF Safe, Stored
  <1> QED BY <1>1, <1>2, <1>3, <1>4, <1>5, <1>6, BlockIsSafe

LEMMA GraphicsRefines ==
  ASSUME IInv, Graphics \/ \E d \in Saves : SaveWrite(d) PROVE Game!Next
  <1>1. CASE SaveRead
    BY <1>1, KeepsRefine DEF SaveRead, Wanted
  <1>2. CASE SaveReadDone
    BY <1>2, KeepsRefine DEF SaveReadDone, Wanted
  <1>3. CASE SaveReadFailed
    BY <1>3, AskRefines, EepromAssumption DEF SaveReadFailed, Write, Wanted
  <1>4. CASE SaveWriteReturns
    <2>1. UNCHANGED eeprom /\ Wanted' = Unsaved
      BY <1>4 DEF SaveWriteReturns, Wanted
    <2>2. CASE Safe
      BY <2>1, <2>2, EndRefines DEF Safe, Stored
    <2> QED BY <2>1, <2>2, LoseRefines
  <1>5. ASSUME NEW d \in Saves, SaveWrite(d) PROVE Game!Next
    BY <1>5, AskRefines DEF SaveWrite, Write, Wanted
  <1> QED BY <1>1, <1>2, <1>3, <1>4, <1>5 DEF Graphics

LEMMA SerialRefines == ASSUME IInv, Serial PROVE Game!Next
  <1>1. UNCHANGED <<game, ram>> /\ Wanted' = Wanted
    BY DEF Serial, Refuse, ReadData, WriteData, SkipBlock, WriteBlock, WriteBlockFails,
           BlockWritten, ReadDataFails, Wanted
  <1>2. CASE UNCHANGED eeprom
    BY <1>1, <1>2, KeepsRefine
  <1>3. CASE eeprom' = Cached(eeprom) /\ serial \in {"writing", "programming"}
    <2>1. Wanted = ram /\ Wanted # Unsaved
      BY <1>3, EepromAssumption DEF IInv, OneCall, WriteOrder, Wanted, Busy
    <2>2. CASE Safe
      <3>1. Stored' \in {Stored, Wanted}
        BY <1>3, <2>1, <2>2, ChipIsSafe DEF Changed, Cached, Stored, Busy
      <3> QED BY <1>1, <2>1, <3>1, WriteRefines
    <2> QED BY <1>1, <2>2, LoseRefines
  <1> QED BY <1>2, <1>3
          DEF Serial, Refuse, ReadData, WriteData, SkipBlock, WriteBlock, WriteBlockFails,
              BlockWritten, ReadDataFails

LEMMA ConsoleRefines == ASSUME IInv, PreNMI \/ Reset \/ PowerCycle PROVE Game!Next
  <1>1. CASE PreNMI
    BY <1>1, KeepsRefine DEF PreNMI, Wanted
  <1>2. CASE Reset \/ PowerCycle
    <2>1. Wanted' = Unsaved
      BY <1>2 DEF Reset, PowerCycle, Boot, Wanted
    <2>2. CASE Safe /\ UNCHANGED eeprom
      BY <2>1, <2>2, EndRefines DEF Safe, Stored
    <2>3. CASE Safe /\ ~UNCHANGED eeprom
      <3>1. /\ serial = "programming"
            /\ \E v \in {Torn, io[copy][blk]} : eeprom' = Changed(eeprom, copy, blk, v)
        BY <1>2, <2>3 DEF Reset, PowerCycle, Cached, Changed
      <3>2. Wanted = ram /\ ram \in Saves
        BY <3>1 DEF IInv, OneCall, WriteOrder, Wanted, Busy
      <3>3. Stored' \in {Stored, Wanted}
        BY <2>3, <3>1, <3>2, ChipIsSafe DEF Stored, Busy
      <3>4. Stored' # Unsaved
        BY <2>3, <3>2, <3>3, EepromAssumption DEF Safe
      <3> QED BY <2>1, <3>3, <3>4, EndRefines
    <2> QED BY <2>1, <2>2, <2>3, LoseRefines
  <1> QED BY <1>1, <1>2

LEMMA StepRefines == ASSUME IInv, [Next]_vars PROVE [Game!Next]_(Game!vars)
  <1>1. CASE UNCHANGED vars
    BY <1>1 DEF vars, Game!vars, Stored, Wanted, Safe, CacheTrue, Cached
  <1>2. CASE Next
    BY <1>2, GraphicsRefines, SerialRefines, ConsoleRefines DEF Next
  <1> QED BY <1>1, <1>2

\* A failing transfer, a reset or a power cut at any block of a write leaves
\* the old save or the new one, unless the copies disagreed before it or the
\* cache was wrong: the EEPROM save implements SavedGame.
THEOREM SavedGameHolds == Spec => SavedGameSpec
  <1>1. IInv /\ [Next]_vars => [Game!Next]_(Game!vars)
    BY StepRefines
  <1> QED BY <1>1, InitRefines, IInvHolds, PTL DEF Spec, SavedGameSpec, Game!Spec
=============================================================================

------------------------------- MODULE SdCard -------------------------------
(***************************************************************************)
(* The way to the SD card of an SC64 flashcart: FatFs's disk layer         *)
(* (lib/fatfs/diskio.c), lib/iodev, its SC64 backend, and libultra's PI    *)
(* manager, whose bus and access token they share with the audio thread's  *)
(* reads of the ROM.  The cart's firmware may fail a command, time out, or *)
(* acknowledge a write that never lands.                                   *)
(***************************************************************************)
EXTENDS Naturals, Sequences, FiniteSetsExt

CONSTANTS
  N,                   \* sectors of the card
  Transfers,           \* what FatFs writes, per sector, or where it reads
  Data, Torn, None,    \* see SectorStore
  IODEV_MAX_CHUNK_SECTORS, META_WRITE_RETRIES,
  PiQueueLen           \* room on gPiMgrCmdQueue

Lbas == 1..N

ASSUME SdCardAssumption ==
  /\ N \in Nat \ {0}
  /\ \A f \in Transfers : \E a \in Lbas : \E b \in a..N : f \in [a..b -> Data]
  /\ Torn \notin Data /\ None \notin Data \cup {Torn, "game", "audio", "ok", "error"}
  /\ None \notin [op : {"read", "write"}, verified : BOOLEAN, want : Transfers]
  /\ IODEV_MAX_CHUNK_SECTORS \in Nat \ {0} /\ META_WRITE_RETRIES \in Nat \ {0}
  /\ PiQueueLen \in Nat \ {0}

VARIABLES
  sFatfsDiskInited, sIodevSdInitResult, sSdAvailable,
  call,        \* the iodev or disk call the game thread is in
  request, answer, buffer,    \* see SectorStore
  at, attempt, verifying,     \* disk_write's sector, attempt, and read-back
  r,           \* the result of the last iodev step
  pc,          \* where in the backend the game thread is
  locked,      \* between sc64_cart_lock and sc64_cart_unlock
  scratch,     \* the bounce and the verify buffer
  token,       \* __osPiAccessQueue holds its message
  piQueue,     \* gPiMgrCmdQueue: whose DMA
  manager,     \* __osDevMgrMain: the request it has taken
  dma,         \* the PI hardware: whose DMA is under way
  event,       \* PI event queue
  reply,       \* sSc64DmaMq
  audio,       \* the audio thread waits for a DMA
  card, owned, \* the sectors; whether the N64 side holds the firmware's SD lock
  sectorSet, cart   \* the firmware's sector register and data buffer

diskVars == <<sFatfsDiskInited, sIodevSdInitResult, sSdAvailable>>
callVars == <<call, request, answer, at, attempt, verifying>>
piVars == <<piQueue, manager, dma, event, audio>>
cardVars == <<card, owned, sectorSet, cart>>
\* What the PI manager and the audio thread leave alone, but for memory.
gameVars == <<diskVars, callVars, r, pc, locked>>
vars == <<gameVars, buffer, scratch, token, piVars, reply, cardVars>>

Calls == {"init", "mount", "release", "acquire", "read", "write"}
Steps == {"op", "opped", "set", "isSet", "run", "ran", "dma", "wait"}

Store == INSTANCE SectorStore WITH sectors <- card

TypeOK ==
  /\ sFatfsDiskInited \in BOOLEAN /\ sSdAvailable \in BOOLEAN
  /\ sIodevSdInitResult \in {"never", "ok", "error"}
  /\ call \in Calls \cup {"none"} /\ answer \in {None, "ok", "error"}
  /\ request # None => request \in Store!Requests /\ at \in DOMAIN request.want
  /\ call \in {"read", "write"} <=> request # None
  /\ attempt \in 0..META_WRITE_RETRIES - 1 /\ verifying \in BOOLEAN
  /\ r \in {"ok", "error"} /\ locked \in BOOLEAN /\ token \in BOOLEAN
  /\ pc \in Steps \cup {"idle"} /\ (pc = "idle" <=> call = "none")
  /\ piQueue \in Seq({"game", "audio"}) /\ Len(piQueue) <= PiQueueLen
  /\ {manager, dma} \subseteq {"game", "audio", None}
  /\ event \in BOOLEAN /\ reply \in BOOLEAN /\ audio \in BOOLEAN
  /\ buffer \in [Lbas -> Data \cup {None}] /\ scratch \in Data \cup {None}
  /\ card \in [Lbas -> Data \cup {Torn}] /\ owned \in BOOLEAN
  /\ sectorSet \in Lbas /\ cart \in [1..IODEV_MAX_CHUNK_SECTORS -> Data \cup {None}]

Init ==
  /\ sFatfsDiskInited = FALSE /\ sIodevSdInitResult = "never" /\ sSdAvailable = FALSE
  /\ call = "none" /\ request = None /\ answer = None
  /\ at = 1 /\ attempt = 0 /\ verifying = FALSE /\ r = "ok" /\ pc = "idle"
  /\ locked = FALSE /\ token = TRUE
  /\ piQueue = <<>> /\ manager = None /\ dma = None
  /\ event = FALSE /\ reply = FALSE /\ audio = FALSE
  /\ buffer = [l \in Lbas |-> None] /\ scratch = None
  /\ card \in [Lbas -> Data] /\ owned = FALSE
  /\ sectorSet = 1 /\ cart = [i \in 1..IODEV_MAX_CHUNK_SECTORS |-> None]

-----------------------------------------------------------------------------
(* The calls: practice_sd.c, FatFs, diskio.c                               *)

\* The game thread enters iodev_sd_init, _release or _acquire.
Enter(c) ==
  /\ call = "none" /\ call' = c /\ pc' = "op"
  /\ UNCHANGED <<diskVars, request, answer, at, attempt, verifying, buffer, r, locked,
                 scratch, token, piVars, reply, cardVars>>

\* Practice_Sd_LazyInit: once, at the first use of the SD menu.
LazyInit == ~sSdAvailable /\ sIodevSdInitResult = "never" /\ Enter("init")

\* on_save_name_confirmed, on_load_file_selected: release, then acquire.
SelfHeal == sSdAvailable /\ Enter("release")

\* disk_initialize, when FatFs mounts the volume: nothing once it succeeded;
\* else the cached result of the card's only initialization counts.
DiskInitialize ==
  /\ ~sFatfsDiskInited
  /\ \/ sIodevSdInitResult = "never" /\ Enter("mount")
     \/ /\ call = "none" /\ sIodevSdInitResult = "ok" /\ sFatfsDiskInited' = TRUE
        /\ UNCHANGED <<sIodevSdInitResult, sSdAvailable, callVars, buffer, r, pc, locked,
                       scratch, token, piVars, reply, cardVars>>

\* disk_read, disk_write: FatFs asks an initialized disk only.
DiskRequest(op, verified, want) ==
  /\ call = "none" /\ sFatfsDiskInited
  /\ call' = op /\ pc' = (IF op = "write" THEN "dma" ELSE "set")
  /\ request' = [op |-> op, verified |-> verified, want |-> want] /\ answer' = None
  /\ at' = Min(DOMAIN want) /\ buffer' = [l \in Lbas |-> None]
  /\ UNCHANGED <<diskVars, attempt, verifying, r, locked, scratch, token, piVars, reply,
                 cardVars>>

\* Of a read, the sectors count, not what they are to hold.  A window or a FIL
\* buffer lies off the 8-byte grid: it goes one sector at a time, and is verified.
DiskRead == \E f \in Transfers, verified \in BOOLEAN : DiskRequest("read", verified, f)
DiskWrite == \E f \in Transfers, verified \in BOOLEAN : DiskRequest("write", verified, f)

-----------------------------------------------------------------------------
(* disk_read and disk_write from one transfer to the next                  *)

Last == Max(DOMAIN request.want)

\* How many sectors the transfer at hand is of.
Chunk == IF request.verified THEN 1
         ELSE Min({IODEV_MAX_CHUNK_SECTORS, Last - at + 1})

Sectors == at..at + Chunk - 1
Reading == call = "read" \/ verifying

Return(a) ==
  /\ call' = "none" /\ pc' = "idle" /\ request' = None /\ answer' = a
  /\ attempt' = 0 /\ verifying' = FALSE /\ at' = 1

\* The transfer is through: the next one, or the call is done.
Advance ==
  IF at + Chunk > Last THEN Return("ok")
  ELSE /\ at' = at + Chunk /\ attempt' = 0 /\ verifying' = FALSE
       /\ pc' = (IF call = "write" THEN "dma" ELSE "set")
       /\ UNCHANGED <<call, request, answer>>

\* For a mutant: one attempt too many.
MayRetryOnce == attempt < META_WRITE_RETRIES

MayRetry == attempt < META_WRITE_RETRIES - 1

Retry ==
  /\ attempt' = attempt + 1 /\ verifying' = FALSE /\ pc' = "dma"
  /\ UNCHANGED <<call, request, answer, at>>

\* An iodev call fails.
Fail == IF call = "write" /\ request.verified /\ MayRetry THEN Retry ELSE Return("error")

\* For a mutant: the mismatch leaves r as the read-back set it.
MismatchKeepsResult == IF MayRetry THEN Retry ELSE Advance

\* What was read back is not what was written.
Mismatch == Fail

Goto(step) == pc' = step /\ UNCHANGED callVars

\* The write is acknowledged: one sector of metadata is read back.
Written ==
  IF request.verified
  THEN /\ verifying' = TRUE /\ pc' = "set"
       /\ UNCHANGED <<call, request, answer, at, attempt>>
  ELSE Advance

-----------------------------------------------------------------------------
(* The SC64 backend                                                        *)

\* sc64_cart_lock: the access token, then interrupts off.
CartLock ==
  /\ pc \in {"op", "set", "run"} /\ ~locked /\ token
  /\ token' = FALSE /\ locked' = TRUE
  /\ UNCHANGED <<diskVars, callVars, buffer, r, pc, scratch, piVars, reply, cardVars>>

\* SD_OP_INIT and SD_OP_DEINIT take and give up the firmware's SD lock.
CardOp ==
  /\ pc = "op" /\ pc' = "opped"
  /\ \/ r' = "ok" /\ owned' = (call # "release")
     \/ r' = "error" /\ owned' \in (IF call = "release" THEN {owned} ELSE {owned, FALSE})
  /\ UNCHANGED <<card, sectorSet, cart>>

SectorSet ==
  /\ pc = "set" /\ pc' = "isSet"
  /\ \/ r' = "ok" /\ sectorSet' = at
     \/ r' = "error" /\ UNCHANGED sectorSet
  /\ UNCHANGED <<card, owned, cart>>

SectorAt(i) == sectorSet + i - 1

SdRead ==
  /\ pc = "run" /\ Reading /\ pc' = "ran"
  /\ \/ /\ r' = "ok" /\ owned
        /\ \A i \in 1..Chunk : card[SectorAt(i)] # Torn
        /\ cart' = [i \in DOMAIN cart |->
                      IF i <= Chunk THEN card[SectorAt(i)] ELSE cart[i]]
     \/ r' = "error" /\ UNCHANGED cart
  /\ UNCHANGED <<card, owned, sectorSet>>

\* "a clean ACK is not proof of persistence" (diskio.c).
SdWrite ==
  /\ pc = "run" /\ ~Reading /\ pc' = "ran"
  /\ LET meant == {l \in Lbas : l - sectorSet \in 0..Chunk - 1}
         written == [l \in Lbas |-> IF l \in meant THEN cart[l - sectorSet + 1]
                                                  ELSE card[l]]
     IN \/ r' = "ok" /\ owned /\ card' \in {written, card}
        \/ /\ r' = "error"
           /\ card' \in {f \in [Lbas -> Data \cup {Torn}] :
                 \A l \in Lbas : f[l] = card[l]
                    \/ (owned /\ l \in meant /\ f[l] \in {written[l], Torn})}
  /\ UNCHANGED <<owned, sectorSet, cart>>

\* sc64_execute_cmd to its sc64_cart_unlock: no interrupt and no other thread.
ExecuteCmd ==
  /\ locked /\ (CardOp \/ SectorSet \/ SdRead \/ SdWrite)
  /\ locked' = FALSE /\ token' = TRUE
  /\ UNCHANGED <<diskVars, callVars, buffer, scratch, piVars, reply>>

\* sc64_settle waits for the token, gives it back, and the caller goes on.
Settled(step) ==
  /\ pc = step /\ token
  /\ UNCHANGED <<buffer, r, locked, scratch, token, piVars, reply, cardVars>>

SectorIsSet ==
  /\ Settled("isSet") /\ UNCHANGED diskVars
  /\ IF r = "ok" THEN Goto("run") ELSE Fail

CommandRan ==
  /\ Settled("ran") /\ UNCHANGED diskVars
  /\ IF r # "ok" THEN Fail ELSE IF Reading THEN Goto("dma") ELSE Written

\* iodev_sd_init, _release, _acquire return; the result is cached, a failed
\* release is not noticed, and disk_initialize latches a success for good.
CardOpReturns ==
  /\ Settled("opped")
  /\ sIodevSdInitResult' = (IF call = "release" THEN sIodevSdInitResult ELSE r)
  /\ sSdAvailable' = (IF call = "init" THEN r = "ok" ELSE sSdAvailable)
  /\ sFatfsDiskInited' = (sFatfsDiskInited \/ (call = "mount" /\ r = "ok"))
  /\ IF call = "release" THEN call' = "acquire" /\ pc' = "op"
                          ELSE call' = "none" /\ pc' = "idle"
  /\ UNCHANGED <<request, answer, at, attempt, verifying>>

\* osPiStartDma between the cart's buffer and memory, if the queue has room.
StartDma ==
  /\ pc = "dma"
  /\ IF Len(piQueue) < PiQueueLen
     THEN Goto("wait") /\ piQueue' = Append(piQueue, "game") /\ UNCHANGED r
     ELSE Fail /\ r' = "error" /\ UNCHANGED piQueue
  /\ UNCHANGED <<diskVars, buffer, locked, scratch, token, manager, dma, event, audio,
                 reply, cardVars>>

\* The DMA's message has come: a write gives its commands, a read is through, a
\* read-back is compared, and is of no use after that.
DmaDone ==
  /\ pc = "wait" /\ reply /\ reply' = FALSE /\ scratch' = None
  /\ IF ~Reading THEN Goto("set")
     ELSE IF ~verifying \/ scratch = request.want[at] THEN Advance ELSE Mismatch
  /\ UNCHANGED <<diskVars, buffer, r, locked, token, piVars, cardVars>>

-----------------------------------------------------------------------------
(* The PI manager's thread, the PI, the audio thread                       *)

ManagerTakes ==
  /\ ~locked /\ manager = None /\ piQueue # <<>>
  /\ manager' = Head(piQueue) /\ piQueue' = Tail(piQueue)
  /\ UNCHANGED <<gameVars, buffer, scratch, token, dma, event, audio, reply, cardVars>>

StartsDma ==
  /\ ~locked /\ manager # None /\ dma = None /\ ~event
  /\ dma' = manager
  /\ UNCHANGED <<gameVars, buffer, scratch, piQueue, manager, event, audio, reply,
                 cardVars>>

\* For a mutant: the DMA starts without the access token.
ManagerStartsAtOnce == StartsDma /\ UNCHANGED token

ManagerStarts == StartsDma /\ token /\ token' = FALSE

Replies ==
  /\ ~locked /\ event /\ event' = FALSE /\ manager' = None
  /\ IF manager = "game" THEN reply' = TRUE /\ UNCHANGED audio
                         ELSE audio' = FALSE /\ UNCHANGED reply
  /\ UNCHANGED <<gameVars, buffer, scratch, piQueue, dma, cardVars>>

\* For a mutant: the token is not given back.
ManagerKeepsToken == Replies /\ UNCHANGED token

ManagerReplies == Replies /\ token' = TRUE

\* The transfer is over.
PiDone ==
  /\ dma # None /\ dma' = None /\ event' = TRUE
  /\ IF dma = "audio" THEN UNCHANGED <<buffer, scratch, cart>>
     ELSE IF verifying THEN scratch' = cart[1] /\ UNCHANGED <<buffer, cart>>
     ELSE IF call = "read"
     THEN /\ buffer' = [l \in Lbas |->
                          IF l \in Sectors THEN cart[l - at + 1] ELSE buffer[l]]
          /\ UNCHANGED <<scratch, cart>>
     ELSE /\ cart' = [i \in DOMAIN cart |->
                        IF i <= Chunk THEN request.want[at + i - 1] ELSE cart[i]]
          /\ UNCHANGED <<buffer, scratch>>
  /\ UNCHANGED <<gameVars, token, piQueue, manager, audio, reply, card, owned, sectorSet>>

\* AudioLoad_Dma: a piece of a sample or a soundfont from the ROM, some of
\* them ahead of the queue.
AudioAsks ==
  /\ ~locked /\ ~audio /\ Len(piQueue) < PiQueueLen
  /\ piQueue' \in {Append(piQueue, "audio"), <<"audio">> \o piQueue}
  /\ audio' = TRUE
  /\ UNCHANGED <<gameVars, buffer, scratch, token, manager, dma, event, reply, cardVars>>

Requests == LazyInit \/ SelfHeal \/ DiskInitialize \/ DiskRead \/ DiskWrite
Game == CartLock \/ ExecuteCmd \/ SectorIsSet \/ CommandRan \/ CardOpReturns
        \/ StartDma \/ DmaDone
Manager == ManagerTakes \/ ManagerStarts \/ ManagerReplies
Next == Requests \/ Game \/ Manager \/ PiDone \/ AudioAsks

Spec == Init /\ [][Next]_vars

\* The PI and its manager, the thread of the highest priority, get on.  The audio
\* thread asks for so many pieces a retrace and no more, so the token is there for
\* the game thread again and again, and one time it takes it.
FairSpec == Spec /\ WF_vars(Manager) /\ WF_vars(PiDone) /\ SF_vars(Game)

-----------------------------------------------------------------------------
(* Properties                                                              *)

\* diskio.c, "a clean ACK is not proof of persistence": whatever the firmware
\* acknowledges and whichever attempts fail, a verified write that returns RES_OK
\* is on the card, a read that does gives what is, and no other sector changed.
SectorStoreSpec == Store!Spec

\* "PI access + IRQs disabled means no audio DMA or interrupt can interleave with
\* the SCR poll" (iodev_sc64.c): one of cart lock, DMA and queue has the token,
\* through every failure and retry.
TokenHolders == (IF token THEN 1 ELSE 0) + (IF locked THEN 1 ELSE 0)
                + (IF dma # None \/ event THEN 1 ELSE 0)
OneTokenHolder == TokenHolders = 1

\* Every call returns to the game, which waits for it within its frame: no
\* exchange of token, queue and messages with the PI manager hangs.
CallsReturn == call # "none" ~> call = "none"
=============================================================================

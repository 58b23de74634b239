---------------------------- MODULE SdCard_proofs ----------------------------
(***************************************************************************)
(* The proofs of SdCard: its types, that one party at a time has the PI,   *)
(* and that the disk layer implements SectorStore, for any card, any data  *)
(* to transfer, any chunk size and number of attempts.                     *)
(***************************************************************************)
EXTENDS SdCard, TLAPS

Commands == {"set", "isSet", "run", "ran", "dma", "wait"}

\* What a call is about, and where it may be.
Flow ==
  /\ request # None =>
       /\ request \in [op : {"read", "write"}, verified : BOOLEAN, want : Transfers]
       /\ request.op = call
  /\ request # None => pc \in Commands
  /\ call \in Calls \ {"read", "write"} => pc \in {"op", "opped"}
  /\ verifying => call = "write" /\ request.verified
  /\ pc = "run" \/ (pc = "isSet" /\ r = "ok") => sectorSet = at

Asked == \E i \in DOMAIN piQueue : piQueue[i] = "game"

\* The PI and its token; the game thread waits for one DMA at a time.
Bus ==
  /\ OneTokenHolder
  /\ dma # None => manager = dma /\ ~event
  /\ event => manager # None
  /\ Asked \/ manager = "game" => pc = "wait" /\ ~reply
  /\ Asked => manager # "game"
  /\ \A i, j \in DOMAIN piQueue : piQueue[i] = "game" /\ piQueue[j] = "game" => i = j
  /\ reply => pc = "wait"

\* The DMA the game thread waits for has been done.
Carried == pc = "wait" /\ (reply \/ (event /\ manager = "game"))

\* What the cart's buffer, memory and the card hold of the request.
ToWrite == call = "write" /\ ~verifying /\ (pc \in {"set", "isSet", "run"} \/ Carried)
HasRead == Reading /\ (pc \in {"dma", "wait"} \/ (pc = "ran" /\ r = "ok"))
Cargo ==
  /\ call = "write" /\ request.verified =>
       \A l \in DOMAIN request.want : l < at => card[l] = request.want[l]
  /\ call = "read" => \A l \in DOMAIN request.want : l < at => buffer[l] = card[l]
  /\ ToWrite => \A i \in 1..Chunk : cart[i] = request.want[at + i - 1]
  /\ HasRead => \A i \in 1..Chunk : cart[i] = card[at + i - 1]
  /\ verifying /\ Carried => scratch = card[at]
  /\ call = "read" /\ Carried => \A l \in at..at + Chunk - 1 : buffer[l] = card[l]

IInv == TypeOK /\ Flow /\ Bus /\ Cargo

-----------------------------------------------------------------------------
(* Requests and their chunks.                                              *)

LEMMA NumberOfSectors == N \in Nat
  BY SdCardAssumption

LEMMA MaxOfRange == ASSUME NEW a \in Nat, NEW b \in Nat, a <= b PROVE Max(a..b) = b
  <1>1. b \in a..b /\ \A y \in a..b : b >= y
    OBVIOUS
  <1>2. \A x \in a..b : (\A y \in a..b : x >= y) => x = b
    OBVIOUS
  <1> QED BY <1>1, <1>2 DEF Max

LEMMA MinOfRange == ASSUME NEW a \in Nat, NEW b \in Nat, a <= b PROVE Min(a..b) = a
  <1>1. a \in a..b /\ \A y \in a..b : a <= y
    OBVIOUS
  <1>2. \A x \in a..b : (\A y \in a..b : x <= y) => x = a
    OBVIOUS
  <1> QED BY <1>1, <1>2 DEF Min

LEMMA MinOfTwo ==
  ASSUME NEW a \in Nat, NEW b \in Nat
  PROVE  Min({a, b}) = IF a <= b THEN a ELSE b
  <1>1. CASE a <= b
    <2>1. \A x \in {a, b} : (\A y \in {a, b} : x <= y) <=> x = a
      BY <1>1
    <2> QED BY <1>1, <2>1 DEF Min
  <1>2. CASE ~(a <= b)
    <2>1. \A x \in {a, b} : (\A y \in {a, b} : x <= y) <=> x = b
      BY <1>2
    <2> QED BY <1>2, <2>1 DEF Min
  <1> QED BY <1>1, <1>2

LEMMA TransferType ==
  ASSUME NEW f \in Transfers
  PROVE  /\ DOMAIN f = Min(DOMAIN f)..Max(DOMAIN f)
         /\ Min(DOMAIN f) \in Lbas /\ Max(DOMAIN f) \in Lbas
         /\ Min(DOMAIN f) <= Max(DOMAIN f)
         /\ f \in [DOMAIN f -> Data]
         /\ f \in Store!Wants
  <1>0. PICK a \in Lbas : \E b \in a..N : f \in [a..b -> Data]
    BY SdCardAssumption
  <1>1. PICK b \in a..N : f \in [a..b -> Data]
    BY <1>0
  <1>2. a \in Nat /\ b \in Nat /\ a <= b /\ b \in Lbas /\ DOMAIN f = a..b
    BY <1>1, SdCardAssumption DEF Lbas
  <1>3. Min(DOMAIN f) = a /\ Max(DOMAIN f) = b
    BY <1>2, MaxOfRange, MinOfRange
  <1>4. a..b \in SUBSET Lbas /\ a..b # {}
    <2>1. a \in a..b /\ \A l \in a..b : l \in 1..N
      BY <1>1, <1>2, NumberOfSectors DEF Lbas
    <2> QED BY <2>1 DEF Lbas
  <1>5. f \in Store!Wants
    <2>1. \E s \in (SUBSET Lbas) \ {{}} : f \in [s -> Data]
      <3>1. a..b \in (SUBSET Lbas) \ {{}}
        BY <1>4, Zenon
      <3> QED BY <1>1, <3>1, Zenon
    <2> QED BY <2>1, Zenon DEF Store!Wants
  <1> QED BY <1>1, <1>2, <1>3, <1>5

\* The transfer at hand lies within the request.
LEMMA ChunkFits ==
  ASSUME TypeOK, Flow, request # None
  PROVE  /\ at \in Nat /\ at \in Lbas /\ Last \in Lbas
         /\ Chunk \in 1..IODEV_MAX_CHUNK_SECTORS /\ at + Chunk - 1 <= Last
         /\ request.verified => Chunk = 1
         /\ at..Last \subseteq DOMAIN request.want
         /\ \A l \in DOMAIN request.want : l \in Lbas /\ l <= Last
         /\ request.want \in [DOMAIN request.want -> Data]
  <1>1. request.want \in Transfers /\ at \in DOMAIN request.want
        /\ request.verified \in BOOLEAN
    BY DEF TypeOK, Flow
  <1> DEFINE lo == Min(DOMAIN request.want)
  <1>2. /\ DOMAIN request.want = lo..Last /\ lo \in Lbas /\ Last \in Lbas /\ lo <= Last
        /\ request.want \in [DOMAIN request.want -> Data]
    BY <1>1, TransferType DEF Last
  <1> HIDE DEF lo
  <1>3. at \in Nat /\ at \in Lbas /\ at <= Last /\ Last \in Nat
    BY <1>1, <1>2, NumberOfSectors DEF Lbas
  <1>4. Last - at + 1 \in Nat \ {0}
    BY <1>3
  <1>5. Chunk \in 1..IODEV_MAX_CHUNK_SECTORS /\ at + Chunk - 1 <= Last
    BY <1>3, <1>4, MinOfTwo, SdCardAssumption DEF Chunk
  <1>6. request.verified => Chunk = 1
    BY DEF Chunk
  <1>7. at..Last \subseteq DOMAIN request.want
    BY <1>2, <1>3, <1>1, NumberOfSectors DEF Lbas
  <1>8. \A l \in DOMAIN request.want : l \in Lbas /\ l <= Last
    BY <1>2, <1>3, NumberOfSectors DEF Lbas
  <1> QED BY <1>2, <1>3, <1>5, <1>6, <1>7, <1>8

LEMMA ChunkKept ==
  ASSUME UNCHANGED <<request, at>> PROVE UNCHANGED <<Chunk, Last>>
  BY DEF Chunk, Last

-----------------------------------------------------------------------------
(* The bus and its token.                                                  *)

LEMMA TokenCases ==
  ASSUME token \in BOOLEAN, locked \in BOOLEAN
  PROVE  OneTokenHolder <=> \/ token /\ ~locked /\ dma = None /\ ~event
                            \/ ~token /\ locked /\ dma = None /\ ~event
                            \/ ~token /\ ~locked /\ (dma # None \/ event)
  BY DEF OneTokenHolder, TokenHolders

LEMMA TokenCasesNext ==
  ASSUME token' \in BOOLEAN, locked' \in BOOLEAN
  PROVE  OneTokenHolder' <=> \/ token' /\ ~locked' /\ dma' = None /\ ~event'
                             \/ ~token' /\ locked' /\ dma' = None /\ ~event'
                             \/ ~token' /\ ~locked' /\ (dma' # None \/ event')
  BY DEF OneTokenHolder, TokenHolders

\* Of the steps that leave the PI alone, none but the last of a DMA touches
\* where the game thread waits.
LEMMA BusKept ==
  ASSUME IInv, UNCHANGED <<piVars, token, locked, reply>>, pc = "wait" => pc' = "wait"
  PROVE  Bus'
  BY TokenCases, TokenCasesNext DEF IInv, TypeOK, Bus, Asked, piVars

LEMMA AddedInBack ==
  ASSUME NEW S, NEW q \in Seq(S), NEW x \in S
  PROVE  /\ Append(q, x) \in Seq(S) /\ Len(Append(q, x)) = Len(q) + 1
         /\ DOMAIN Append(q, x) = 1..Len(q) + 1 /\ DOMAIN q = 1..Len(q)
         /\ Len(q) \in Nat /\ Append(q, x)[Len(q) + 1] = x
         /\ \A i \in 1..Len(q) : Append(q, x)[i] = q[i]
  OBVIOUS

LEMMA AddedInFront ==
  ASSUME NEW S, NEW q \in Seq(S), NEW x \in S
  PROVE  /\ <<x>> \o q \in Seq(S) /\ Len(<<x>> \o q) = Len(q) + 1
         /\ DOMAIN (<<x>> \o q) = 1..Len(q) + 1 /\ DOMAIN q = 1..Len(q)
         /\ Len(q) \in Nat /\ (<<x>> \o q)[1] = x
         /\ \A i \in 1..Len(q) : (<<x>> \o q)[i + 1] = q[i]
  OBVIOUS

LEMMA AddKeepsBus ==
  ASSUME IInv, NEW who \in {"game", "audio"},
         piQueue' \in {Append(piQueue, who), <<who>> \o piQueue},
         who = "game" => pc # "wait" /\ pc' = "wait",
         who = "audio" => UNCHANGED pc,
         UNCHANGED <<manager, dma, event, token, locked, reply>>
  PROVE  Bus'
  <1> DEFINE Q == piQueue'
  <1> DEFINE Askers == {"game", "audio"}
  <1>1. piQueue \in Seq(Askers) /\ who \in Askers
    BY DEF IInv, TypeOK
  <1> HIDE DEF Askers
  <1>2. \/ Q[Len(piQueue) + 1] = who /\ \A i \in DOMAIN piQueue : Q[i] = piQueue[i]
        \/ Q[1] = who /\ \A i \in DOMAIN piQueue : Q[i + 1] = piQueue[i]
    <2>1. CASE Q = Append(piQueue, who)
      <3>1. /\ Append(piQueue, who)[Len(piQueue) + 1] = who
            /\ DOMAIN piQueue = 1..Len(piQueue)
            /\ \A i \in 1..Len(piQueue) : Append(piQueue, who)[i] = piQueue[i]
        BY <1>1, AddedInBack
      <3> QED BY <2>1, <3>1
    <2>2. CASE Q = <<who>> \o piQueue
      <3>1. /\ (<<who>> \o piQueue)[1] = who
            /\ DOMAIN piQueue = 1..Len(piQueue)
            /\ \A i \in 1..Len(piQueue) : (<<who>> \o piQueue)[i + 1] = piQueue[i]
        BY <1>1, AddedInFront
      <3> QED BY <2>2, <3>1
    <2> QED BY <2>1, <2>2
  <1>3. DOMAIN Q = 1..Len(piQueue) + 1 /\ DOMAIN piQueue = 1..Len(piQueue)
        /\ Len(piQueue) \in Nat
    <2>1. /\ DOMAIN Append(piQueue, who) = 1..Len(piQueue) + 1
          /\ DOMAIN piQueue = 1..Len(piQueue) /\ Len(piQueue) \in Nat
      BY <1>1, AddedInBack
    <2>2. DOMAIN (<<who>> \o piQueue) = 1..Len(piQueue) + 1
      BY <1>1, AddedInFront
    <2> QED BY <2>1, <2>2
  <1> HIDE DEF Q
  <1>4. \A i, j \in DOMAIN Q : Q[i] # who /\ Q[j] # who /\ i # j =>
          \E k, l \in DOMAIN piQueue : k # l /\ Q[i] = piQueue[k] /\ Q[j] = piQueue[l]
    <2>1. CASE Q[Len(piQueue) + 1] = who /\ \A i \in DOMAIN piQueue : Q[i] = piQueue[i]
      BY <1>3, <2>1
    <2>2. CASE Q[1] = who /\ \A i \in DOMAIN piQueue : Q[i + 1] = piQueue[i]
      <3>1. \A i \in DOMAIN Q : Q[i] # who
              => i - 1 \in DOMAIN piQueue /\ Q[i] = piQueue[i - 1]
        BY <1>3, <2>2
      <3>2. \A i, j \in DOMAIN Q : i # j => i - 1 # j - 1
        BY <1>3
      <3> QED BY <3>1, <3>2
    <2> QED BY <1>2, <2>1, <2>2
  <1>5. ASSUME \A k \in DOMAIN piQueue : piQueue[k] # who
        PROVE  \A i, j \in DOMAIN Q : Q[i] = who /\ Q[j] = who => i = j
    <2>1. CASE Q[Len(piQueue) + 1] = who /\ \A i \in DOMAIN piQueue : Q[i] = piQueue[i]
      BY <1>3, <1>5, <2>1
    <2>2. CASE Q[1] = who /\ \A i \in DOMAIN piQueue : Q[i + 1] = piQueue[i]
      <3>1. \A i \in DOMAIN Q : i # 1 => i - 1 \in DOMAIN piQueue /\ Q[i] = piQueue[i - 1]
        BY <1>3, <2>2
      <3> QED BY <3>1, <1>5
    <2> QED BY <1>2, <2>1, <2>2
  <1>6. OneTokenHolder'
    BY TokenCases, TokenCasesNext DEF IInv, TypeOK, Bus
  <1>7. CASE who = "game"
    <2>1. ~Asked /\ manager # "game" /\ ~reply
      BY <1>7 DEF IInv, Bus
    <2>2. \A i, j \in DOMAIN Q : Q[i] = "game" /\ Q[j] = "game" => i = j
      BY <2>1, <1>5, <1>7 DEF Asked
    <2> QED BY <1>6, <1>7, <2>1, <2>2 DEF Q, Bus, IInv, Asked
  <1>8. CASE who = "audio"
    <2>1. \A i, j \in DOMAIN Q : Q[i] = "game" /\ Q[j] = "game" => i = j
      BY <1>4, <1>8 DEF IInv, Bus
    <2>2. ASSUME NEW i \in DOMAIN Q, Q[i] = "game" PROVE Asked
      <3>1. CASE Q[1] = who /\ \A k \in DOMAIN piQueue : Q[k + 1] = piQueue[k]
        <4>1. i - 1 \in DOMAIN piQueue /\ Q[i] = piQueue[i - 1]
          BY <1>3, <1>8, <2>2, <3>1
        <4> QED BY <2>2, <4>1 DEF Asked
      <3> QED BY <1>2, <1>3, <1>8, <2>2, <3>1 DEF Asked
    <2>3. Asked' => Asked
      BY <2>2 DEF Q, Asked
    <2> QED BY <1>6, <1>8, <2>1, <2>3 DEF Q, Bus, IInv
  <1> QED BY <1>7, <1>8

LEMMA UnlockKeepsBus ==
  ASSUME IInv, locked, locked' = FALSE, token' = TRUE, pc # "wait",
         UNCHANGED <<piVars, reply>>
  PROVE  Bus'
  BY TokenCases, TokenCasesNext DEF IInv, TypeOK, Bus, Asked, piVars

-----------------------------------------------------------------------------
(* How a call of the disk goes on: what the game thread's steps share.     *)

\* The types of the call and of where the game thread is in it.
CallOK ==
  /\ call \in Calls \cup {"none"} /\ answer \in {None, "ok", "error"}
  /\ request # None => request \in Store!Requests /\ at \in DOMAIN request.want
  /\ call \in {"read", "write"} <=> request # None
  /\ attempt \in 0..META_WRITE_RETRIES - 1 /\ verifying \in BOOLEAN
  /\ pc \in Steps \cup {"idle"} /\ (pc = "idle" <=> call = "none")

\* The other types.
RestOK ==
  /\ sFatfsDiskInited \in BOOLEAN /\ sSdAvailable \in BOOLEAN
  /\ sIodevSdInitResult \in {"never", "ok", "error"}
  /\ r \in {"ok", "error"} /\ locked \in BOOLEAN /\ token \in BOOLEAN
  /\ piQueue \in Seq({"game", "audio"}) /\ Len(piQueue) <= PiQueueLen
  /\ {manager, dma} \subseteq {"game", "audio", None}
  /\ event \in BOOLEAN /\ reply \in BOOLEAN /\ audio \in BOOLEAN
  /\ buffer \in [Lbas -> Data \cup {None}] /\ scratch \in Data \cup {None}
  /\ card \in [Lbas -> Data \cup {Torn}] /\ owned \in BOOLEAN
  /\ sectorSet \in Lbas /\ cart \in [1..IODEV_MAX_CHUNK_SECTORS -> Data \cup {None}]

LEMMA TypeParts == (TypeOK <=> CallOK /\ RestOK) /\ (TypeOK' <=> CallOK' /\ RestOK')
  BY DEF TypeOK, CallOK, RestOK

\* The call, and what is known of what it carries.
CallInv == CallOK /\ Flow /\ Cargo

LEMMA InRequest ==
  ASSUME IInv, pc \in Commands
  PROVE  request # None /\ call \in {"read", "write"} /\ request.op = call
  BY DEF IInv, TypeOK, Flow, Commands, Calls

LEMMA NotInRequest ==
  ASSUME IInv, pc \notin Commands
  PROVE  request = None /\ call \notin {"read", "write"} /\ ~verifying
  BY DEF IInv, TypeOK, Flow, Calls

LEMMA ReturnKeeps ==
  ASSUME IInv, NEW a \in {"ok", "error"}, Return(a) PROVE CallInv'
  <1>1. attempt' \in 0..META_WRITE_RETRIES - 1
    BY SdCardAssumption DEF Return
  <1>2. CallOK'
    BY <1>1 DEF IInv, TypeOK, CallOK, Return
  <1>3. Flow' /\ Cargo'
    BY DEF Return, Flow, Cargo, ToWrite, HasRead, Reading, Carried, Calls
  <1> QED BY <1>2, <1>3 DEF CallInv

LEMMA RetryKeeps ==
  ASSUME IInv, request # None, call = "write", MayRetry, Retry, UNCHANGED card
  PROVE  CallInv'
  <1>1. attempt' \in 0..META_WRITE_RETRIES - 1
    BY SdCardAssumption DEF IInv, TypeOK, Retry, MayRetry
  <1>2. CallOK'
    BY <1>1 DEF IInv, TypeOK, CallOK, Retry, Steps
  <1>3. Flow'
    BY DEF IInv, Flow, Retry, Commands
  <1>4. Cargo'
    BY DEF IInv, Retry, Cargo, ToWrite, HasRead, Reading, Carried
  <1> QED BY <1>2, <1>3, <1>4 DEF CallInv

LEMMA FailKeeps ==
  ASSUME IInv, request # None, Fail, UNCHANGED card
  PROVE  CallInv'
  BY RetryKeeps, ReturnKeeps DEF Fail

\* What has gone over is right when the next transfer begins.
LEMMA AdvanceKeeps ==
  ASSUME IInv, request # None, Advance, UNCHANGED <<card, buffer>>,
         call = "write" /\ request.verified => card[at] = request.want[at],
         call = "read" => \A l \in at..at + Chunk - 1 : buffer[l] = card[l]
  PROVE  CallInv'
  <1>1. CASE at + Chunk > Last
    BY <1>1, ReturnKeeps DEF Advance
  <1>2. CASE ~(at + Chunk > Last)
    <2>1. /\ at' = at + Chunk /\ attempt' = 0 /\ verifying' = FALSE
          /\ pc' = (IF call = "write" THEN "dma" ELSE "set")
          /\ UNCHANGED <<call, request, answer>>
      BY <1>2 DEF Advance
    <2>2. TypeOK /\ Flow
      BY DEF IInv
    <2>3. /\ at \in Nat /\ Chunk \in Nat \ {0} /\ (request.verified => Chunk = 1)
          /\ at..Last \subseteq DOMAIN request.want /\ Last \in Nat
          /\ \A l \in DOMAIN request.want : l \in Nat
      BY <2>2, ChunkFits, NumberOfSectors, SdCardAssumption DEF Lbas
    <2>4. at + Chunk \in DOMAIN request.want
      BY <1>2, <2>3
    <2>5. attempt' \in 0..META_WRITE_RETRIES - 1
      BY <2>1, SdCardAssumption
    <2>6. CallOK'
      BY <2>1, <2>4, <2>5 DEF IInv, TypeOK, CallOK, Steps
    <2>7. Flow'
      BY <2>1 DEF IInv, Flow, Commands
    <2>8. ASSUME NEW l \in DOMAIN request.want, l < at + Chunk
          PROVE  l < at \/ l \in at..at + Chunk - 1
      BY <2>3, <2>8
    <2>9. call = "write" /\ request.verified =>
            \A l \in DOMAIN request.want : l < at + Chunk => card[l] = request.want[l]
      <3>1. ASSUME request.verified PROVE \A l \in at..at + Chunk - 1 : l = at
        BY <3>1, <2>3
      <3> QED BY <2>8, <3>1 DEF IInv, Cargo
    <2>10. call = "read" =>
             \A l \in DOMAIN request.want : l < at + Chunk => buffer[l] = card[l]
      BY <2>8 DEF IInv, Cargo
    <2>11. Cargo'
      BY <2>1, <2>9, <2>10 DEF Cargo, ToWrite, HasRead, Reading, Carried
    <2> QED BY <2>6, <2>7, <2>11 DEF CallInv
  <1> QED BY <1>1, <1>2

LEMMA WrittenKeeps ==
  ASSUME IInv, request # None, call = "write", Written, UNCHANGED <<card, buffer>>
  PROVE  CallInv'
  <1>1. CASE request.verified
    <2>1. CallOK'
      BY <1>1 DEF IInv, TypeOK, CallOK, Written, Steps
    <2>2. Flow'
      BY <1>1 DEF IInv, Flow, Written, Commands
    <2>3. Cargo'
      BY <1>1 DEF IInv, Written, Cargo, ToWrite, HasRead, Reading, Carried
    <2> QED BY <2>1, <2>2, <2>3 DEF CallInv
  <1>2. CASE ~request.verified
    BY <1>2, AdvanceKeeps DEF Written
  <1> QED BY <1>1, <1>2

LEMMA PartsOfIInv == ASSUME CallInv', RestOK', Bus' PROVE IInv'
  BY TypeParts DEF IInv, CallInv

-----------------------------------------------------------------------------
(* The steps of the game thread.                                           *)

LEMMA EnterKeeps ==
  ASSUME IInv, NEW c \in {"init", "mount", "release"}, Enter(c) PROVE IInv'
  <1>1. pc # "wait" /\ call = "none" /\ request = None /\ ~verifying
    BY NotInRequest DEF Enter, IInv, TypeOK, Commands
  <1>2. CallOK'
    BY <1>1 DEF Enter, IInv, TypeOK, CallOK, Calls, Steps
  <1>3. Flow' /\ Cargo'
    BY <1>1 DEF Enter, Flow, Cargo, ToWrite, HasRead, Reading, Carried
  <1>4. RestOK'
    BY DEF Enter, IInv, TypeOK, RestOK, diskVars, piVars, cardVars
  <1>5. Bus'
    BY <1>1, BusKept DEF Enter
  <1> QED BY <1>2, <1>3, <1>4, <1>5, PartsOfIInv DEF CallInv

LEMMA DiskInitializeKeeps == ASSUME IInv, DiskInitialize PROVE IInv'
  <1>1. CASE \E c \in {"mount"} : Enter(c)
    BY <1>1, EnterKeeps
  <1>2. CASE sFatfsDiskInited' = TRUE /\ UNCHANGED <<sIodevSdInitResult, sSdAvailable,
               callVars, buffer, r, pc, locked, scratch, token, piVars, reply, cardVars>>
    <2>1. CallOK' /\ RestOK'
      BY <1>2 DEF IInv, TypeOK, CallOK, RestOK, callVars, piVars, cardVars
    <2>2. Flow' /\ Cargo'
      BY <1>2 DEF IInv, Flow, Cargo, ToWrite, HasRead, Reading, Carried, Chunk, Last,
                  callVars, piVars, cardVars
    <2>3. Bus'
      BY <1>2, BusKept
    <2> QED BY <2>1, <2>2, <2>3, PartsOfIInv DEF CallInv
  <1> QED BY <1>1, <1>2 DEF DiskInitialize

LEMMA DiskRequestKeeps ==
  ASSUME IInv, NEW f \in Transfers, NEW v \in BOOLEAN, NEW op \in {"read", "write"},
         DiskRequest(op, v, f)
  PROVE  IInv'
  <1>1. pc # "wait" /\ ~verifying /\ verifying \in BOOLEAN
    BY NotInRequest DEF DiskRequest, IInv, TypeOK, Commands
  <1>2. /\ request' = [op |-> op, verified |-> v, want |-> f] /\ call' = op
        /\ pc' = (IF op = "write" THEN "dma" ELSE "set")
        /\ at' = Min(DOMAIN f) /\ answer' = None /\ verifying' = verifying
    BY DEF DiskRequest
  <1>3. request'.op = op /\ request'.verified = v /\ request'.want = f /\ request' # None
    BY <1>2, SdCardAssumption
  <1>4. DOMAIN f = Min(DOMAIN f)..Max(DOMAIN f) /\ Min(DOMAIN f) \in Nat
        /\ Max(DOMAIN f) \in Nat /\ Min(DOMAIN f) <= Max(DOMAIN f) /\ f \in Store!Wants
    BY TransferType, NumberOfSectors DEF Lbas
  <1>5. at' \in DOMAIN f /\ \A l \in DOMAIN f : ~(l < at')
    BY <1>2, <1>4
  <1>6. request' \in Store!Requests
    BY <1>2, <1>4 DEF Store!Requests
  <1>7. CallOK'
    BY <1>2, <1>3, <1>5, <1>6 DEF DiskRequest, IInv, TypeOK, CallOK, Calls, Steps
  <1>8. Flow'
    BY <1>1, <1>2, <1>3 DEF Flow, Commands, Calls
  <1>9. Cargo'
    BY <1>1, <1>2, <1>3, <1>5 DEF Cargo, ToWrite, HasRead, Reading, Carried
  <1>10. RestOK'
    BY DEF DiskRequest, IInv, TypeOK, RestOK, diskVars, piVars, cardVars
  <1>11. Bus'
    BY <1>1, BusKept DEF DiskRequest
  <1> QED BY <1>7, <1>8, <1>9, <1>10, <1>11, PartsOfIInv DEF CallInv

LEMMA CartLockKeeps == ASSUME IInv, CartLock PROVE IInv'
  <1>1. CallOK' /\ RestOK'
    <2>1. token' \in BOOLEAN /\ locked' \in BOOLEAN
      BY DEF CartLock
    <2>2. UNCHANGED <<diskVars, callVars, buffer, r, pc, scratch, piVars, reply,
                      cardVars>>
      BY DEF CartLock
    <2> QED BY <2>1, <2>2 DEF IInv, TypeOK, CallOK, RestOK, diskVars, callVars, piVars,
                              cardVars
  <1>2. Flow' /\ Cargo'
    BY DEF CartLock, IInv, Flow, Cargo, ToWrite, HasRead, Reading, Carried, Chunk, Last,
           callVars, piVars, cardVars
  <1>3. Bus'
    BY TokenCases, TokenCasesNext DEF CartLock, IInv, TypeOK, Bus, Asked, piVars
  <1> QED BY <1>1, <1>2, <1>3, PartsOfIInv DEF CallInv

LEMMA SectorIsSetKeeps == ASSUME IInv, SectorIsSet PROVE IInv'
  <1>1. pc = "isSet" /\ request # None /\ call \in {"read", "write"}
    BY InRequest DEF SectorIsSet, Settled, Commands
  <1>2. CallInv'
    <2>1. CASE r = "ok"
      <3>1. CallOK'
        BY <1>1, <2>1 DEF SectorIsSet, Settled, Goto, IInv, TypeOK, CallOK, Steps,
                          callVars
      <3>2. Flow'
        BY <1>1, <2>1 DEF SectorIsSet, Settled, Goto, IInv, Flow, Commands, callVars,
                          cardVars
      <3>3. Cargo'
        BY <1>1, <2>1 DEF SectorIsSet, Settled, Goto, IInv, Cargo, ToWrite, HasRead,
                          Reading,
                          Carried, Chunk, Last, callVars, cardVars
      <3> QED BY <3>1, <3>2, <3>3 DEF CallInv
    <2>2. CASE r # "ok"
      BY <1>1, <2>2, FailKeeps DEF SectorIsSet, Settled, cardVars
    <2> QED BY <2>1, <2>2
  <1>3. RestOK'
    BY DEF SectorIsSet, Settled, IInv, TypeOK, RestOK, diskVars, piVars, cardVars
  <1>4. Bus'
    BY <1>1, BusKept DEF SectorIsSet, Settled
  <1> QED BY <1>2, <1>3, <1>4, PartsOfIInv

LEMMA CommandRanKeeps == ASSUME IInv, CommandRan PROVE IInv'
  <1>1. pc = "ran" /\ request # None /\ call \in {"read", "write"}
    BY InRequest DEF CommandRan, Settled, Commands
  <1>2. CallInv'
    <2>1. CASE r = "ok" /\ Reading
      <3>1. CallOK'
        BY <1>1, <2>1 DEF CommandRan, Settled, Goto, IInv, TypeOK, CallOK, Steps, callVars
      <3>2. Flow'
        BY <1>1, <2>1 DEF CommandRan, Settled, Goto, IInv, Flow, Commands, callVars,
                          cardVars
      <3>3. Cargo'
        BY <1>1, <2>1, InRequest
           DEF CommandRan, Settled, Goto, IInv, TypeOK, Bus, Flow, Cargo, ToWrite,
               HasRead,
               Reading, Carried, Chunk, Last, callVars, piVars, cardVars
      <3> QED BY <3>1, <3>2, <3>3 DEF CallInv
    <2>2. CASE r = "ok" /\ ~Reading
      BY <1>1, <2>2, WrittenKeeps DEF CommandRan, Settled, Reading, cardVars
    <2>3. CASE r # "ok"
      BY <1>1, <2>3, FailKeeps DEF CommandRan, Settled, cardVars
    <2> QED BY <2>1, <2>2, <2>3
  <1>3. RestOK'
    BY DEF CommandRan, Settled, IInv, TypeOK, RestOK, diskVars, piVars, cardVars
  <1>4. Bus'
    BY <1>1, BusKept DEF CommandRan, Settled
  <1> QED BY <1>2, <1>3, <1>4, PartsOfIInv

LEMMA CardOpReturnsKeeps == ASSUME IInv, CardOpReturns PROVE IInv'
  <1>1. pc = "opped" /\ request = None /\ call \notin {"read", "write", "none"}
        /\ ~verifying
    BY NotInRequest DEF CardOpReturns, Settled, Commands, IInv, TypeOK
  <1>2. CallOK'
    BY <1>1 DEF CardOpReturns, IInv, TypeOK, CallOK, Calls, Steps
  <1>3. Flow' /\ Cargo'
    BY <1>1 DEF CardOpReturns, Flow, Cargo, ToWrite, HasRead, Reading, Carried, Calls
  <1>4. RestOK'
    <2>1. sFatfsDiskInited' \in BOOLEAN /\ sSdAvailable' \in BOOLEAN
      BY Zenon DEF CardOpReturns, IInv, TypeOK
    <2>2. sIodevSdInitResult' \in {"never", "ok", "error"}
      BY DEF CardOpReturns, IInv, TypeOK
    <2> QED BY <2>1, <2>2 DEF CardOpReturns, Settled, IInv, TypeOK, RestOK, piVars,
                              cardVars
  <1>5. Bus'
    BY <1>1, BusKept DEF CardOpReturns, Settled
  <1> QED BY <1>2, <1>3, <1>4, <1>5, PartsOfIInv DEF CallInv

\* A command of the SC64 begins and ends with the token; what is left to show is
\* what each one does to the call and to the card.
LEMMA UnlockKeeps ==
  ASSUME IInv, locked, locked' = FALSE, token' = TRUE, pc # "wait", CallInv',
         UNCHANGED <<diskVars, callVars, buffer, scratch, piVars, reply>>,
         r' \in {"ok", "error"}, card' \in [Lbas -> Data \cup {Torn}], owned' \in BOOLEAN,
         sectorSet' \in Lbas, cart' \in [1..IODEV_MAX_CHUNK_SECTORS -> Data \cup {None}]
  PROVE  IInv'
  <1>1. Bus'
    BY UnlockKeepsBus
  <1>2. RestOK'
    BY DEF IInv, TypeOK, RestOK, diskVars, piVars
  <1> QED BY <1>1, <1>2, PartsOfIInv

LEMMA CardOpKeeps == ASSUME IInv, ExecuteCmd, CardOp PROVE IInv'
  <1>1. pc = "op" /\ request = None /\ call \notin {"read", "write"} /\ ~verifying
    BY NotInRequest DEF CardOp, Commands
  <1>2. /\ locked /\ locked' = FALSE /\ token' = TRUE /\ pc' = "opped"
        /\ UNCHANGED <<diskVars, callVars, buffer, scratch, piVars, reply>>
        /\ UNCHANGED <<card, sectorSet, cart>>
    BY DEF ExecuteCmd, CardOp
  <1>3. r' \in {"ok", "error"} /\ owned' \in BOOLEAN
    BY Zenon DEF CardOp, IInv, TypeOK
  <1>4. CallOK'
    BY <1>1, <1>2 DEF IInv, TypeOK, CallOK, Steps, callVars
  <1>5. Flow' /\ Cargo'
    BY <1>1, <1>2 DEF Flow, Cargo, ToWrite, HasRead, Reading, Carried, Calls, callVars
  <1> QED BY <1>1, <1>2, <1>3, <1>4, <1>5, UnlockKeeps DEF CallInv, IInv, TypeOK

LEMMA SectorSetKeeps == ASSUME IInv, ExecuteCmd, SectorSet PROVE IInv'
  <1>1. pc = "set" /\ request # None /\ TypeOK /\ Flow
    BY InRequest DEF SectorSet, Commands, IInv
  <1>2. /\ locked /\ locked' = FALSE /\ token' = TRUE /\ pc' = "isSet"
        /\ UNCHANGED <<diskVars, callVars, buffer, scratch, piVars, reply>>
        /\ UNCHANGED <<card, owned, cart>>
    BY DEF ExecuteCmd, SectorSet
  <1>3. r' \in {"ok", "error"} /\ sectorSet' \in Lbas /\ (r' = "ok" => sectorSet' = at)
    BY <1>1, ChunkFits DEF SectorSet, TypeOK
  <1>4. CallOK'
    BY <1>1, <1>2 DEF TypeOK, CallOK, Steps, callVars
  <1>5. Flow'
    BY <1>1, <1>2, <1>3 DEF Flow, Commands, callVars
  <1>6. Cargo'
    BY <1>1, <1>2 DEF IInv, Cargo, ToWrite, HasRead, Reading, Carried, Chunk, Last,
                      callVars
  <1> QED BY <1>1, <1>2, <1>3, <1>4, <1>5, <1>6, UnlockKeeps DEF CallInv, TypeOK

\* The sectors a command is about are those of the transfer at hand.
LEMMA AtTheSector ==
  ASSUME IInv, pc = "run"
  PROVE  /\ sectorSet = at /\ request # None /\ at \in Nat /\ Chunk \in Nat \ {0}
         /\ Chunk \in 1..IODEV_MAX_CHUNK_SECTORS
         /\ \A i \in 1..Chunk : SectorAt(i) = at + i - 1 /\ SectorAt(i) \in Lbas
         /\ \A l \in Lbas : /\ l - sectorSet \in 0..Chunk - 1 <=> l \in Sectors
                            /\ l \in Sectors => /\ l - at + 1 \in 1..Chunk
                                                /\ l = at + (l - at + 1) - 1
         /\ Sectors \subseteq DOMAIN request.want
         /\ request.want \in [DOMAIN request.want -> Data]
  <1>1. request # None /\ TypeOK /\ Flow /\ sectorSet = at
    BY InRequest DEF IInv, Commands, Flow
  <1>2. at \in Lbas /\ Last \in Lbas /\ Chunk \in 1..IODEV_MAX_CHUNK_SECTORS
        /\ at + Chunk - 1 <= Last /\ at..Last \subseteq DOMAIN request.want
        /\ request.want \in [DOMAIN request.want -> Data]
    BY <1>1, ChunkFits
  <1>3. at \in Nat \ {0} /\ Last \in Nat /\ Last <= N /\ Chunk \in Nat \ {0} /\ N \in Nat
    BY <1>2, NumberOfSectors, SdCardAssumption DEF Lbas
  <1>4. \A i \in 1..Chunk : SectorAt(i) = at + i - 1 /\ SectorAt(i) \in Lbas
    BY <1>1, <1>2, <1>3 DEF SectorAt, Lbas
  <1>5. \A l \in Lbas : /\ l - sectorSet \in 0..Chunk - 1 <=> l \in Sectors
                        /\ l \in Sectors => /\ l - at + 1 \in 1..Chunk
                                            /\ l = at + (l - at + 1) - 1
    BY <1>1, <1>3 DEF Sectors, Lbas
  <1>6. Sectors \subseteq DOMAIN request.want
    BY <1>2, <1>3 DEF Sectors
  <1> QED BY <1>1, <1>2, <1>3, <1>4, <1>5, <1>6

LEMMA SdReadKeeps == ASSUME IInv, ExecuteCmd, SdRead PROVE IInv'
  <1>1. pc = "run" /\ Reading
    BY DEF SdRead
  <1>2. /\ locked /\ locked' = FALSE /\ token' = TRUE /\ pc' = "ran"
        /\ UNCHANGED <<diskVars, callVars, buffer, scratch, piVars, reply>>
        /\ UNCHANGED <<card, owned, sectorSet>>
    BY DEF ExecuteCmd, SdRead
  <1>3. r' \in {"ok", "error"}
    BY DEF SdRead
  <1>4. /\ cart' \in [1..IODEV_MAX_CHUNK_SECTORS -> Data \cup {None}]
        /\ r' = "ok" => \A i \in 1..Chunk : cart'[i] = card[at + i - 1]
    <2>1. CASE UNCHANGED cart /\ r' = "error"
      BY <2>1 DEF IInv, TypeOK
    <2>2. CASE /\ \A i \in 1..Chunk : card[SectorAt(i)] # Torn
               /\ cart' = [i \in DOMAIN cart |->
                             IF i <= Chunk THEN card[SectorAt(i)] ELSE cart[i]]
      <3>1. DOMAIN cart = 1..IODEV_MAX_CHUNK_SECTORS
        BY DEF IInv, TypeOK
      <3>2. \A i \in 1..Chunk : card[SectorAt(i)] \in Data
        BY <1>1, <2>2, AtTheSector DEF IInv, TypeOK
      <3>3. \A i \in DOMAIN cart : i <= Chunk => i \in 1..Chunk
        BY <1>1, <3>1, AtTheSector, SdCardAssumption
      <3>4. \A i \in 1..Chunk : i \in DOMAIN cart /\ i <= Chunk
        BY <1>1, <3>1, AtTheSector, SdCardAssumption
      <3>5. \A i \in DOMAIN cart :
              (IF i <= Chunk THEN card[SectorAt(i)] ELSE cart[i]) \in Data \cup {None}
        BY <3>2, <3>3 DEF IInv, TypeOK
      <3>6. cart' \in [1..IODEV_MAX_CHUNK_SECTORS -> Data \cup {None}]
        BY <2>2, <3>1, <3>5
      <3>7. \A i \in 1..Chunk : cart'[i] = card[at + i - 1]
        BY <1>1, <2>2, <3>4, AtTheSector
      <3> QED BY <3>6, <3>7
    <2> QED BY <2>1, <2>2 DEF SdRead
  <1>5. CallOK'
    BY <1>1, <1>2 DEF IInv, TypeOK, CallOK, Steps, callVars
  <1>6. Flow'
    BY <1>1, <1>2 DEF IInv, Flow, Commands, callVars
  <1>7. Cargo'
    BY <1>1, <1>2, <1>4
       DEF IInv, Flow, Cargo, ToWrite, HasRead, Reading, Carried, Chunk, Last, callVars
  <1> QED BY <1>1, <1>2, <1>3, <1>4, <1>5, <1>6, <1>7, UnlockKeeps
             DEF CallInv, IInv, TypeOK

\* A write touches no other sector, and puts there what it is given or nothing whole.
LEMMA SdWriteEffect ==
  ASSUME IInv, SdWrite
  PROVE  /\ card' \in [Lbas -> Data \cup {Torn}]
         /\ \A l \in Lbas : \/ card'[l] = card[l]
                            \/ l \in Sectors /\ card'[l] \in {request.want[l], Torn}
  <1> DEFINE meant == {l \in Lbas : l - sectorSet \in 0..Chunk - 1}
             written == [l \in Lbas |-> IF l \in meant THEN cart[l - sectorSet + 1]
                                                      ELSE card[l]]
  <1>1. pc = "run" /\ call = "write" /\ ~verifying /\ ~Reading
    BY InRequest DEF SdWrite, Reading, Commands
  <1>2. \A l \in Lbas : l \in meant <=> l \in Sectors
    BY <1>1, AtTheSector
  <1>3. \A l \in Sectors : l \in Lbas => cart[l - sectorSet + 1] = request.want[l]
    <2>1. \A i \in 1..Chunk : cart[i] = request.want[at + i - 1]
      BY <1>1 DEF IInv, Cargo, ToWrite
    <2> QED BY <1>1, <2>1, AtTheSector
  <1>4. \A l \in Lbas : written[l] = IF l \in Sectors THEN request.want[l] ELSE card[l]
    BY <1>2, <1>3
  <1>5. \A l \in Sectors : request.want[l] \in Data
    BY <1>1, AtTheSector
  <1>6. written \in [Lbas -> Data \cup {Torn}] /\ card \in [Lbas -> Data \cup {Torn}]
    BY <1>4, <1>5 DEF IInv, TypeOK
  <1>7. CASE card' \in {written, card}
    BY <1>4, <1>6, <1>7
  <1>8. CASE card' \in {f \in [Lbas -> Data \cup {Torn}] :
                 \A l \in Lbas : f[l] = card[l]
                    \/ (owned /\ l \in meant /\ f[l] \in {written[l], Torn})}
    BY <1>2, <1>4, <1>8
  <1> QED BY <1>1, <1>7, <1>8 DEF SdWrite

LEMMA SdWriteKeeps == ASSUME IInv, ExecuteCmd, SdWrite PROVE IInv'
  <1>1. pc = "run" /\ call = "write" /\ ~verifying /\ ~Reading
    BY InRequest DEF SdWrite, Reading, Commands
  <1>2. /\ locked /\ locked' = FALSE /\ token' = TRUE /\ pc' = "ran"
        /\ UNCHANGED <<diskVars, callVars, buffer, scratch, piVars, reply>>
        /\ UNCHANGED <<owned, sectorSet, cart>>
    BY DEF ExecuteCmd, SdWrite
  <1>3. r' \in {"ok", "error"}
    BY DEF SdWrite
  <1>4. \A l \in DOMAIN request.want : l < at => card'[l] = card[l]
    <2>1. \A l \in DOMAIN request.want : l \in Lbas
      BY <1>1, ChunkFits, AtTheSector DEF IInv
    <2>2. \A l \in Sectors : ~(l < at)
      BY <1>1, AtTheSector DEF Sectors
    <2> QED BY <2>1, <2>2, SdWriteEffect
  <1>5. CallOK'
    BY <1>1, <1>2 DEF IInv, TypeOK, CallOK, Steps, callVars
  <1>6. Flow'
    BY <1>1, <1>2 DEF IInv, Flow, Commands, callVars
  <1>7. Cargo'
    BY <1>1, <1>2, <1>4
       DEF IInv, Cargo, ToWrite, HasRead, Reading, Carried, Chunk, Last, callVars
  <1> QED BY <1>1, <1>2, <1>3, <1>5, <1>6, <1>7, SdWriteEffect, UnlockKeeps
          DEF CallInv, IInv, TypeOK

LEMMA StartDmaKeeps == ASSUME IInv, StartDma PROVE IInv'
  <1>1. /\ pc = "dma" /\ request # None /\ call \in {"read", "write"}
        /\ ~reply /\ manager # "game" /\ ~Asked
    BY InRequest DEF StartDma, Commands, IInv, Bus
  <1>2. UNCHANGED <<diskVars, buffer, locked, scratch, token, manager, dma, event, audio,
                    reply, cardVars>>
    BY DEF StartDma
  <1>3. CASE Len(piQueue) < PiQueueLen
    <2>1. /\ pc' = "wait" /\ piQueue' = Append(piQueue, "game") /\ r' = r
          /\ UNCHANGED callVars
      BY <1>3 DEF StartDma, Goto
    <2>2. CallOK'
      BY <1>1, <2>1 DEF IInv, TypeOK, CallOK, Steps, callVars
    <2>3. Flow'
      BY <1>1, <1>2, <2>1 DEF IInv, Flow, Commands, callVars, cardVars
    <2>4. Cargo'
      BY <1>1, <1>2, <2>1
         DEF IInv, Cargo, ToWrite, HasRead, Reading, Carried, Chunk, Last, callVars,
             cardVars
    <2>5. piQueue' \in Seq({"game", "audio"}) /\ Len(piQueue') <= PiQueueLen
      <3>1. piQueue \in Seq({"game", "audio"})
        BY DEF IInv, TypeOK
      <3>2. Append(piQueue, "game") \in Seq({"game", "audio"})
            /\ Len(Append(piQueue, "game")) = Len(piQueue) + 1 /\ Len(piQueue) \in Nat
        BY <3>1, AddedInBack
      <3> QED BY <1>3, <2>1, <3>2, SdCardAssumption
    <2>6. RestOK'
      BY <1>2, <2>1, <2>5 DEF IInv, TypeOK, RestOK, diskVars, cardVars
    <2>7. Bus'
      BY <1>1, <1>2, <2>1, AddKeepsBus
    <2> QED BY <2>2, <2>3, <2>4, <2>6, <2>7, PartsOfIInv DEF CallInv
  <1>4. CASE ~(Len(piQueue) < PiQueueLen)
    <2>1. Fail /\ r' = "error" /\ piQueue' = piQueue
      BY <1>4 DEF StartDma
    <2>2. CallInv'
      BY <1>1, <1>2, <2>1, FailKeeps DEF cardVars
    <2>3. RestOK'
      BY <1>2, <2>1 DEF IInv, TypeOK, RestOK, diskVars, cardVars
    <2>4. Bus'
      BY <1>1, <1>2, <2>1, BusKept DEF piVars
    <2> QED BY <2>2, <2>3, <2>4, PartsOfIInv
  <1> QED BY <1>3, <1>4

LEMMA DmaDoneKeeps == ASSUME IInv, DmaDone PROVE IInv'
  <1>1. /\ pc = "wait" /\ reply /\ reply' = FALSE /\ scratch' = None
        /\ request # None /\ call \in {"read", "write"} /\ Carried
        /\ UNCHANGED <<diskVars, buffer, r, locked, token, piVars, cardVars>>
    BY InRequest DEF DmaDone, Commands, Carried
  <1>2. CallInv'
    <2>1. CASE ~Reading
      <3>1. pc' = "set" /\ UNCHANGED callVars
        BY <2>1 DEF DmaDone, Goto
      <3>2. CallOK'
        BY <1>1, <3>1 DEF IInv, TypeOK, CallOK, Steps, callVars
      <3>3. Flow'
        BY <1>1, <3>1 DEF IInv, Flow, Commands, callVars, cardVars
      <3>4. Cargo'
        BY <1>1, <2>1, <3>1 DEF IInv, Cargo, ToWrite, HasRead, Reading, Carried, Chunk,
                                Last,
                                callVars, cardVars
      <3> QED BY <3>2, <3>3, <3>4 DEF CallInv
    <2>2. CASE Reading /\ (~verifying \/ scratch = request.want[at])
      <3>1. Advance
        BY <2>2 DEF DmaDone
      <3>2. call = "write" /\ request.verified => card[at] = request.want[at]
        BY <1>1, <2>2 DEF IInv, Cargo, Reading
      <3>3. call = "read" => \A l \in at..at + Chunk - 1 : buffer[l] = card[l]
        BY <1>1 DEF IInv, Cargo
      <3> QED BY <1>1, <3>1, <3>2, <3>3, AdvanceKeeps DEF cardVars
    <2>3. CASE Reading /\ ~(~verifying \/ scratch = request.want[at])
      BY <1>1, <2>3, FailKeeps DEF DmaDone, Mismatch, cardVars
    <2> QED BY <2>1, <2>2, <2>3
  <1>3. RestOK'
    BY <1>1 DEF IInv, TypeOK, RestOK, diskVars, piVars, cardVars
  <1>4. Bus'
    BY <1>1, TokenCases, TokenCasesNext DEF IInv, TypeOK, Bus, Asked, piVars
  <1> QED BY <1>2, <1>3, <1>4, PartsOfIInv

-----------------------------------------------------------------------------
(* The steps of the PI, of its manager and of the audio thread.            *)

LEMMA ManagerTakesKeeps == ASSUME IInv, ManagerTakes PROVE IInv'
  <1>1. /\ ~locked /\ manager = None /\ piQueue # <<>>
        /\ manager' = Head(piQueue) /\ piQueue' = Tail(piQueue)
        /\ UNCHANGED <<gameVars, buffer, scratch, token, dma, event, audio, reply,
                       cardVars>>
    BY DEF ManagerTakes
  <1>2. piQueue \in Seq({"game", "audio"}) /\ Len(piQueue) <= PiQueueLen
    BY DEF IInv, TypeOK
  <1>3. /\ piQueue' \in Seq({"game", "audio"}) /\ Len(piQueue') <= PiQueueLen
        /\ manager' \in {"game", "audio"} /\ manager' = piQueue[1]
        /\ DOMAIN piQueue = 1..Len(piQueue) /\ 1 \in DOMAIN piQueue
        /\ \A i \in DOMAIN piQueue' :
             i + 1 \in DOMAIN piQueue /\ i + 1 # 1 /\ piQueue'[i] = piQueue[i + 1]
        /\ \A i, j \in DOMAIN piQueue' : i + 1 = j + 1 => i = j
    BY <1>1, <1>2, SdCardAssumption
  <1>4. CallOK' /\ RestOK'
    BY <1>1, <1>3 DEF IInv, TypeOK, CallOK, RestOK, gameVars, diskVars, callVars, cardVars
  <1>5. Flow' /\ Cargo'
    <2>1. Carried' <=> Carried
      BY <1>1, TokenCases DEF IInv, TypeOK, Bus, Carried, gameVars
    <2> QED BY <1>1, <2>1 DEF IInv, Flow, Cargo, ToWrite, HasRead, Reading, Chunk, Last,
                              gameVars, callVars, cardVars
  <1>6. OneTokenHolder'
    BY <1>1, TokenCases, TokenCasesNext DEF IInv, TypeOK, Bus, gameVars
  <1>7. Asked' => Asked
    BY <1>3 DEF Asked
  <1>8. manager' = "game" => Asked /\ ~Asked'
    BY <1>3 DEF Asked, IInv, Bus
  <1>9. \A i, j \in DOMAIN piQueue' : piQueue'[i] = "game" /\ piQueue'[j] = "game"
          => i = j
    BY <1>3 DEF IInv, Bus
  <1>10. Bus'
    BY <1>1, <1>3, <1>6, <1>7, <1>8, <1>9, SdCardAssumption DEF IInv, Bus, gameVars
  <1> QED BY <1>4, <1>5, <1>10, PartsOfIInv DEF CallInv

LEMMA ManagerStartsKeeps == ASSUME IInv, ManagerStarts PROVE IInv'
  <1>1. /\ ~locked /\ manager # None /\ dma = None /\ ~event /\ dma' = manager
        /\ token' = FALSE
        /\ UNCHANGED <<gameVars, buffer, scratch, piQueue, manager, event, audio, reply,
                       cardVars>>
    BY DEF ManagerStarts, StartsDma
  <1>2. CallOK' /\ RestOK'
    <2>1. token' \in BOOLEAN /\ {manager', dma'} \subseteq {"game", "audio", None}
      BY <1>1 DEF IInv, TypeOK
    <2> QED BY <1>1, <2>1
            DEF IInv, TypeOK, CallOK, RestOK, gameVars, diskVars, callVars, cardVars
  <1>3. Flow' /\ Cargo'
    BY <1>1 DEF IInv, Flow, Cargo, ToWrite, HasRead, Reading, Carried, Chunk, Last,
                gameVars, callVars, cardVars
  <1>4. Bus'
    BY <1>1, TokenCases, TokenCasesNext DEF IInv, TypeOK, Bus, Asked, gameVars
  <1> QED BY <1>2, <1>3, <1>4, PartsOfIInv DEF CallInv

LEMMA ManagerRepliesKeeps == ASSUME IInv, ManagerReplies PROVE IInv'
  <1>1. /\ ~locked /\ event /\ event' = FALSE /\ manager' = None /\ token' = TRUE
        /\ UNCHANGED <<gameVars, buffer, scratch, piQueue, dma, cardVars>>
        /\ IF manager = "game" THEN reply' = TRUE /\ audio' = audio
                               ELSE audio' = FALSE /\ reply' = reply
    BY DEF ManagerReplies, Replies
  <1>2. CallOK' /\ RestOK'
    <2>1. reply' \in BOOLEAN /\ audio' \in BOOLEAN
      BY <1>1 DEF IInv, TypeOK
    <2> QED BY <1>1, <2>1
            DEF IInv, TypeOK, CallOK, RestOK, gameVars, diskVars, callVars, cardVars
  <1>3. Carried' <=> Carried
    BY <1>1, SdCardAssumption DEF IInv, TypeOK, Bus, Carried, gameVars
  <1>4. Flow' /\ Cargo'
    BY <1>1, <1>3 DEF IInv, Flow, Cargo, ToWrite, HasRead, Reading, Chunk, Last,
                      gameVars, callVars, cardVars
  <1>5. Bus'
    BY <1>1, TokenCases, TokenCasesNext, SdCardAssumption
       DEF IInv, TypeOK, Bus, Asked, gameVars
  <1> QED BY <1>2, <1>4, <1>5, PartsOfIInv DEF CallInv

LEMMA AudioAsksKeeps == ASSUME IInv, AudioAsks PROVE IInv'
  <1>1. /\ Len(piQueue) < PiQueueLen /\ audio' = TRUE
        /\ piQueue' \in {Append(piQueue, "audio"), <<"audio">> \o piQueue}
        /\ UNCHANGED <<gameVars, buffer, scratch, token, manager, dma, event, reply,
                       cardVars>>
    BY DEF AudioAsks
  <1>2. piQueue' \in Seq({"game", "audio"}) /\ Len(piQueue') <= PiQueueLen
    <2>1. piQueue \in Seq({"game", "audio"})
      BY DEF IInv, TypeOK
    <2>2. /\ Append(piQueue, "audio") \in Seq({"game", "audio"})
          /\ Len(Append(piQueue, "audio")) = Len(piQueue) + 1 /\ Len(piQueue) \in Nat
      BY <2>1, AddedInBack
    <2>3. /\ <<"audio">> \o piQueue \in Seq({"game", "audio"})
          /\ Len(<<"audio">> \o piQueue) = Len(piQueue) + 1
      BY <2>1, AddedInFront
    <2>4. CASE piQueue' = Append(piQueue, "audio")
      BY <1>1, <2>2, <2>4, SdCardAssumption
    <2>5. CASE piQueue' = <<"audio">> \o piQueue
      BY <1>1, <2>2, <2>3, <2>5, SdCardAssumption
    <2> QED BY <1>1, <2>4, <2>5
  <1>3. CallOK' /\ RestOK'
    BY <1>1, <1>2 DEF IInv, TypeOK, CallOK, RestOK, gameVars, diskVars, callVars, cardVars
  <1>4. Flow' /\ Cargo'
    BY <1>1 DEF IInv, Flow, Cargo, ToWrite, HasRead, Reading, Carried, Chunk, Last,
                gameVars, callVars, cardVars
  <1>5. Bus'
    BY <1>1, AddKeepsBus DEF gameVars
  <1> QED BY <1>3, <1>4, <1>5, PartsOfIInv DEF CallInv

\* A DMA that ends has carried what the game thread waits for.
LEMMA PiDoneKeeps == ASSUME IInv, PiDone PROVE IInv'
  <1>1. /\ dma # None /\ manager = dma /\ ~event /\ dma' = None /\ event' = TRUE
        /\ UNCHANGED <<gameVars, token, piQueue, manager, audio, reply, card, owned,
                       sectorSet>>
        /\ call' = call /\ request' = request /\ at' = at /\ verifying' = verifying
        /\ pc' = pc /\ r' = r
    BY DEF PiDone, IInv, Bus, gameVars, callVars
  <1>2. Bus'
    BY <1>1, TokenCases, TokenCasesNext, SdCardAssumption
       DEF IInv, TypeOK, Bus, Asked, gameVars
  <1>3. Flow' /\ CallOK'
    BY <1>1 DEF IInv, TypeOK, CallOK, Flow, gameVars, callVars
  <1>4. Chunk' = Chunk /\ Last' = Last /\ (Reading' <=> Reading)
    BY <1>1 DEF Chunk, Last, Reading
  <1>5. CASE dma # "game"
    <2>1. UNCHANGED <<buffer, scratch, cart>>
      BY <1>1, <1>5 DEF PiDone, IInv, TypeOK
    <2>2. RestOK'
      BY <1>1, <2>1 DEF IInv, TypeOK, RestOK, gameVars, diskVars
    <2>3. Carried' <=> Carried
      BY <1>1, <1>5 DEF Carried
    <2>4. Cargo'
      BY <1>1, <1>4, <2>1, <2>3 DEF IInv, Cargo, ToWrite, HasRead
    <2> QED BY <1>2, <1>3, <2>2, <2>4, PartsOfIInv DEF CallInv
  <1>6. CASE dma = "game"
    <2>1. pc = "wait" /\ ~reply /\ TypeOK /\ Flow
      BY <1>1, <1>6 DEF IInv, Bus
    <2>2. /\ request # None /\ call \in {"read", "write"}
      BY <2>1, InRequest DEF Commands
    <2>3. /\ at \in Nat /\ at \in Lbas /\ Last \in Lbas /\ Last \in Nat
          /\ Chunk \in 1..IODEV_MAX_CHUNK_SECTORS /\ Chunk \in Nat \ {0}
          /\ at + Chunk - 1 <= Last /\ at..Last \subseteq DOMAIN request.want
          /\ request.want \in [DOMAIN request.want -> Data]
          /\ DOMAIN cart = 1..IODEV_MAX_CHUNK_SECTORS
      BY <2>1, <2>2, ChunkFits, NumberOfSectors, SdCardAssumption DEF Lbas, TypeOK
    <2>4. \A i \in 1..Chunk : i \in DOMAIN cart
      BY <2>3, SdCardAssumption
    <2>5. CASE verifying
      <3>1. scratch' = cart[1] /\ UNCHANGED <<buffer, cart>>
        BY <1>6, <2>5 DEF PiDone
      <3>2. scratch' \in Data \cup {None}
        BY <2>1, <2>3, <2>4, <3>1 DEF TypeOK
      <3>3. RestOK'
        BY <1>1, <3>1, <3>2 DEF IInv, TypeOK, RestOK, gameVars, diskVars
      <3>4. cart[1] = card[at]
        BY <2>1, <2>3, <2>5 DEF IInv, Cargo, HasRead, Reading
      <3>5. call = "write"
        BY <2>1, <2>5 DEF Flow
      <3>6. Cargo'
        BY <1>1, <1>4, <2>1, <2>5, <3>1, <3>4, <3>5 DEF IInv, Cargo, ToWrite, HasRead
      <3> QED BY <1>2, <1>3, <3>3, <3>6, PartsOfIInv DEF CallInv
    <2>6. CASE ~verifying /\ call = "read"
      <3>1. /\ buffer' = [l \in Lbas |->
                            IF l \in Sectors THEN cart[l - at + 1] ELSE buffer[l]]
            /\ UNCHANGED <<scratch, cart>>
        BY <1>6, <2>6 DEF PiDone
      <3>2. ASSUME NEW l \in Sectors, l \in Lbas
            PROVE  l - at + 1 \in 1..Chunk /\ at + (l - at + 1) - 1 = l
        BY <2>3, <3>2 DEF Sectors
      <3>3. \A i \in 1..Chunk : cart[i] = card[at + i - 1]
        BY <2>1, <2>6 DEF IInv, Cargo, HasRead, Reading
      <3>4. \A l \in Lbas : buffer'[l] = IF l \in Sectors THEN card[l] ELSE buffer[l]
        BY <3>1, <3>2, <3>3
      <3>5. buffer' \in [Lbas -> Data \cup {None}]
        <4>1. \A l \in Lbas : l \in Sectors => cart[l - at + 1] \in Data \cup {None}
          BY <2>1, <2>4, <3>2 DEF TypeOK
        <4> QED BY <2>1, <3>1, <4>1 DEF TypeOK
      <3>6. RestOK'
        BY <1>1, <3>1, <3>5 DEF IInv, TypeOK, RestOK, gameVars, diskVars
      <3>7. \A l \in at..at + Chunk - 1 : l \in Lbas /\ buffer'[l] = card[l]
        <4>1. \A l \in at..at + Chunk - 1 : l \in Lbas
          BY <2>3, NumberOfSectors DEF Lbas
        <4> QED BY <3>4, <4>1 DEF Sectors
      <3>8. \A l \in DOMAIN request.want : l < at => buffer'[l] = card[l]
        <4>1. \A l \in DOMAIN request.want : l \in Lbas
          BY <2>1, <2>2, ChunkFits
        <4> QED BY <2>6, <3>4, <4>1 DEF IInv, Cargo
      <3>9. Cargo'
        BY <1>1, <1>4, <2>1, <2>6, <3>1, <3>7, <3>8 DEF IInv, Cargo, ToWrite, HasRead
      <3> QED BY <1>2, <1>3, <3>6, <3>9, PartsOfIInv DEF CallInv
    <2>7. CASE ~verifying /\ call # "read"
      <3>1. /\ cart' = [i \in DOMAIN cart |->
                          IF i <= Chunk THEN request.want[at + i - 1] ELSE cart[i]]
            /\ UNCHANGED <<buffer, scratch>>
        BY <1>6, <2>7 DEF PiDone
      <3>2. \A i \in DOMAIN cart : i <= Chunk => request.want[at + i - 1] \in Data
        <4>1. ASSUME NEW i \in DOMAIN cart, i <= Chunk PROVE at + i - 1 \in at..Last
          BY <2>3, <4>1, SdCardAssumption
        <4> QED BY <2>3, <4>1
      <3>3. cart' \in [1..IODEV_MAX_CHUNK_SECTORS -> Data \cup {None}]
        BY <2>1, <2>3, <3>1, <3>2 DEF TypeOK
      <3>4. \A i \in 1..Chunk : cart'[i] = request.want[at + i - 1]
        BY <2>3, <2>4, <3>1, SdCardAssumption
      <3>5. RestOK'
        BY <1>1, <3>1, <3>3 DEF IInv, TypeOK, RestOK, gameVars, diskVars
      <3>6. Cargo'
        BY <1>1, <1>4, <2>2, <2>7, <3>1, <3>4 DEF IInv, Cargo, ToWrite, HasRead, Reading
      <3> QED BY <1>2, <1>3, <3>5, <3>6, PartsOfIInv DEF CallInv
    <2> QED BY <2>5, <2>6, <2>7
  <1> QED BY <1>5, <1>6

-----------------------------------------------------------------------------
LEMMA InitIInv == ASSUME Init PROVE IInv
  <1>1. attempt \in 0..META_WRITE_RETRIES - 1 /\ Len(piQueue) <= PiQueueLen /\ 1 \in Lbas
    BY SdCardAssumption DEF Init, Lbas
  <1>2. TypeOK
    <2>1. /\ buffer \in [Lbas -> Data \cup {None}] /\ card \in [Lbas -> Data \cup {Torn}]
          /\ cart \in [1..IODEV_MAX_CHUNK_SECTORS -> Data \cup {None}]
      BY DEF Init
    <2>2. CallOK
      BY <1>1 DEF Init, CallOK, Calls, Steps
    <2>3. piQueue \in Seq({"game", "audio"})
      BY DEF Init
    <2>4. RestOK
      BY <1>1, <2>1, <2>3 DEF Init, RestOK
    <2> QED BY <2>2, <2>4, TypeParts
  <1>3. Flow
    BY DEF Init, Flow, Calls
  <1>4. Bus
    <2>1. OneTokenHolder
      BY DEF Init, OneTokenHolder, TokenHolders
    <2>2. DOMAIN piQueue = {}
      BY DEF Init
    <2> QED BY <2>1, <2>2, SdCardAssumption DEF Init, Bus, Asked
  <1>5. Cargo
    BY DEF Init, Cargo, ToWrite, HasRead, Reading
  <1> QED BY <1>2, <1>3, <1>4, <1>5 DEF IInv

LEMMA StepKeeps == ASSUME IInv, [Next]_vars PROVE IInv'
  <1>1. CASE UNCHANGED vars
    <2>1. CallOK' /\ RestOK'
      BY <1>1 DEF vars, gameVars, diskVars, callVars, piVars, cardVars, IInv, TypeOK,
                  CallOK, RestOK
    <2>2. Flow' /\ Cargo'
      BY <1>1 DEF vars, gameVars, callVars, piVars, cardVars, IInv, Flow, Cargo, ToWrite,
                  HasRead, Reading, Carried, Chunk, Last
    <2>3. Bus'
      BY <1>1, BusKept DEF vars, gameVars
    <2> QED BY <2>1, <2>2, <2>3, PartsOfIInv DEF CallInv
  <1>2. CASE Requests
    BY <1>2, EnterKeeps, DiskInitializeKeeps, DiskRequestKeeps
       DEF Requests, LazyInit, SelfHeal, DiskRead, DiskWrite
  <1>3. CASE ExecuteCmd
    BY <1>3, CardOpKeeps, SectorSetKeeps, SdReadKeeps, SdWriteKeeps DEF ExecuteCmd
  <1>4. CASE Game /\ ~ExecuteCmd
    BY <1>4, CartLockKeeps, SectorIsSetKeeps, CommandRanKeeps, CardOpReturnsKeeps,
       StartDmaKeeps, DmaDoneKeeps DEF Game
  <1>5. CASE Manager
    BY <1>5, ManagerTakesKeeps, ManagerStartsKeeps, ManagerRepliesKeeps DEF Manager
  <1> QED BY <1>1, <1>2, <1>3, <1>4, <1>5, PiDoneKeeps, AudioAsksKeeps DEF Next

\* What the steps rely on holds throughout: where the game thread is in a call,
\* whose the bus is, and what the cart, memory and the card hold of the request.
THEOREM IInvHolds == Spec => []IInv
  BY InitIInv, StepKeeps, PTL DEF Spec

\* The variables have their types: no transfer runs past the request, no attempt
\* past META_WRITE_RETRIES, and the PI manager's queue never overflows.
THEOREM SdCardTypeOK == Spec => []TypeOK
  <1>1. IInv => TypeOK
    BY DEF IInv
  <1> QED BY <1>1, IInvHolds, PTL

\* sc64_cart_lock and the PI manager share one token: while interrupts are off and
\* a register is polled, no DMA is under way, and none starts.
THEOREM OneHolder == Spec => []OneTokenHolder
  <1>1. IInv => OneTokenHolder
    BY DEF IInv, Bus
  <1> QED BY <1>1, IInvHolds, PTL

-----------------------------------------------------------------------------
(* The disk layer implements SectorStore: a command that programs the card *)
(* is a Change, a DMA to memory a Fill, the end of a call its Answer.      *)

Unseen == UNCHANGED <<card, request, answer, buffer>>

LEMMA ErrorIsAnswer ==
  ASSUME request # None, Return("error"), UNCHANGED card PROVE Store!Answer
  BY DEF Return, Store!Answer

LEMMA FailIsAnswer ==
  ASSUME request # None, Fail, UNCHANGED <<card, buffer>> PROVE Store!Answer \/ Unseen
  BY ErrorIsAnswer DEF Fail, Retry, Unseen

LEMMA AdvanceIsAnswer ==
  ASSUME IInv, request # None, Advance, UNCHANGED <<card, buffer>>,
         call = "write" /\ request.verified => card[at] = request.want[at],
         call = "read" => \A l \in at..at + Chunk - 1 : buffer[l] = card[l]
  PROVE  Store!Answer \/ Unseen
  <1>1. CASE ~(at + Chunk > Last)
    BY <1>1 DEF Advance, Unseen
  <1>2. CASE at + Chunk > Last
    <2>1. request' = None /\ answer' = "ok" /\ TypeOK /\ Flow /\ Cargo
      BY <1>2 DEF Advance, Return, IInv
    <2>2. /\ at \in Nat /\ Chunk \in Nat \ {0} /\ (request.verified => Chunk = 1)
          /\ Last \in Nat /\ \A l \in DOMAIN request.want : l \in Nat /\ l <= Last
          /\ request.want \in [DOMAIN request.want -> Data]
      BY <2>1, ChunkFits, NumberOfSectors, SdCardAssumption DEF Lbas
    <2>3. ASSUME NEW l \in DOMAIN request.want
          PROVE  l < at \/ l \in at..at + Chunk - 1
      BY <1>2, <2>2, <2>3
    <2>4. CASE call = "write"
      <3>1. request.op = "write"
        BY <2>1, <2>4 DEF Flow
      <3>2. ASSUME request.verified
            PROVE  \A l \in DOMAIN request.want : card[l] = request.want[l]
        <4>1. \A l \in at..at + Chunk - 1 : l = at
          BY <2>2, <3>2
        <4> QED BY <2>1, <2>3, <2>4, <3>2, <4>1 DEF Cargo
      <3>3. Store!Stored
        <4>1. request.want = [l \in DOMAIN request.want |-> request.want[l]]
          BY <2>2
        <4> QED BY <3>2, <4>1 DEF Store!Stored, Store!Restrict
      <3> QED BY <2>1, <3>1, <3>3 DEF Store!Answer
    <2>5. CASE call = "read"
      <3>1. request.op = "read"
        BY <2>1, <2>5 DEF Flow
      <3>2. \A l \in DOMAIN request.want : buffer[l] = card[l]
        BY <2>1, <2>3, <2>5 DEF Cargo
      <3> QED BY <2>1, <3>1, <3>2 DEF Store!Answer, Store!Fetched
    <2> QED BY <2>1, <2>4, <2>5 DEF TypeOK
  <1> QED BY <1>1, <1>2

LEMMA RequestIsAsk ==
  ASSUME IInv, NEW f \in Transfers, NEW v \in BOOLEAN, NEW op \in {"read", "write"},
         DiskRequest(op, v, f)
  PROVE  Store!Ask
  <1>1. request = None
    BY DEF DiskRequest, IInv, TypeOK
  <1>2. request' \in Store!Requests
    BY TransferType DEF DiskRequest, Store!Requests
  <1> QED BY <1>1, <1>2 DEF DiskRequest, Store!Ask, cardVars

LEMMA CommandIsChange ==
  ASSUME IInv, ExecuteCmd PROVE Store!Change \/ Unseen
  <1>1. CASE CardOp \/ SectorSet \/ SdRead
    BY <1>1 DEF ExecuteCmd, CardOp, SectorSet, SdRead, callVars, Unseen
  <1>2. CASE SdWrite
    <2>1. request # None /\ request.op = "write" /\ pc = "run"
      BY <1>2, InRequest DEF SdWrite, Reading, Commands
    <2>2. Sectors \subseteq DOMAIN request.want
      BY <2>1, AtTheSector
    <2>3. UNCHANGED <<request, answer>>
      BY DEF ExecuteCmd, callVars
    <2> QED BY <1>2, <2>1, <2>2, <2>3, SdWriteEffect DEF Store!Change
  <1> QED BY <1>1, <1>2 DEF ExecuteCmd

LEMMA DmaDoneIsAnswer == ASSUME IInv, DmaDone PROVE Store!Answer \/ Unseen
  <1>1. /\ request # None /\ Carried /\ UNCHANGED <<card, buffer>>
    BY InRequest DEF DmaDone, Commands, Carried, cardVars
  <1>2. CASE ~Reading
    BY <1>2 DEF DmaDone, Goto, callVars, cardVars, Unseen
  <1>3. CASE Reading /\ (~verifying \/ scratch = request.want[at])
    <2>1. Advance
      BY <1>3 DEF DmaDone
    <2>2. call = "write" /\ request.verified => card[at] = request.want[at]
      BY <1>1, <1>3 DEF IInv, Cargo, Reading
    <2>3. call = "read" => \A l \in at..at + Chunk - 1 : buffer[l] = card[l]
      BY <1>1 DEF IInv, Cargo
    <2> QED BY <1>1, <2>1, <2>2, <2>3, AdvanceIsAnswer
  <1>4. CASE Reading /\ ~(~verifying \/ scratch = request.want[at])
    BY <1>1, <1>4, FailIsAnswer DEF DmaDone, Mismatch
  <1> QED BY <1>2, <1>3, <1>4

LEMMA CommandRanIsAnswer == ASSUME IInv, CommandRan PROVE Store!Answer \/ Unseen
  <1>1. /\ request # None /\ call \in {"read", "write"} /\ UNCHANGED <<card, buffer>>
    BY InRequest DEF CommandRan, Settled, Commands, cardVars
  <1>2. CASE r # "ok"
    BY <1>1, <1>2, FailIsAnswer DEF CommandRan
  <1>3. CASE r = "ok" /\ Reading
    BY <1>1, <1>3 DEF CommandRan, Goto, callVars, Unseen
  <1>4. CASE r = "ok" /\ ~Reading /\ request.verified
    BY <1>1, <1>4 DEF CommandRan, Written, Unseen
  <1>5. CASE r = "ok" /\ ~Reading /\ ~request.verified
    BY <1>1, <1>5, AdvanceIsAnswer DEF CommandRan, Written, Reading
  <1> QED BY <1>2, <1>3, <1>4, <1>5

LEMMA GameImplements == ASSUME IInv, Game PROVE Store!Next \/ Unseen
  <1>1. CASE CartLock
    BY <1>1 DEF CartLock, callVars, cardVars, Unseen
  <1>2. CASE SectorIsSet
    <2>1. request # None /\ UNCHANGED <<card, buffer>>
      BY <1>2, InRequest DEF SectorIsSet, Settled, Commands, cardVars
    <2> QED BY <1>2, <2>1, FailIsAnswer DEF SectorIsSet, Goto, callVars, Unseen,
                                            Store!Next
  <1>3. CASE CardOpReturns
    BY <1>3 DEF CardOpReturns, Settled, cardVars, Unseen
  <1>4. CASE StartDma
    <2>1. request # None /\ UNCHANGED <<card, buffer>>
      BY <1>4, InRequest DEF StartDma, Commands, cardVars
    <2> QED BY <1>4, <2>1, FailIsAnswer DEF StartDma, Goto, callVars, Unseen, Store!Next
  <1> QED BY <1>1, <1>2, <1>3, <1>4, CommandIsChange, CommandRanIsAnswer, DmaDoneIsAnswer
          DEF Game, Store!Next

LEMMA PiDoneIsFill == ASSUME IInv, PiDone PROVE Store!Fill \/ Unseen
  <1>1. UNCHANGED <<card, request, answer>>
    BY DEF PiDone, gameVars, callVars
  <1>2. CASE buffer' = buffer
    BY <1>1, <1>2 DEF Unseen
  <1>3. CASE buffer' # buffer
    <2>1. dma = "game"
      BY <1>3 DEF PiDone, IInv, TypeOK
    <2>2. pc = "wait"
      BY <2>1 DEF IInv, Bus, PiDone
    <2>3. request # None
      BY <2>2, InRequest DEF Commands
    <2> QED BY <1>1, <1>3, <2>3 DEF Store!Fill
  <1> QED BY <1>2, <1>3

LEMMA StepImplements ==
  ASSUME IInv, [Next]_vars PROVE [Store!Next]_<<card, request, answer, buffer>>
  <1>1. CASE UNCHANGED vars
    BY <1>1 DEF vars, gameVars, callVars, cardVars
  <1>2. CASE Requests
    <2>1. ASSUME NEW c \in {"init", "mount", "release"}, Enter(c) PROVE Unseen
      BY <2>1 DEF Enter, cardVars, Unseen
    <2>2. CASE DiskInitialize
      BY <2>1, <2>2 DEF DiskInitialize, callVars, cardVars, Unseen
    <2> QED BY <1>2, <2>1, <2>2, RequestIsAsk
            DEF Requests, LazyInit, SelfHeal, DiskRead, DiskWrite, Unseen, Store!Next
  <1>3. CASE Game
    BY <1>3, GameImplements DEF Unseen
  <1>4. CASE Manager \/ AudioAsks
    BY <1>4 DEF Manager, ManagerTakes, ManagerStarts, StartsDma, ManagerReplies, Replies,
                AudioAsks, gameVars, callVars, cardVars
  <1>5. CASE PiDone
    BY <1>5, PiDoneIsFill DEF Unseen, Store!Next
  <1> QED BY <1>1, <1>2, <1>3, <1>4, <1>5 DEF Next

\* diskio.c, "a clean ACK is not proof of persistence": whatever the firmware
\* acknowledges, a verified write that returns RES_OK is on the card, a read that
\* does gives what is there, and no sector but those asked for ever changes.
THEOREM DiskImplementsSectorStore == Spec => SectorStoreSpec
  <1>1. Init => Store!Init
    BY DEF Init, Store!Init
  <1>2. IInv /\ [Next]_vars => [Store!Next]_<<card, request, answer, buffer>>
    BY StepImplements
  <1> QED BY <1>1, <1>2, IInvHolds, PTL DEF Spec, SectorStoreSpec, Store!Spec
=============================================================================

----------------------- MODULE ConsoleThreads_proofs -----------------------
(***************************************************************************)
(* What holds of the console's threads, whatever the size of the queue of  *)
(* VIs and the number of VIs per frame: the types, the bookkeeping of the  *)
(* scheduler, and that the game never writes what the RSP and the RDP      *)
(* still read, nor the RDP what is shown.                                  *)
(*                                                                         *)
(* The argument follows the newest frame.  Its task is in one of three     *)
(* places, the graphics thread's message of the frame before it being used *)
(* up: handed over, kept by the main thread, or drawn.  The RSP may still  *)
(* be busy with the end of the frame before only while the newest one is   *)
(* handed over and the graphics thread waits for more VIs than it has.     *)
(***************************************************************************)
EXTENDS ConsoleThreads, FiniteSetTheorems, SequenceTheorems, TLAPS

Events == {"VI", "SP", "DP"}

\* The pool of the frame handed over last.
Newest == Pool(Last)

AtMostOnce(q, m) == \A i, j \in DOMAIN q : q[i] = m /\ q[j] = m => i = j

\* Where the graphics tasks of the task queue are.
New == {i \in DOMAIN taskQ : taskQ[i] \in Pools}

NoTask == gfxTask = <<>> /\ New = {} /\ sGfxTasks = <<>>
Drawn == gfxTask = <<"task">> /\ New = {} /\ sGfxTasks = <<>>
HandedOver ==
  /\ gfxTask = <<>> /\ sGfxTasks = <<>>
  /\ \E i \in DOMAIN taskQ : New = {i} /\ taskQ[i] = Newest
Kept == gfxTask = <<>> /\ New = {} /\ sGfxTasks = <<Newest>>

StageInv ==
  /\ pc = "drained" \/ frame = 0 => NoTask
  /\ ~(pc = "drained" \/ frame = 0) => Drawn \/ HandedOver \/ Kept

FrameInv == (frame = 0 => pc \in {"update", "task"}) /\ (pc = "vi" => left > 0)

\* The audio thread puts in one task per VI.
RoomInv ==
  Len(taskQ) <= (IF audioVI = <<>> THEN 1 ELSE 0) + (IF HandedOver THEN 1 ELSE 0)

QueueInv ==
  /\ \A m \in Events : AtMostOnce(mainQ, m)
  /\ Queued(mainQ, "VI") => shown = next

RspInv ==
  /\ gCurrentTask # None <=> rsp # None \/ Queued(mainQ, "SP")
  /\ ~(rsp # None /\ Queued(mainQ, "SP"))
  /\ rsp # None => rsp = gCurrentTask

RdpInv ==
  /\ rdp # None \/ Queued(mainQ, "DP") => Kept
  /\ ~(rdp # None /\ Queued(mainQ, "DP"))
  /\ rdp # None => rdp = Newest

\* The state of a task that the main thread keeps.
StateInv ==
  Kept =>
    /\ gCurrentTask = Newest => state[Newest] \in {"running", "interrupted"}
    /\ gCurrentTask # Newest =>
         state[Newest] \in {"not_started", "interrupted", "finished"}
    /\ state[Newest] = "not_started" => rdp = None /\ ~Queued(mainQ, "DP")

\* No VI is dealt with before the SP interrupt.
SpFirst ==
  Queued(mainQ, "VI") =>
    /\ rsp = None
    /\ \A i, j \in DOMAIN mainQ : mainQ[i] = "VI" /\ mainQ[j] = "SP" => j < i

\* What the RSP is busy with, or was until its interrupt.
CurrentInv ==
  gCurrentTask \in Pools =>
    /\ frame # 0
    /\ ~HandedOver => gCurrentTask = Newest
    /\ HandedOver => /\ gCurrentTask # Newest /\ pc \in {"swap", "count", "vi"}
                     /\ pc = "vi" => left > Len(gfxVI)
                     /\ SpFirst

BufferInv ==
  /\ frame = 0 => next = FillBuffer
  /\ next \in {FillBuffer, (IF pc = "swap" THEN frame - 2 ELSE Last - 1) % 3}
  /\ ~HandedOver => shown \in {FillBuffer, (Last - 1) % 3, (Last - 2) % 3}

Inv ==
  /\ TypeOK /\ StageInv /\ FrameInv /\ RoomInv /\ QueueInv /\ RspInv /\ RdpInv
  /\ StateInv /\ CurrentInv /\ BufferInv

-----------------------------------------------------------------------------
(* Queues                                                                  *)

LEMMA QueuedAppend ==
  ASSUME NEW S, NEW q \in Seq(S), NEW x \in S, NEW m
  PROVE  Queued(Append(q, x), m) <=> Queued(q, m) \/ x = m
  <1>1. DOMAIN Append(q, x) = 1..Len(q) + 1 /\ DOMAIN q = 1..Len(q) /\ Len(q) \in Nat
    OBVIOUS
  <1>2. Append(q, x)[Len(q) + 1] = x /\ \A i \in 1..Len(q) : Append(q, x)[i] = q[i]
    OBVIOUS
  <1> QED
    BY <1>1, <1>2 DEF Queued

LEMMA AtMostOnceAppend ==
  ASSUME NEW S, NEW q \in Seq(S), NEW x \in S, NEW m, AtMostOnce(q, m),
         x = m => ~Queued(q, m)
  PROVE  AtMostOnce(Append(q, x), m)
  <1>1. DOMAIN Append(q, x) = 1..Len(q) + 1 /\ DOMAIN q = 1..Len(q) /\ Len(q) \in Nat
    OBVIOUS
  <1>2. Append(q, x)[Len(q) + 1] = x /\ \A i \in 1..Len(q) : Append(q, x)[i] = q[i]
    OBVIOUS
  <1> QED
    BY <1>1, <1>2 DEF AtMostOnce, Queued

LEMMA TailAt ==
  ASSUME NEW S, NEW q \in Seq(S), q # <<>>
  PROVE  /\ Tail(q) \in Seq(S) /\ Len(Tail(q)) = Len(q) - 1
         /\ Head(q) = q[1] /\ Head(q) \in S /\ Len(q) \in Nat \ {0}
         /\ DOMAIN q = 1..Len(q) /\ DOMAIN Tail(q) = 1..Len(q) - 1
         /\ \A i \in 1..Len(q) - 1 : Tail(q)[i] = q[i + 1]
  OBVIOUS

LEMMA AtMostOnceTail ==
  ASSUME NEW S, NEW q \in Seq(S), q # <<>>, NEW m, AtMostOnce(q, m)
  PROVE  /\ AtMostOnce(Tail(q), m)
         /\ Queued(Tail(q), m) <=> Queued(q, m) /\ Head(q) # m
  <1>1. AtMostOnce(Tail(q), m)
    BY TailAt DEF AtMostOnce
  <1>2. ASSUME Queued(Tail(q), m) PROVE Queued(q, m) /\ Head(q) # m
    <2>1. PICK i \in 1..Len(q) - 1 : q[i + 1] = m
      BY <1>2, TailAt DEF Queued
    <2>2. i + 1 \in DOMAIN q /\ 1 \in DOMAIN q /\ i + 1 # 1
      BY TailAt
    <2> QED
      BY <2>1, <2>2, TailAt DEF Queued, AtMostOnce
  <1>3. ASSUME Queued(q, m), Head(q) # m PROVE Queued(Tail(q), m)
    <2>1. PICK i \in 1..Len(q) : q[i] = m
      BY <1>3, TailAt DEF Queued
    <2>2. i # 1 /\ i - 1 \in 1..Len(q) - 1 /\ (i - 1) + 1 = i
      BY <1>3, <2>1, TailAt
    <2> QED
      BY <2>1, <2>2, TailAt DEF Queued
  <1> QED
    BY <1>1, <1>2, <1>3

LEMMA EmptyQueued == \A m : ~Queued(<<>>, m)
  BY DEF Queued

LEMMA HeadQueued ==
  ASSUME NEW S, NEW q \in Seq(S), q # <<>>
  PROVE  Queued(q, Head(q))
  BY TailAt DEF Queued

\* Of three messages, each at most once.
LEMMA MainQueueShort ==
  ASSUME NEW q \in Seq(Events), \A m \in Events : AtMostOnce(q, m)
  PROVE  Len(q) <= 3
  <1> SUFFICES ASSUME Len(q) >= 4 PROVE FALSE
    OBVIOUS
  <1>1. \A i \in 1..4 : i \in DOMAIN q /\ q[i] \in Events
    OBVIOUS
  <1>2. \A i, j \in 1..4 : q[i] = q[j] => i = j
    BY <1>1 DEF AtMostOnce
  <1>3. /\ q[1] \in Events /\ q[2] \in Events /\ q[3] \in Events /\ q[4] \in Events
        /\ q[1] # q[2] /\ q[1] # q[3] /\ q[1] # q[4]
        /\ q[2] # q[3] /\ q[2] # q[4] /\ q[3] # q[4]
    BY <1>1, <1>2
  <1> QED
    BY <1>3 DEF Events

LEMMA PutAppends ==
  ASSUME NEW S, NEW q \in Seq(S), NEW n \in Nat, NEW x \in S, Len(q) < n
  PROVE  /\ Put(q, n, x) = Append(q, x) /\ Put(q, n, x) \in Seq(S)
         /\ Len(Put(q, n, x)) = Len(q) + 1
  BY DEF Put

LEMMA PutTypes ==
  ASSUME NEW S, NEW q \in Seq(S), NEW n \in Nat, NEW x \in S, Len(q) <= n
  PROVE  /\ Put(q, n, x) \in Seq(S) /\ Len(Put(q, n, x)) <= n
         /\ Len(Put(q, n, x)) >= Len(q) /\ Len(Put(q, n, x)) <= Len(q) + 1
  BY DEF Put

LEMMA CountOnce ==
  ASSUME NEW q, NEW m, AtMostOnce(q, m)
  PROVE  Count(q, m) = IF Queued(q, m) THEN 1 ELSE 0
  <1>1. CASE Queued(q, m)
    <2>1. PICK i \in DOMAIN q : q[i] = m
      BY <1>1 DEF Queued
    <2>2. {j \in DOMAIN q : q[j] = m} = {i}
      BY <2>1 DEF AtMostOnce
    <2> QED
      BY <1>1, <2>2, FS_Singleton DEF Count
  <1>2. CASE ~Queued(q, m)
    <2>1. {j \in DOMAIN q : q[j] = m} = {}
      BY <1>2 DEF Queued
    <2> QED
      BY <1>2, <2>1, FS_EmptySet DEF Count
  <1> QED
    BY <1>1, <1>2

LEMMA ShortSeqs ==
  ASSUME NEW S, NEW x \in S
  PROVE  <<>> \in Seq(S) /\ Len(<<>>) = 0 /\ <<x>> \in Seq(S) /\ Len(<<x>>) = 1
  OBVIOUS

LEMMA EarliestOfOne == \A i \in Nat : Earliest({i}) = i
  <1> SUFFICES ASSUME NEW i \in Nat PROVE Earliest({i}) = i
    OBVIOUS
  <1>1. \A j \in {i} : i <= j
    OBVIOUS
  <1> QED
    BY <1>1 DEF Earliest

-----------------------------------------------------------------------------
(* Frames, pools and buffers                                               *)

LEMMA PoolAlternates ==
  /\ \A n \in 0..6 : Pool(n) \in Pools
  /\ \A n \in 1..6 : Pool(n - 1) \in Pools /\ Pool(n - 1) # Pool(n)
  /\ Pool(6) = Pool(0)
  BY DEF Pool, Pools

LEMMA BuffersRotate ==
  /\ \A n \in 0..6 : /\ n % 3 \in Buffers /\ (n - 1) % 3 \in Buffers
                     /\ (n - 2) % 3 \in Buffers
                     /\ n % 3 # (n - 1) % 3 /\ n % 3 # (n - 2) % 3
  /\ \A n, m \in Int : m = n - 6 => m % 3 = n % 3
  <1>1. \A n \in 0..6 : n % 3 \in Buffers
    BY DEF Buffers
  <1>2. \A n \in 0..6 : (n - 1) % 3 \in Buffers /\ n % 3 # (n - 1) % 3
    BY DEF Buffers
  <1>3. \A n \in 0..6 : (n - 2) % 3 \in Buffers /\ n % 3 # (n - 2) % 3
    BY DEF Buffers
  <1>4. \A n, m \in Int : m = n - 6 => m % 3 = n % 3
    OBVIOUS
  <1> QED
    BY <1>1, <1>2, <1>3, <1>4

\* The names are told apart.
LEMMA Names ==
  /\ None \notin Tasks /\ None \notin Pools /\ Pools \subseteq Tasks
  /\ "audio" \in Tasks /\ "audio" \notin Pools /\ "audio" # None
  /\ FillBuffer \notin Buffers
  BY ThreadsAssumption DEF Tasks, Pools, Buffers

\* What the types say of the frame.
LEMMA FrameTypes ==
  ASSUME TypeOK, FrameInv
  PROVE  /\ frame \in 0..6 /\ (frame # 0 => Last \in 0..6 /\ Newest \in Pools)
         /\ Last \in Int
  BY PoolAlternates DEF TypeOK, FrameInv, Last, Newest

-----------------------------------------------------------------------------
(* The main thread's messages                                              *)

MainTypeOK == mainQ \in Seq({"VI", "SP", "DP"}) /\ Len(mainQ) <= 32

LEMMA MainTypes == TypeOK => mainQ \in Seq(Events)
  BY DEF TypeOK, Events

\* A message that is not in the queue finds room.
LEMMA MesgSent ==
  ASSUME TypeOK, QueueInv, NEW m \in Events, ~Queued(mainQ, m),
         mainQ' = Put(mainQ, 32, m)
  PROVE  /\ mainQ' = Append(mainQ, m) /\ mainQ' \in Seq(Events) /\ MainTypeOK'
         /\ \A x \in Events : AtMostOnce(mainQ', x)
         /\ \A x \in Events : Queued(mainQ', x) <=> Queued(mainQ, x) \/ x = m
  <1>1. mainQ \in Seq(Events) /\ Len(mainQ) <= 3
    <2>1. mainQ \in Seq(Events) /\ \A x \in Events : AtMostOnce(mainQ, x)
      BY MainTypes DEF QueueInv
    <2> HIDE DEF Events
    <2> QED
      BY <2>1, MainQueueShort
  <1>2. mainQ' = Append(mainQ, m) /\ mainQ' \in Seq(Events) /\ Len(mainQ') <= 32
    BY <1>1, PutAppends
  <1>3. ASSUME NEW x \in Events PROVE AtMostOnce(Append(mainQ, m), x)
    BY <1>1, AtMostOnceAppend DEF QueueInv
  <1>4. ASSUME NEW x \in Events
        PROVE  Queued(Append(mainQ, m), x) <=> Queued(mainQ, x) \/ x = m
    BY <1>1, QueuedAppend
  <1>5. MainTypeOK'
    BY <1>2 DEF MainTypeOK, Events
  <1> QED
    BY <1>2, <1>3, <1>4, <1>5

LEMMA MesgTaken ==
  ASSUME TypeOK, QueueInv, mainQ # <<>>, mainQ' = Tail(mainQ)
  PROVE  /\ mainQ' \in Seq(Events) /\ MainTypeOK'
         /\ Head(mainQ) \in Events /\ Queued(mainQ, Head(mainQ))
         /\ \A x \in Events : AtMostOnce(mainQ', x)
         /\ \A x \in Events : Queued(mainQ', x) <=> Queued(mainQ, x) /\ x # Head(mainQ)
  <1>1. mainQ \in Seq(Events) /\ Len(mainQ) <= 32
    BY MainTypes DEF TypeOK
  <1>2. mainQ' \in Seq(Events) /\ Len(mainQ') <= 32 /\ Head(mainQ) \in Events
    BY <1>1, TailAt
  <1>3. Queued(mainQ, Head(mainQ))
    BY <1>1, HeadQueued
  <1>4. \A x \in Events : /\ AtMostOnce(mainQ', x)
                          /\ Queued(mainQ', x) <=> Queued(mainQ, x) /\ x # Head(mainQ)
    BY <1>1, AtMostOnceTail DEF QueueInv
  <1>5. MainTypeOK'
    BY <1>2 DEF MainTypeOK, Events
  <1> QED
    BY <1>2, <1>3, <1>4, <1>5

\* While the newest task waits to be taken, nothing is drawn.
LEMMA Idle ==
  ASSUME RdpInv, StageInv, ~Kept PROVE rdp = None /\ ~Queued(mainQ, "DP")
  BY DEF RdpInv

LEMMA StagesDiffer ==
  /\ HandedOver => ~Kept /\ ~Drawn /\ ~NoTask
  /\ Kept => ~Drawn /\ ~NoTask
  BY DEF HandedOver, Kept, Drawn, NoTask

LEMMA SameStage ==
  ASSUME UNCHANGED <<gfxTask, taskQ, sGfxTasks, pc, frame>>
  PROVE  /\ Last' = Last /\ Newest' = Newest /\ New' = New
         /\ HandedOver' = HandedOver /\ Kept' = Kept /\ Drawn' = Drawn
         /\ NoTask' = NoTask
  BY DEF Last, Newest, New, HandedOver, Kept, Drawn, NoTask

-----------------------------------------------------------------------------
(* The processors                                                          *)

LEMMA VIStep == ASSUME Inv, VI PROVE Inv'
  <1> USE DEF Inv
  <1>0. "VI" \in Events /\ "SP" \in Events /\ "DP" \in Events
    BY DEF Events
  <1>1. /\ mainQ' = Append(mainQ, "VI") /\ mainQ' \in Seq(Events) /\ MainTypeOK'
        /\ \A x \in Events : AtMostOnce(mainQ', x)
        /\ \A x \in Events : Queued(mainQ', x) <=> Queued(mainQ, x) \/ x = "VI"
    BY <1>0, MesgSent DEF VI
  <1>2. TypeOK'
    BY <1>1 DEF TypeOK, MainTypeOK, VI, mainVars, gfxVars, rcpVars
  <1>3. UNCHANGED <<gfxTask, taskQ, sGfxTasks, pc, frame>>
    BY DEF VI, mainVars, gfxVars
  <1>4. StageInv' /\ FrameInv' /\ RoomInv'
    BY <1>3, SameStage DEF VI, gfxVars, StageInv, FrameInv, RoomInv
  <1>5. QueueInv'
    BY <1>1 DEF QueueInv, VI
  <1>6. RspInv' /\ RdpInv' /\ StateInv'
    BY <1>0, <1>1, <1>3, SameStage
       DEF VI, mainVars, rcpVars, RspInv, RdpInv, StateInv
  <1>7. CurrentInv'
    <2> SUFFICES ASSUME gCurrentTask \in Pools, HandedOver PROVE SpFirst'
      BY <1>3, SameStage DEF CurrentInv, VI, mainVars, gfxVars
    <2>1. rdp = None /\ rsp = None
      BY StagesDiffer, Idle, Names DEF VI, RspInv
    <2>2. mainQ \in Seq(Events)
      BY MainTypes
    <2>3. /\ DOMAIN mainQ' = 1..Len(mainQ) + 1 /\ Len(mainQ) \in Nat
          /\ \A i \in 1..Len(mainQ) : mainQ'[i] = mainQ[i] /\ i \in DOMAIN mainQ
      BY <1>1, <2>2
    <2>4. \A i, j \in DOMAIN mainQ' :
             mainQ'[i] = "VI" /\ mainQ'[j] = "SP" => j < i
      BY <2>3 DEF VI, Queued
    <2> QED
      BY <2>1, <2>4 DEF SpFirst, VI, rcpVars
  <1>8. BufferInv'
    BY <1>3, SameStage DEF BufferInv, VI, gfxVars, Last
  <1> QED
    BY <1>2, <1>4, <1>5, <1>6, <1>7, <1>8

LEMMA RspStep ==
  ASSUME Inv, rsp # None, RspBreak(yielded'), yielded' \in BOOLEAN,
         synced' \in BOOLEAN
  PROVE  Inv'
  <1> USE DEF Inv
  <1>0. "VI" \in Events /\ "SP" \in Events /\ "DP" \in Events
    BY DEF Events
  <1>1. gCurrentTask # None /\ ~Queued(mainQ, "SP")
    BY DEF RspInv
  <1>2. /\ mainQ' = Append(mainQ, "SP") /\ mainQ' \in Seq(Events) /\ MainTypeOK'
        /\ \A x \in Events : AtMostOnce(mainQ', x)
        /\ \A x \in Events : Queued(mainQ', x) <=> Queued(mainQ, x) \/ x = "SP"
    BY <1>0, <1>1, MesgSent DEF RspBreak
  <1>3. TypeOK'
    BY <1>2 DEF TypeOK, MainTypeOK, RspBreak, mainVars, gfxVars, viVars
  <1>4. UNCHANGED <<gfxTask, taskQ, sGfxTasks, pc, frame, gCurrentTask, rdp>>
    BY DEF RspBreak, mainVars, gfxVars
  <1>5. StageInv' /\ FrameInv' /\ RoomInv' /\ BufferInv'
    BY <1>4, SameStage
       DEF RspBreak, gfxVars, viVars, StageInv, FrameInv, RoomInv, BufferInv
  <1>6. QueueInv'
    BY <1>0, <1>2 DEF QueueInv, RspBreak, viVars
  <1>7. RspInv' /\ RdpInv' /\ StateInv'
    BY <1>0, <1>1, <1>2, <1>4, SameStage
       DEF RspBreak, mainVars, RspInv, RdpInv, StateInv
  <1>8. CurrentInv'
    <2> SUFFICES ASSUME gCurrentTask \in Pools, HandedOver PROVE SpFirst'
      BY <1>4, SameStage DEF CurrentInv, RspBreak, mainVars, gfxVars
    <2>1. ~Queued(mainQ, "VI")
      BY DEF CurrentInv, SpFirst
    <2> QED
      BY <1>0, <1>2, <2>1 DEF SpFirst
  <1> QED
    BY <1>3, <1>5, <1>6, <1>7, <1>8

LEMMA RspSteps == ASSUME Inv, RspAudio \/ RspGfx \/ RspYields PROVE Inv'
  <1>1. CASE RspAudio
    <2>1. rsp # None /\ RspBreak(yielded') /\ {yielded', synced'} \subseteq BOOLEAN
      BY <1>1, Names DEF RspAudio, RspBreak, Inv, TypeOK
    <2> QED
      BY <2>1, RspStep
  <1>2. CASE RspGfx
    <2>1. rsp # None /\ RspBreak(yielded') /\ {yielded', synced'} \subseteq BOOLEAN
      BY <1>2, Names DEF RspGfx, RspBreak
    <2> QED
      BY <2>1, RspStep
  <1>3. CASE RspYields
    <2>1. rsp # None /\ RspBreak(yielded') /\ {yielded', synced'} \subseteq BOOLEAN
      BY <1>3, Names DEF RspYields, RspBreak, Inv, TypeOK
    <2> QED
      BY <2>1, RspStep
  <1> QED
    BY <1>1, <1>2, <1>3

LEMMA RdpStep == ASSUME Inv, RdpDone PROVE Inv'
  <1> USE DEF Inv
  <1>0. "VI" \in Events /\ "SP" \in Events /\ "DP" \in Events
    BY DEF Events
  <1>1. Kept /\ ~HandedOver /\ ~Queued(mainQ, "DP")
    BY StagesDiffer DEF RdpInv, RdpDone
  <1>2. /\ mainQ' = Append(mainQ, "DP") /\ mainQ' \in Seq(Events) /\ MainTypeOK'
        /\ \A x \in Events : AtMostOnce(mainQ', x)
        /\ \A x \in Events : Queued(mainQ', x) <=> Queued(mainQ, x) \/ x = "DP"
    BY <1>0, <1>1, MesgSent DEF RdpDone
  <1>3. TypeOK'
    <2>1. synced' \in BOOLEAN /\ rdp' \in Pools \cup {None}
      BY DEF RdpDone
    <2> QED
      BY <1>2, <2>1 DEF TypeOK, MainTypeOK, RdpDone, mainVars, gfxVars, viVars
  <1>4. UNCHANGED <<gfxTask, taskQ, sGfxTasks, pc, frame, gCurrentTask, rsp, state>>
    BY DEF RdpDone, mainVars, gfxVars
  <1>5. StageInv' /\ FrameInv' /\ RoomInv' /\ BufferInv' /\ CurrentInv'
    BY <1>1, <1>4, SameStage DEF RdpDone, gfxVars, viVars, StageInv, FrameInv,
                                 RoomInv, BufferInv, CurrentInv
  <1>6. QueueInv'
    BY <1>0, <1>2 DEF QueueInv, RdpDone, viVars
  <1>7. RspInv' /\ RdpInv' /\ StateInv'
    BY <1>0, <1>1, <1>2, <1>4, SameStage DEF RdpDone, RspInv, RdpInv, StateInv
  <1> QED
    BY <1>3, <1>5, <1>6, <1>7

-----------------------------------------------------------------------------
(* The audio thread                                                        *)

\* A task of no pool changes nothing for the frames.
LEMMA AudioTaskPut ==
  ASSUME taskQ \in Seq(Tasks), taskQ' = Append(taskQ, "audio"),
         UNCHANGED <<gfxTask, sGfxTasks, pc, frame>>
  PROVE  /\ Last' = Last /\ Newest' = Newest /\ New' = New
         /\ HandedOver' = HandedOver /\ Kept' = Kept /\ Drawn' = Drawn
         /\ NoTask' = NoTask
  <1>1. Last' = Last /\ Newest' = Newest
    BY DEF Last, Newest
  <1>2. /\ DOMAIN taskQ' = 1..Len(taskQ) + 1 /\ DOMAIN taskQ = 1..Len(taskQ)
        /\ Len(taskQ) \in Nat /\ taskQ'[Len(taskQ) + 1] = "audio"
        /\ \A i \in 1..Len(taskQ) : taskQ'[i] = taskQ[i]
    BY Names
  <1>3. New' = New
    BY <1>2, Names DEF New
  <1>4. HandedOver' = HandedOver
    BY <1>1, <1>2, <1>3, Names DEF HandedOver, New
  <1> QED
    BY <1>1, <1>3, <1>4 DEF Kept, Drawn, NoTask

LEMMA AudioStep == ASSUME Inv, Audio PROVE Inv'
  <1> USE DEF Inv
  <1>0. taskQ \in Seq(Tasks) /\ Len(taskQ) \in Nat /\ Len(taskQ) < 16
        /\ "audio" \in Tasks
    BY Names DEF TypeOK, RoomInv, Audio
  <1>1. taskQ' = taskQ \/ taskQ' = Append(taskQ, "audio")
    BY <1>0, PutAppends DEF Audio
  <1>2. taskQ' \in Seq(Tasks) /\ Len(taskQ') <= Len(taskQ) + 1
    BY <1>0, <1>1
  <1>3. /\ Last' = Last /\ Newest' = Newest /\ New' = New
        /\ HandedOver' = HandedOver /\ Kept' = Kept /\ Drawn' = Drawn
        /\ NoTask' = NoTask
    BY <1>0, <1>1, SameStage, AudioTaskPut DEF Audio, mainVars, gfxVars
  <1>4. UNCHANGED <<mainQ, mainVars, gfxVars, rcpVars, viVars, gfxVI>>
    BY DEF Audio
  <1>5. TypeOK'
    BY <1>0, <1>2 DEF TypeOK, Audio, mainVars, gfxVars, rcpVars, viVars
  <1>6. RoomInv'
    BY <1>0, <1>2, <1>3 DEF RoomInv, Audio
  <1>7. StageInv' /\ FrameInv' /\ QueueInv' /\ BufferInv'
    BY <1>3, <1>4 DEF gfxVars, viVars, StageInv, FrameInv, QueueInv, BufferInv
  <1>8. RspInv' /\ RdpInv' /\ StateInv' /\ CurrentInv'
    BY <1>3, <1>4 DEF mainVars, gfxVars, rcpVars, RspInv, RdpInv, StateInv,
                      CurrentInv, SpFirst
  <1> QED
    BY <1>5, <1>6, <1>7, <1>8

-----------------------------------------------------------------------------
(* The serial thread                                                       *)

LEMMA PutOne ==
  ASSUME NEW x, NEW q \in {<<>>, <<x>>} PROVE Put(q, 1, x) \in {<<>>, <<x>>}
  <1>1. CASE q = <<>>
    <2>1. Len(q) = 0 /\ Append(q, x) = <<x>>
      BY <1>1
    <2> QED
      BY <2>1 DEF Put
  <1>2. CASE q = <<x>>
    BY <1>2 DEF Put
  <1> QED
    BY <1>1, <1>2

LEMMA SerialStep == ASSUME Inv, Serial PROVE Inv'
  <1> USE DEF Inv
  <1>1. UNCHANGED <<mainQ, taskQ, audioVI, gfxVI, gfxTask, mainVars, gfxVars,
                    rcpVars, viVars>>
    BY DEF Serial, SerialTake, SerialFinish
  <1>2. /\ serialQ' \in Seq({"READ", "RUMBLE", "SAVE"}) /\ Len(serialQ') <= 8
        /\ serial' \in {"idle", "READ", "RUMBLE", "SAVE"}
        /\ controller' \in {<<>>, <<"DONE">>} /\ save' \in {<<>>, <<"DONE">>}
    <2> DEFINE Requests == {"READ", "RUMBLE", "SAVE"}
    <2>1. serialQ \in Seq(Requests) /\ Len(serialQ) <= 8
      BY DEF TypeOK
    <2>2. CASE SerialTake
      <3>1. serialQ # <<>> /\ serialQ' = Tail(serialQ) /\ serial' = Head(serialQ)
        BY <2>2 DEF SerialTake
      <3> HIDE DEF Requests
      <3>2. /\ serialQ' \in Seq(Requests) /\ Len(serialQ') <= 8
            /\ serial' \in Requests
        BY <2>1, <3>1
      <3> QED
        BY <2>2, <3>2 DEF SerialTake, TypeOK, Requests
    <2>3. CASE SerialFinish
      <3>1. controller' \in {<<>>, <<"DONE">>} /\ save' \in {<<>>, <<"DONE">>}
        BY <2>3, PutOne DEF SerialFinish, TypeOK
      <3> QED
        BY <2>1, <2>3, <3>1 DEF SerialFinish
    <2> QED
      BY <2>2, <2>3 DEF Serial
  <1>3. TypeOK'
    BY <1>1, <1>2 DEF TypeOK, mainVars, gfxVars, rcpVars, viVars
  <1>4. UNCHANGED <<gfxTask, taskQ, sGfxTasks, pc, frame>>
    BY <1>1 DEF mainVars, gfxVars
  <1>5. StageInv' /\ FrameInv' /\ RoomInv' /\ QueueInv' /\ BufferInv'
    BY <1>1, <1>4, SameStage
       DEF gfxVars, viVars, StageInv, FrameInv, RoomInv, QueueInv, BufferInv
  <1>6. RspInv' /\ RdpInv' /\ StateInv' /\ CurrentInv'
    BY <1>1, <1>4, SameStage
       DEF mainVars, gfxVars, rcpVars, RspInv, RdpInv, StateInv, CurrentInv, SpFirst
  <1> QED
    BY <1>3, <1>5, <1>6

-----------------------------------------------------------------------------
(* The graphics thread                                                     *)

\* While the graphics thread runs, the main and the audio thread wait.
LEMMA GraphicsAlone ==
  GraphicsMayRun => mainQ = <<>> /\ audioVI = <<>> /\ \A m : ~Queued(mainQ, m)
  BY EmptyQueued DEF GraphicsMayRun, MainReady, AudioReady

\* The steps before the frame's task is handed over leave the rest as it is.
EarlyPc == {"controller", "update", "save", "drain", "task"}

LEMMA EarlyStep ==
  ASSUME Inv, pc \in EarlyPc, pc' \in EarlyPc, frame = 0 => pc' \in {"update", "task"},
         UNCHANGED <<mainQ, taskQ, audioVI, gfxVI, gfxTask, mainVars, frame, left,
                     rcpVars, viVars>>
  PROVE  /\ StageInv' /\ FrameInv' /\ RoomInv' /\ QueueInv' /\ RspInv' /\ RdpInv'
         /\ StateInv' /\ CurrentInv' /\ BufferInv'
  <1> USE DEF Inv
  <1>1. /\ Last' = Last /\ Newest' = Newest /\ New' = New
        /\ HandedOver' = HandedOver /\ Kept' = Kept /\ Drawn' = Drawn
        /\ NoTask' = NoTask
    <2>1. Last' = Last
      BY DEF Last, EarlyPc
    <2>2. Newest' = Newest /\ New' = New /\ UNCHANGED <<gfxTask, taskQ, sGfxTasks>>
      BY <2>1 DEF Newest, New, mainVars
    <2> QED
      BY <2>1, <2>2 DEF HandedOver, Kept, Drawn, NoTask
  <1>2. StageInv' /\ FrameInv' /\ RoomInv' /\ QueueInv'
    BY <1>1 DEF StageInv, FrameInv, RoomInv, QueueInv, EarlyPc, viVars
  <1>3. RspInv' /\ RdpInv' /\ StateInv'
    BY <1>1 DEF RspInv, RdpInv, StateInv, mainVars, rcpVars
  <1>4. CurrentInv'
    BY <1>1 DEF CurrentInv, SpFirst, EarlyPc, mainVars, rcpVars
  <1>5. BufferInv'
    BY <1>1 DEF BufferInv, EarlyPc, viVars
  <1> QED
    BY <1>2, <1>3, <1>4, <1>5

LEMMA ReadControllerStep == ASSUME Inv, ReadController PROVE Inv'
  <1> USE DEF Inv
  <1> DEFINE Requests == {"READ", "RUMBLE", "SAVE"}
  <1>1. /\ serialQ \in Seq(Requests) /\ Len(serialQ) <= 8
        /\ "READ" \in Requests /\ "RUMBLE" \in Requests
    BY DEF TypeOK
  <1>2. serialQ' \in Seq(Requests) /\ Len(serialQ') <= 8
    <2> HIDE DEF Requests
    <2>1. LET q == Put(serialQ, 8, "RUMBLE") IN q \in Seq(Requests) /\ Len(q) <= 8
      BY <1>1, PutTypes
    <2> QED
      BY <1>1, <2>1, PutTypes DEF ReadController
  <1>3. TypeOK'
    BY <1>2 DEF TypeOK, ReadController, mainVars, rcpVars, viVars
  <1>4. pc \in EarlyPc /\ pc' \in EarlyPc /\ frame # 0
    BY DEF ReadController, EarlyPc, FrameInv
  <1> QED
    BY <1>3, <1>4, EarlyStep DEF ReadController

LEMMA UpdateStep == ASSUME Inv, Update PROVE Inv'
  <1> USE DEF Inv
  <1> DEFINE Requests == {"READ", "RUMBLE", "SAVE"}
  <1>1. serialQ \in Seq(Requests) /\ Len(serialQ) <= 8 /\ "SAVE" \in Requests
    BY DEF TypeOK
  <1>2. serialQ' = serialQ \/ serialQ' = Put(serialQ, 8, "SAVE")
    BY DEF Update
  <1>3. serialQ' \in Seq(Requests) /\ Len(serialQ') <= 8
    <2> HIDE DEF Requests
    <2> QED
      BY <1>1, <1>2, PutTypes
  <1>4. stop' \in BOOLEAN
    BY DEF Update, TypeOK
  <1>5. /\ pc \in EarlyPc /\ pc' \in EarlyPc /\ pc' \in {"task", "save", "drain"}
        /\ frame = 0 => pc' = "task"
    BY DEF Update, EarlyPc
  <1>6. TypeOK'
    BY <1>3, <1>4, <1>5 DEF TypeOK, Update, mainVars, rcpVars, viVars
  <1> QED
    BY <1>5, <1>6, EarlyStep DEF Update

LEMMA SaveDoneStep == ASSUME Inv, SaveDone PROVE Inv'
  <1> USE DEF Inv
  <1>1. TypeOK'
    BY DEF TypeOK, SaveDone, mainVars, rcpVars, viVars
  <1>2. pc \in EarlyPc /\ pc' \in EarlyPc /\ pc' = "task"
    BY DEF SaveDone, EarlyPc
  <1> QED
    BY <1>1, <1>2, EarlyStep DEF SaveDone

LEMMA DrainStep == ASSUME Inv, Drain PROVE Inv'
  <1> USE DEF Inv
  <1>1. Drawn /\ frame # 0 /\ frame' = frame /\ pc' = "drained" /\ ~HandedOver /\ ~Kept
    BY StagesDiffer DEF StageInv, FrameInv, Drain, Drawn, HandedOver, Kept, NoTask
  <1>2. gfxTask' = <<>>
    BY <1>1 DEF Drain, Drawn
  <1>3. /\ Last' = Last /\ Newest' = Newest /\ New' = New /\ NoTask'
        /\ ~HandedOver' /\ ~Kept'
    <2>1. Last' = Last
      BY DEF Last, Drain
    <2>2. Newest' = Newest /\ New' = New
      BY <2>1 DEF Newest, New, Drain
    <2>3. NoTask'
      BY <1>1, <1>2, <2>2 DEF NoTask, Drawn, Drain, mainVars
    <2> QED
      BY <2>1, <2>2, <2>3 DEF NoTask, HandedOver, Kept
  <1>4. TypeOK'
    BY <1>2 DEF TypeOK, Drain, mainVars, rcpVars, viVars
  <1>5. StageInv' /\ FrameInv' /\ RoomInv' /\ QueueInv'
    BY <1>1, <1>3 DEF StageInv, FrameInv, RoomInv, QueueInv, Drain, viVars
  <1>6. RspInv' /\ RdpInv' /\ StateInv' /\ CurrentInv'
    BY <1>1, <1>3 DEF RspInv, RdpInv, StateInv, CurrentInv, Drain, mainVars, rcpVars
  <1>7. BufferInv'
    BY <1>1, <1>3 DEF BufferInv, Drain, viVars
  <1> QED
    BY <1>4, <1>5, <1>6, <1>7

LEMMA GiveBackStep == ASSUME Inv, GiveBack PROVE Inv'
  <1> USE DEF Inv
  <1>1. NoTask /\ frame # 0 /\ frame' = frame /\ pc' = "task" /\ ~HandedOver /\ ~Kept
    BY StagesDiffer DEF StageInv, FrameInv, GiveBack
  <1>2. gfxTask' = <<"task">>
    <2>1. Len(gfxTask) = 0 /\ Append(gfxTask, "task") = <<"task">>
      BY <1>1 DEF NoTask
    <2> QED
      BY <2>1 DEF GiveBack, Put
  <1>3. /\ Last' = Last /\ Newest' = Newest /\ New' = New /\ Drawn'
        /\ ~HandedOver' /\ ~Kept'
    <2>1. Last' = Last
      BY DEF Last, GiveBack
    <2>2. Newest' = Newest /\ New' = New
      BY <2>1 DEF Newest, New, GiveBack
    <2>3. Drawn'
      BY <1>1, <1>2, <2>2 DEF NoTask, Drawn, GiveBack, mainVars
    <2> QED
      BY <2>1, <2>2, <2>3 DEF Drawn, HandedOver, Kept
  <1>4. TypeOK'
    <2>1. gfxTask' \in Seq({"task"}) /\ Len(gfxTask') <= 2
      BY <1>2
    <2> QED
      BY <2>1 DEF TypeOK, GiveBack, mainVars, rcpVars, viVars
  <1>5. StageInv' /\ FrameInv' /\ RoomInv' /\ QueueInv'
    BY <1>1, <1>3 DEF StageInv, FrameInv, RoomInv, QueueInv, GiveBack, viVars
  <1>6. RspInv' /\ RdpInv' /\ StateInv' /\ CurrentInv'
    BY <1>1, <1>3 DEF RspInv, RdpInv, StateInv, CurrentInv, GiveBack, mainVars, rcpVars
  <1>7. BufferInv'
    BY <1>1, <1>3 DEF BufferInv, GiveBack, viVars
  <1> QED
    BY <1>4, <1>5, <1>6, <1>7

\* The frame's task goes into a queue that holds none.
LEMMA GfxTaskPut ==
  ASSUME taskQ \in Seq(Tasks), New = {}, NEW p \in Pools, taskQ' = Append(taskQ, p)
  PROVE  \E i \in DOMAIN taskQ' : New' = {i} /\ taskQ'[i] = p
  <1>1. p \in Tasks
    BY Names
  <1>2. /\ DOMAIN taskQ' = 1..Len(taskQ) + 1 /\ DOMAIN taskQ = 1..Len(taskQ)
        /\ Len(taskQ) \in Nat /\ taskQ'[Len(taskQ) + 1] = p
        /\ \A i \in 1..Len(taskQ) : taskQ'[i] = taskQ[i]
    BY <1>1
  <1>3. New' = {Len(taskQ) + 1}
    BY <1>2 DEF New
  <1> QED
    BY <1>2, <1>3

LEMMA SetTaskStep == ASSUME Inv, SetTask PROVE Inv'
  <1> USE DEF Inv
  <1>1. mainQ = <<>> /\ audioVI = <<>> /\ \A m : ~Queued(mainQ, m)
    BY GraphicsAlone DEF SetTask
  <1>2. New = {} /\ sGfxTasks = <<>> /\ ~HandedOver /\ ~Kept
    <2>1. CASE frame = 0
      BY <2>1, StagesDiffer DEF StageInv, NoTask
    <2>2. CASE frame # 0
      <3>1. Drawn
        BY <2>2 DEF StageInv, SetTask, HandedOver, Kept
      <3> QED
        BY <3>1, StagesDiffer DEF Drawn
    <2> QED
      BY <2>1, <2>2
  <1>3. gfxTask' = <<>> /\ UNCHANGED <<sGfxTasks, gCurrentTask, state>>
    BY <1>2 DEF SetTask, StageInv, NoTask, Drawn, mainVars
  <1>4. frame' \in 0..6 /\ frame' # 0 /\ pc' \in {"controller", "swap"} /\ Last' = frame
        /\ (frame = 0 => pc' = "controller") /\ (frame # 0 => pc' = "swap" /\ frame' = frame)
    BY DEF TypeOK, SetTask, NextFrame, Last
  <1>5. taskQ \in Seq(Tasks) /\ Len(taskQ) <= 1 /\ Len(taskQ) \in Nat
        /\ Pool(frame) \in Pools /\ Pool(frame) \in Tasks
    BY <1>1, <1>2, PoolAlternates, Names DEF TypeOK, RoomInv
  <1>6. taskQ' = Append(taskQ, Pool(frame)) /\ taskQ' \in Seq(Tasks) /\ Len(taskQ') <= 2
    BY <1>5, PutAppends DEF SetTask
  <1>7. Newest' = Pool(frame) /\ HandedOver' /\ ~Kept' /\ ~NoTask'
    <2>1. Newest' = Pool(frame)
      BY <1>4 DEF Newest, Pool
    <2>2. HandedOver'
      BY <1>2, <1>3, <1>5, <1>6, <2>1, GfxTaskPut DEF HandedOver
    <2> QED
      BY <2>1, <2>2 DEF HandedOver, Kept, NoTask
  <1>8. TypeOK'
    BY <1>3, <1>4, <1>6 DEF TypeOK, SetTask, mainVars, rcpVars, viVars
  <1>9. StageInv' /\ FrameInv' /\ RoomInv' /\ QueueInv'
    BY <1>1, <1>4, <1>6, <1>7
       DEF StageInv, FrameInv, RoomInv, QueueInv, SetTask, viVars
  <1>10. RspInv' /\ RdpInv' /\ StateInv'
    BY <1>1, <1>2, <1>7 DEF RspInv, RdpInv, StateInv, SetTask, mainVars, rcpVars
  <1>11. CurrentInv'
    <2> SUFFICES ASSUME gCurrentTask \in Pools
                 PROVE  /\ gCurrentTask # Newest' /\ pc' = "swap" /\ SpFirst'
      BY <1>3, <1>4, <1>7 DEF CurrentInv
    <2>1. frame # 0 /\ gCurrentTask = Pool(frame - 1)
      BY <1>2 DEF CurrentInv, Newest, Last, SetTask
    <2>2. gCurrentTask # Newest'
      BY <1>7, <2>1, PoolAlternates DEF TypeOK
    <2> QED
      BY <1>1, <1>4, <2>1, <2>2 DEF SpFirst, SetTask
  <1>12. BufferInv'
    <2>1. next' = next
      BY DEF SetTask, viVars
    <2>2. CASE frame = 0
      BY <1>4, <1>7, <2>1, <2>2 DEF BufferInv
    <2>3. CASE frame # 0
      <3>1. next \in {FillBuffer, ((frame - 1) - 1) % 3}
        BY <2>3 DEF BufferInv, Last, SetTask
      <3>2. (frame - 1) - 1 = frame - 2
        BY DEF TypeOK
      <3> QED
        BY <1>4, <1>7, <2>1, <2>3, <3>1, <3>2 DEF BufferInv
    <2> QED
      BY <2>2, <2>3
  <1> QED
    BY <1>8, <1>9, <1>10, <1>11, <1>12

LEMMA SwapBufferStep == ASSUME Inv, SwapBuffer PROVE Inv'
  <1> USE DEF Inv
  <1>1. mainQ = <<>> /\ \A m : ~Queued(mainQ, m)
    BY GraphicsAlone DEF SwapBuffer
  <1>2. /\ frame # 0 /\ Last = frame /\ pc' = "count" /\ frame' = frame
        /\ UNCHANGED <<gfxTask, taskQ, sGfxTasks, gCurrentTask, state, mainQ, rsp, rdp>>
    BY DEF SwapBuffer, FrameInv, Last, queues, mainVars, rcpVars
  <1>3. /\ Last' = Last /\ Newest' = Newest /\ New' = New
        /\ HandedOver' = HandedOver /\ Kept' = Kept /\ Drawn' = Drawn
        /\ NoTask' = NoTask
    <2>1. Last' = Last
      BY <1>2 DEF Last
    <2>2. Newest' = Newest /\ New' = New
      BY <1>2, <2>1 DEF Newest, New
    <2> QED
      BY <1>2, <2>1, <2>2 DEF HandedOver, Kept, Drawn, NoTask
  <1>4. TypeOK'
    <2>1. next' \in Buffers
      BY BuffersRotate DEF SwapBuffer, TypeOK
    <2> QED
      BY <2>1 DEF TypeOK, SwapBuffer, queues, mainVars, rcpVars
  <1>5. StageInv' /\ FrameInv' /\ RoomInv' /\ QueueInv'
    BY <1>1, <1>2, <1>3
       DEF StageInv, FrameInv, RoomInv, QueueInv, SwapBuffer, queues
  <1>6. RspInv' /\ RdpInv' /\ StateInv' /\ CurrentInv'
    BY <1>1, <1>2, <1>3 DEF RspInv, RdpInv, StateInv, CurrentInv, SpFirst
  <1>7. BufferInv'
    BY <1>2, <1>3 DEF BufferInv, SwapBuffer
  <1> QED
    BY <1>4, <1>5, <1>6, <1>7

LEMMA ValidVIsBounds ==
  ASSUME TypeOK, NEW n \in VIsPerFrame
  PROVE  /\ ValidVIs(n) \in 0..GfxVIs + 4 /\ ValidVIs(n) > 0
         /\ ValidVIs(n) > Len(gfxVI)
  <1>1. n \in Nat /\ Len(gfxVI) \in Nat /\ Len(gfxVI) <= GfxVIs /\ GfxVIs \in Nat
    BY ThreadsAssumption DEF TypeOK
  <1> QED
    BY <1>1 DEF ValidVIs, Min2

LEMMA CountVIsStep == ASSUME Inv, CountVIs PROVE Inv'
  <1> USE DEF Inv
  <1>1. left' \in 0..GfxVIs + 4 /\ left' > 0 /\ left' > Len(gfxVI)
    BY ValidVIsBounds DEF CountVIs
  <1>2. \A m : ~Queued(mainQ, m)
    BY GraphicsAlone DEF CountVIs
  <1>3. /\ frame # 0 /\ Last = frame /\ pc' = "vi" /\ pc = "count" /\ frame' = frame
        /\ UNCHANGED <<gfxTask, taskQ, sGfxTasks, gCurrentTask, state, mainQ, rsp, rdp,
                       gfxVI, audioVI, shown, next>>
    BY DEF CountVIs, FrameInv, Last, queues, mainVars, rcpVars, viVars
  <1>4. /\ Last' = Last /\ Newest' = Newest /\ New' = New
        /\ HandedOver' = HandedOver /\ Kept' = Kept /\ Drawn' = Drawn
        /\ NoTask' = NoTask
    <2>1. Last' = Last
      BY <1>3 DEF Last
    <2>2. Newest' = Newest /\ New' = New
      BY <1>3, <2>1 DEF Newest, New
    <2> QED
      BY <1>3, <2>1, <2>2 DEF HandedOver, Kept, Drawn, NoTask
  <1>5. TypeOK'
    BY <1>1, <1>3 DEF TypeOK, CountVIs, queues, mainVars, rcpVars, viVars
  <1>6. StageInv' /\ FrameInv' /\ RoomInv' /\ QueueInv' /\ BufferInv'
    BY <1>1, <1>3, <1>4 DEF StageInv, FrameInv, RoomInv, QueueInv, BufferInv
  <1>7. RspInv' /\ RdpInv' /\ StateInv' /\ CurrentInv'
    BY <1>1, <1>2, <1>3, <1>4 DEF RspInv, RdpInv, StateInv, CurrentInv, SpFirst
  <1> QED
    BY <1>5, <1>6, <1>7

\* A frame's pool and buffers, told from the frame number after it.
LEMMA NextFrameRotates ==
  ASSUME frame \in 1..6, pc = "vi", NextFrame
  PROVE  /\ frame' \in 1..6 /\ pc' = "controller" /\ Newest' = Newest
         /\ (Last' - 1) % 3 = (Last - 1) % 3 /\ (Last' - 2) % 3 = (Last - 2) % 3
  <1>1. /\ frame' \in 1..6 /\ pc' = "controller" /\ Last = frame
        /\ Last' = IF frame = 6 THEN 0 ELSE frame
    BY DEF NextFrame, Last
  <1>2. Newest' = Newest
    BY <1>1, PoolAlternates DEF Newest, Pool
  <1>3. CASE frame # 6
    BY <1>1, <1>2, <1>3
  <1>4. CASE frame = 6
    <2>1. Last = 6 /\ Last' = 0
      BY <1>1, <1>4
    <2> DEFINE a == Last - 1
               b == Last - 2
    <2>2. a \in Int /\ b \in Int /\ a' \in Int /\ b' \in Int /\ a' = a - 6 /\ b' = b - 6
      BY <2>1
    <2> HIDE DEF a, b
    <2>3. a' % 3 = a % 3 /\ b' % 3 = b % 3
      BY <2>2, BuffersRotate
    <2> QED
      BY <1>1, <1>2, <2>3 DEF a, b
  <1> QED
    BY <1>3, <1>4

LEMMA WaitForVIStep == ASSUME Inv, WaitForVI PROVE Inv'
  <1> USE DEF Inv
  <1>1. \A m : ~Queued(mainQ, m)
    BY GraphicsAlone DEF WaitForVI
  <1>2. /\ frame \in 1..6 /\ pc = "vi" /\ left \in 1..GfxVIs + 4 /\ GfxVIs \in Nat
        /\ UNCHANGED <<gfxTask, taskQ, sGfxTasks, gCurrentTask, state, mainQ, rsp, rdp,
                       audioVI, shown, next>>
    BY ThreadsAssumption DEF WaitForVI, FrameInv, TypeOK, mainVars, rcpVars, viVars
  <1>3. /\ gfxVI' \in Seq({"VI"}) /\ Len(gfxVI') = Len(gfxVI) - 1
        /\ Len(gfxVI') <= GfxVIs /\ Len(gfxVI) \in Nat \ {0} /\ left' = left - 1
    <2> DEFINE S == {"VI"}
    <2>1. gfxVI \in Seq(S) /\ gfxVI # <<>> /\ gfxVI' = Tail(gfxVI) /\ left' = left - 1
      BY DEF TypeOK, WaitForVI
    <2> HIDE DEF S
    <2>2. gfxVI' \in Seq(S) /\ Len(gfxVI') = Len(gfxVI) - 1 /\ Len(gfxVI) \in Nat \ {0}
      BY <2>1, TailAt
    <2> QED
      BY <1>2, <2>1, <2>2 DEF S, TypeOK
  <1>4. /\ frame' \in 1..6 /\ Newest' = Newest
        /\ (Last' - 1) % 3 = (Last - 1) % 3 /\ (Last' - 2) % 3 = (Last - 2) % 3
        /\ pc' \in {"controller", "vi"} /\ (pc' = "vi" => left # 1)
        /\ (pc' = "controller" => left = 1)
    <2>1. CASE left = 1
      BY <1>2, <2>1, NextFrameRotates DEF WaitForVI
    <2>2. CASE left # 1
      <3>1. Last' = Last /\ frame' = frame /\ pc' = pc
        BY <2>2 DEF WaitForVI, Last
      <3> QED
        BY <1>2, <2>2, <3>1 DEF Newest
    <2> QED
      BY <2>1, <2>2
  <1>5. /\ New' = New /\ HandedOver' = HandedOver /\ Kept' = Kept /\ Drawn' = Drawn
        /\ NoTask' = NoTask
    BY <1>2, <1>4 DEF New, HandedOver, Kept, Drawn, NoTask
  <1>6. TypeOK'
    BY <1>2, <1>3, <1>4 DEF TypeOK, WaitForVI, mainVars, rcpVars, viVars
  <1>7. StageInv' /\ FrameInv' /\ RoomInv' /\ QueueInv'
    BY <1>2, <1>3, <1>4, <1>5 DEF StageInv, FrameInv, RoomInv, QueueInv
  <1>8. RspInv' /\ RdpInv' /\ StateInv'
    BY <1>2, <1>4, <1>5 DEF RspInv, RdpInv, StateInv
  <1>9. CurrentInv'
    <2> SUFFICES ASSUME gCurrentTask \in Pools PROVE CurrentInv'
      BY <1>2 DEF CurrentInv
    <2>1. HandedOver => left > Len(gfxVI)
      BY <1>2 DEF CurrentInv
    <2>2. HandedOver => left # 1 /\ pc' = "vi" /\ left' > Len(gfxVI')
      BY <1>2, <1>3, <1>4, <2>1
    <2> QED
      BY <1>1, <1>2, <1>4, <1>5, <2>2 DEF CurrentInv, SpFirst
  <1>10. BufferInv'
    BY <1>2, <1>4, <1>5 DEF BufferInv
  <1> QED
    BY <1>6, <1>7, <1>8, <1>9, <1>10

LEMMA GraphicsStep == ASSUME Inv, Graphics PROVE Inv'
  BY ReadControllerStep, UpdateStep, SaveDoneStep, DrainStep, GiveBackStep,
     SetTaskStep, SwapBufferStep, CountVIsStep, WaitForVIStep DEF Graphics

-----------------------------------------------------------------------------
(* The main thread                                                         *)

\* What Main_StartNextTask may do.
LEMMA StartNext ==
  ASSUME TypeOK, NEW current \in Tasks \cup {None}, NEW audio \in {"audio", None},
         NEW gfx, gfx # <<>> => Head(gfx) \in Pools,
         NEW st \in [Pools -> States], StartNextTask(current, audio, gfx, st)
  PROVE  /\ gCurrentTask' \in Tasks \cup {None} /\ rsp' \in Tasks \cup {None}
         /\ state' \in [Pools -> States] /\ rdp' \in Pools \cup {None}
         /\ yield' \in BOOLEAN /\ yielded' \in BOOLEAN /\ synced' \in BOOLEAN
         /\ \/ /\ gCurrentTask' = current /\ rsp' = rsp /\ rdp' = rdp
               /\ \/ state' = st
                  \/ current \in Pools /\ state' = [st EXCEPT ![current] = "interrupted"]
            \/ /\ current = None /\ gCurrentTask' = "audio" /\ rsp' = "audio"
               /\ rdp' = rdp /\ state' = st
            \/ /\ current = None /\ gfx # <<>> /\ st[Head(gfx)] # "finished"
               /\ gCurrentTask' = Head(gfx) /\ rsp' = Head(gfx)
               /\ state' = [st EXCEPT ![Head(gfx)] = "running"]
               /\ st[Head(gfx)] = "interrupted" => rdp' = rdp
               /\ st[Head(gfx)] # "interrupted" => rdp' = Head(gfx)
  <1> USE Names
  <1>0. /\ rsp \in Tasks \cup {None} /\ rdp \in Pools \cup {None}
        /\ yield \in BOOLEAN /\ yielded \in BOOLEAN /\ synced \in BOOLEAN
    BY DEF TypeOK
  <1>s. {"interrupted", "running"} \subseteq States
    BY DEF States
  <1>1. CASE /\ Interrupts(current, audio)
             /\ gCurrentTask' = current /\ state' = [st EXCEPT ![current] = "interrupted"]
             /\ yield' = TRUE /\ UNCHANGED <<rsp, yielded, rdp, synced>>
    BY <1>0, <1>1, <1>s DEF Interrupts
  <1>2. CASE /\ StartsAudio(current, audio)
             /\ Start(audio) /\ state' = st
             /\ UNCHANGED <<rdp, synced>>
    BY <1>0, <1>2 DEF StartsAudio, Start
  <1>3. CASE /\ StartsGfx(current, audio, gfx, st)
             /\ Start(Head(gfx)) /\ state' = [st EXCEPT ![Head(gfx)] = "running"]
             /\ IF st[Head(gfx)] = "interrupted"
                THEN UNCHANGED <<rdp, synced>>
                ELSE rdp' = Head(gfx) /\ synced' = FALSE
    BY <1>0, <1>3, <1>s DEF StartsGfx, Start
  <1>4. CASE /\ gCurrentTask' = current /\ state' = st
             /\ UNCHANGED <<rsp, yield, yielded, rdp, synced>>
    BY <1>0, <1>4
  <1> QED
    BY <1>1, <1>2, <1>3, <1>4 DEF StartNextTask

\* When the message has left the scheduler's state in order, it stays so.
LEMMA Scheduled ==
  ASSUME TypeOK, NEW current \in Tasks \cup {None}, NEW audio \in {"audio", None},
         NEW st \in [Pools -> States], Newest' \in Pools,
         Kept' \/ sGfxTasks' = <<>>, Kept' => ~HandedOver',
         StartNextTask(current, audio, sGfxTasks', st),
         current # None <=> rsp # None \/ Queued(mainQ', "SP"),
         ~(rsp # None /\ Queued(mainQ', "SP")), rsp # None => rsp = current,
         rdp # None \/ Queued(mainQ', "DP") => Kept',
         ~(rdp # None /\ Queued(mainQ', "DP")), rdp # None => rdp = Newest',
         Kept' =>
           /\ frame' # 0
           /\ current = Newest' => st[Newest'] \in {"running", "interrupted"}
           /\ current # Newest' =>
                st[Newest'] \in {"not_started", "interrupted", "finished"}
           /\ st[Newest'] = "not_started" => rdp = None /\ ~Queued(mainQ', "DP"),
         current \in Pools => frame' # 0 /\ current = Newest' /\ ~HandedOver'
  PROVE  /\ gCurrentTask' \in Tasks \cup {None} /\ rsp' \in Tasks \cup {None}
         /\ state' \in [Pools -> States] /\ rdp' \in Pools \cup {None}
         /\ yield' \in BOOLEAN /\ yielded' \in BOOLEAN /\ synced' \in BOOLEAN
         /\ RspInv' /\ RdpInv' /\ StateInv' /\ CurrentInv'
  <1> USE Names
  <1>1. sGfxTasks' # <<>> => Kept' /\ Head(sGfxTasks') = Newest'
    BY DEF Kept
  <1>2. /\ gCurrentTask' \in Tasks \cup {None} /\ rsp' \in Tasks \cup {None}
        /\ state' \in [Pools -> States] /\ rdp' \in Pools \cup {None}
        /\ yield' \in BOOLEAN /\ yielded' \in BOOLEAN /\ synced' \in BOOLEAN
    BY <1>1, StartNext
  <1>3. \/ /\ gCurrentTask' = current /\ rsp' = rsp /\ rdp' = rdp
           /\ \/ state' = st
              \/ current \in Pools /\ state' = [st EXCEPT ![current] = "interrupted"]
        \/ /\ current = None /\ gCurrentTask' = "audio" /\ rsp' = "audio"
           /\ rdp' = rdp /\ state' = st
        \/ /\ current = None /\ Kept' /\ st[Newest'] # "finished"
           /\ gCurrentTask' = Newest' /\ rsp' = Newest'
           /\ state' = [st EXCEPT ![Newest'] = "running"]
           /\ st[Newest'] = "interrupted" => rdp' = rdp
           /\ st[Newest'] # "interrupted" => rdp' = Newest'
    BY <1>1, StartNext
  <1>4. CASE /\ gCurrentTask' = current /\ rsp' = rsp /\ rdp' = rdp /\ state' = st
    <2>1. RspInv' /\ RdpInv'
      BY <1>4 DEF RspInv, RdpInv
    <2>2. StateInv' /\ CurrentInv'
      BY <1>4 DEF StateInv, CurrentInv
    <2> QED
      BY <1>2, <2>1, <2>2
  <1>5. CASE /\ gCurrentTask' = current /\ rsp' = rsp /\ rdp' = rdp /\ current \in Pools
             /\ state' = [st EXCEPT ![current] = "interrupted"]
    <2>1. RspInv' /\ RdpInv' /\ CurrentInv'
      BY <1>5 DEF RspInv, RdpInv, CurrentInv
    <2>2. StateInv'
      BY <1>5 DEF StateInv
    <2> QED
      BY <1>2, <2>1, <2>2
  <1>6. CASE /\ current = None /\ gCurrentTask' = "audio" /\ rsp' = "audio"
             /\ rdp' = rdp /\ state' = st
    <2>1. RspInv' /\ RdpInv'
      BY <1>6 DEF RspInv, RdpInv
    <2>2. StateInv' /\ CurrentInv'
      BY <1>6 DEF StateInv, CurrentInv
    <2> QED
      BY <1>2, <2>1, <2>2
  <1>7. CASE /\ current = None /\ Kept' /\ st[Newest'] # "finished"
             /\ gCurrentTask' = Newest' /\ rsp' = Newest'
             /\ state' = [st EXCEPT ![Newest'] = "running"]
             /\ st[Newest'] = "interrupted" => rdp' = rdp
             /\ st[Newest'] # "interrupted" => rdp' = Newest'
    <2>1. state'[Newest'] = "running"
      BY <1>7
    <2>2. st[Newest'] \in {"not_started", "interrupted"}
      BY <1>7
    <2>3. RspInv' /\ CurrentInv'
      BY <1>7 DEF RspInv, CurrentInv
    <2>4. RdpInv'
      BY <1>7, <2>2 DEF RdpInv
    <2>5. StateInv'
      BY <1>7, <2>1 DEF StateInv
    <2> QED
      BY <1>2, <2>3, <2>4, <2>5
  <1> QED
    BY <1>2, <1>3, <1>4, <1>5, <1>6, <1>7

\* What Main_GetNewTasks finds: at most the newest frame's task.
LEMMA NewTasks ==
  ASSUME taskQ \in Seq(Tasks)
  PROVE  /\ New = {} => NewGfxTasks = <<>> /\ \A p \in Pools : ~Queued(taskQ, p)
         /\ HandedOver => NewGfxTasks = <<Newest>> /\ Queued(taskQ, Newest)
  <1>1. ASSUME New = {}
        PROVE  NewGfxTasks = <<>> /\ \A p \in Pools : ~Queued(taskQ, p)
    <2>1. {i \in DOMAIN taskQ : taskQ[i] \in Pools} = {}
      BY <1>1 DEF New
    <2>2. NewGfxTasks = <<>>
      BY <2>1 DEF NewGfxTasks
    <2> QED
      BY <2>1, <2>2 DEF Queued
  <1>2. ASSUME HandedOver PROVE NewGfxTasks = <<Newest>> /\ Queued(taskQ, Newest)
    <2>1. PICK i \in DOMAIN taskQ : New = {i} /\ taskQ[i] = Newest
      BY <1>2 DEF HandedOver
    <2>2. i \in Nat
      OBVIOUS
    <2>3. Earliest(New) = i /\ New \ {i} = {} /\ New # {}
      BY <2>1, <2>2, EarliestOfOne
    <2> QED
      BY <2>1, <2>3 DEF NewGfxTasks, New, Queued
  <1> QED
    BY <1>1, <1>2

\* They find room, as no task is kept then.
LEMMA KeptTasks ==
  ASSUME NEW p
  PROVE  /\ FirstTwo(<<>> \o <<>>) = <<>> /\ FirstTwo(<<>> \o <<p>>) = <<p>>
         /\ FirstTwo(<<p>> \o <<>>) = <<p>>
  <1>1. <<>> \o <<>> = <<>> /\ <<>> \o <<p>> = <<p>> /\ <<p>> \o <<>> = <<p>>
    OBVIOUS
  <1>2. FirstTwo(<<>>) = <<>>
    BY DEF FirstTwo, Min2
  <1>3. FirstTwo(<<p>>) = <<p>>
    <2>1. Len(<<p>>) = 1 /\ <<p>> \in Seq({p}) /\ Min2(2, 1) = 1
      BY DEF Min2
    <2>2. SubSeq(<<p>>, 1, 1) = <<p>>
      BY <2>1, SubSeqFull
    <2> QED
      BY <2>1, <2>2 DEF FirstTwo
  <1> QED
    BY <1>1, <1>2, <1>3

LEMMA VIFromHead ==
  ASSUME Inv, mainQ # <<>>, Head(mainQ) = "VI", HandedOver
  PROVE  gCurrentTask \notin Pools
  <1> SUFFICES ASSUME gCurrentTask \in Pools PROVE FALSE
    OBVIOUS
  <1>1. mainQ \in Seq(Events) /\ "VI" \in Events
    BY MainTypes DEF Inv, Events
  <1>2. Queued(mainQ, "VI") /\ mainQ[1] = "VI" /\ 1 \in DOMAIN mainQ
    BY <1>1, HeadQueued, TailAt
  <1>3. SpFirst /\ rsp = None /\ Queued(mainQ, "SP")
    BY <1>2, Names DEF Inv, CurrentInv, SpFirst, RspInv
  <1>4. PICK j \in DOMAIN mainQ : mainQ[j] = "SP"
    BY <1>3 DEF Queued
  <1>5. j < 1 /\ j \in 1..Len(mainQ)
    BY <1>1, <1>2, <1>3, <1>4 DEF SpFirst
  <1> QED
    BY <1>5

LEMMA HandleVIStep == ASSUME Inv, Main, HandleVI PROVE Inv'
  <1> USE DEF Inv
  <1> DEFINE st == [p \in Pools |-> IF Queued(taskQ, p) THEN "not_started" ELSE state[p]]
  <1>0. "VI" \in Events /\ "SP" \in Events /\ "DP" \in Events
    BY DEF Events
  <1>1. /\ mainQ' \in Seq(Events) /\ MainTypeOK' /\ Queued(mainQ, "VI")
        /\ \A x \in Events : AtMostOnce(mainQ', x)
        /\ \A x \in Events : Queued(mainQ', x) <=> Queued(mainQ, x) /\ x # "VI"
    BY MesgTaken DEF Main, HandleVI
  <1>2. /\ UNCHANGED <<gfxTask, pc, frame, left, stop, shown, next, serialQ, controller,
                       save, serial>>
        /\ taskQ' = <<>> /\ shown = next
    BY <1>1 DEF Main, HandleVI, gfxVars, viVars, QueueInv
  <1>3. /\ Last' = Last /\ Newest' = Newest /\ New' = {} /\ ~HandedOver'
    BY <1>2 DEF Last, Newest, New, HandedOver
  <1>4. /\ taskQ \in Seq(Tasks) /\ st \in [Pools -> States]
        /\ sAudioTask' \in {"audio", None} /\ gCurrentTask \in Tasks \cup {None}
    BY DEF TypeOK, HandleVI, States
  <1>5. /\ HandedOver \/ Kept => sGfxTasks' = <<Newest>> /\ Kept'
        /\ Drawn => sGfxTasks' = <<>> /\ Drawn'
        /\ NoTask => sGfxTasks' = <<>> /\ NoTask'
    <2>1. sGfxTasks' = FirstTwo(sGfxTasks \o NewGfxTasks)
      BY DEF HandleVI
    <2>2. HandedOver \/ Kept => sGfxTasks' = <<Newest>>
      BY <1>4, <2>1, NewTasks, KeptTasks DEF HandedOver, Kept
    <2>3. Drawn \/ NoTask => sGfxTasks' = <<>>
      BY <1>4, <2>1, NewTasks, KeptTasks DEF Drawn, NoTask
    <2> QED
      BY <1>2, <1>3, <2>2, <2>3 DEF HandedOver, Kept, Drawn, NoTask
  <1>6. StageInv' /\ FrameInv' /\ RoomInv' /\ QueueInv'
    <2>1. StageInv'
      BY <1>2, <1>5 DEF StageInv
    <2>2. FrameInv' /\ QueueInv'
      BY <1>1, <1>2 DEF FrameInv, QueueInv
    <2>3. RoomInv'
      BY <1>2 DEF RoomInv
    <2> QED
      BY <2>1, <2>2, <2>3
  <1>7. BufferInv'
    BY <1>2, <1>3 DEF BufferInv, Last
  <1>8. /\ Newest' \in Pools /\ (Kept' \/ sGfxTasks' = <<>>)
        /\ Kept' <=> HandedOver \/ Kept
        /\ Kept' => frame' # 0
    <2>1. Newest' \in Pools
      BY DEF Newest, Pool, Pools
    <2>2. HandedOver \/ Kept \/ Drawn \/ NoTask
      BY DEF StageInv
    <2>3. HandedOver \/ Kept => frame # 0
      BY StagesDiffer DEF StageInv
    <2>4. Drawn \/ NoTask => ~Kept'
      BY <1>5 DEF Kept
    <2> QED
      BY <1>2, <1>5, <2>1, <2>2, <2>3, <2>4
  <1>9. gCurrentTask \in Pools => ~HandedOver /\ gCurrentTask = Newest /\ frame # 0
    BY VIFromHead DEF CurrentInv, Main, HandleVI
  <1>10. HandedOver => st[Newest] = "not_started" /\ rdp = None /\ ~Queued(mainQ, "DP")
    BY <1>3, <1>4, <1>8, NewTasks, StagesDiffer DEF RdpInv
  <1>11. Kept => st[Newest] = state[Newest]
    BY <1>3, <1>4, <1>8, NewTasks DEF Kept
  <1>12. Kept' =>
           /\ gCurrentTask = Newest' => st[Newest'] \in {"running", "interrupted"}
           /\ gCurrentTask # Newest' =>
                st[Newest'] \in {"not_started", "interrupted", "finished"}
           /\ st[Newest'] = "not_started" => rdp = None /\ ~Queued(mainQ', "DP")
    <2>1. CASE HandedOver
      BY <1>0, <1>1, <1>3, <1>8, <1>9, <1>10, <2>1
    <2>2. CASE Kept
      BY <1>0, <1>1, <1>3, <1>11, <2>2 DEF StateInv
    <2> QED
      BY <1>8, <2>1, <2>2
  <1>13. /\ gCurrentTask # None <=> rsp # None \/ Queued(mainQ', "SP")
         /\ ~(rsp # None /\ Queued(mainQ', "SP")) /\ (rsp # None => rsp = gCurrentTask)
    BY <1>0, <1>1 DEF RspInv
  <1>14. /\ rdp # None \/ Queued(mainQ', "DP") => Kept'
         /\ ~(rdp # None /\ Queued(mainQ', "DP")) /\ (rdp # None => rdp = Newest')
    BY <1>0, <1>1, <1>3, <1>8 DEF RdpInv
  <1>15. StartNextTask(gCurrentTask, sAudioTask', sGfxTasks', st)
    BY DEF HandleVI
  <1>16. /\ gCurrentTask' \in Tasks \cup {None} /\ rsp' \in Tasks \cup {None}
         /\ state' \in [Pools -> States] /\ rdp' \in Pools \cup {None}
         /\ yield' \in BOOLEAN /\ yielded' \in BOOLEAN /\ synced' \in BOOLEAN
         /\ RspInv' /\ RdpInv' /\ StateInv' /\ CurrentInv'
    <2> HIDE DEF st
    <2> QED
      BY <1>2, <1>3, <1>4, <1>8, <1>9, <1>12, <1>13, <1>14, <1>15, Scheduled
  <1>17. /\ audioVI' \in {<<>>, <<"VI">>}
         /\ gfxVI' \in Seq({"VI"}) /\ Len(gfxVI') <= GfxVIs
         /\ taskQ' \in Seq(Tasks) /\ Len(taskQ') <= 16
         /\ sGfxTasks' \in Seq(Pools) /\ Len(sGfxTasks') <= 2
    <2>1. audioVI' \in {<<>>, <<"VI">>}
      BY PutOne DEF TypeOK, HandleVI
    <2>2. gfxVI' \in Seq({"VI"}) /\ Len(gfxVI') <= GfxVIs
      <3> DEFINE S == {"VI"}
      <3>1. gfxVI \in Seq(S) /\ Len(gfxVI) <= GfxVIs /\ GfxVIs \in Nat /\ "VI" \in S
        BY ThreadsAssumption DEF TypeOK
      <3>2. gfxVI' = Put(gfxVI, GfxVIs, "VI")
        BY DEF HandleVI
      <3> HIDE DEF S
      <3>3. gfxVI' \in Seq(S) /\ Len(gfxVI') <= GfxVIs
        BY <3>1, <3>2, PutTypes
      <3> QED
        BY <3>3 DEF S
    <2>3. sGfxTasks' \in Seq(Pools) /\ Len(sGfxTasks') <= 2
      <3>1. sGfxTasks' = <<>> \/ sGfxTasks' = <<Newest'>>
        BY <1>8 DEF Kept
      <3>2. <<Newest'>> \in Seq(Pools) /\ Len(<<Newest'>>) = 1
        BY <1>8, ShortSeqs
      <3>3. <<>> \in Seq(Pools) /\ Len(<<>>) = 0
        OBVIOUS
      <3>4. CASE sGfxTasks' = <<>>
        BY <3>3, <3>4
      <3>5. CASE sGfxTasks' = <<Newest'>>
        <4> DEFINE q == <<Newest'>>
        <4>1. sGfxTasks' = q /\ q \in Seq(Pools) /\ Len(q) = 1
          BY <3>2, <3>5
        <4> HIDE DEF q
        <4> QED
          BY <4>1
      <3> QED
        BY <3>1, <3>4, <3>5
    <2>4. taskQ' \in Seq(Tasks) /\ Len(taskQ') <= 16
      BY <1>2
    <2> QED
      BY <2>1, <2>2, <2>3, <2>4
  <1>18. TypeOK'
    <2> HIDE DEF st
    <2> QED
      BY <1>1, <1>2, <1>4, <1>16, <1>17 DEF TypeOK, MainTypeOK
  <1> QED
    BY <1>6, <1>7, <1>16, <1>18

LEMMA HandleSPStep == ASSUME Inv, Main, HandleSP PROVE Inv'
  <1> USE DEF Inv
  <1> DEFINE st == IF /\ gCurrentTask \in Pools
                      /\ ~(state[gCurrentTask] = "interrupted" /\ yielded)
                   THEN [state EXCEPT ![gCurrentTask] = "finished"] ELSE state
  <1>0. "VI" \in Events /\ "SP" \in Events /\ "DP" \in Events
    BY DEF Events
  <1>1. /\ mainQ' \in Seq(Events) /\ MainTypeOK' /\ Queued(mainQ, "SP")
        /\ \A x \in Events : AtMostOnce(mainQ', x)
        /\ \A x \in Events : Queued(mainQ', x) <=> Queued(mainQ, x) /\ x # "SP"
    BY MesgTaken DEF Main, HandleSP
  <1>2. /\ UNCHANGED <<gfxTask, taskQ, sGfxTasks, pc, frame, left, stop, shown, next,
                       serialQ, controller, save, serial, audioVI, gfxVI>>
        /\ gCurrentTask # None /\ rsp = None
    BY <1>1 DEF Main, HandleSP, gfxVars, viVars, RspInv
  <1>3. st \in [Pools -> States] /\ sAudioTask' \in {"audio", None}
    BY DEF TypeOK, HandleSP, States
  <1>4. StageInv' /\ FrameInv' /\ RoomInv' /\ QueueInv' /\ BufferInv'
    <2>1. StageInv' /\ FrameInv' /\ RoomInv' /\ BufferInv'
      BY <1>2, SameStage DEF StageInv, FrameInv, RoomInv, BufferInv
    <2>2. QueueInv'
      BY <1>0, <1>1, <1>2 DEF QueueInv
    <2> QED
      BY <2>1, <2>2
  <1>5. /\ Newest' = Newest /\ Newest' \in Pools /\ Kept' = Kept
        /\ HandedOver' = HandedOver /\ (Kept' \/ sGfxTasks' = <<>>)
        /\ Kept' => frame' # 0 /\ ~HandedOver'
    <2>1. Newest \in Pools
      BY DEF Newest, Pool, Pools
    <2>2. Kept \/ sGfxTasks = <<>>
      BY DEF StageInv, Drawn, HandedOver, NoTask
    <2>3. Kept => frame # 0 /\ ~HandedOver
      BY StagesDiffer DEF StageInv
    <2> QED
      BY <1>2, <2>1, <2>2, <2>3, SameStage
  <1>6. Kept' =>
          /\ st[Newest'] \in {"not_started", "interrupted", "finished"}
          /\ st[Newest'] = "not_started" => rdp = None /\ ~Queued(mainQ', "DP")
    <2> SUFFICES ASSUME Kept
                 PROVE  /\ st[Newest] \in {"not_started", "interrupted", "finished"}
                        /\ st[Newest] = "not_started" =>
                             rdp = None /\ ~Queued(mainQ, "DP")
      BY <1>0, <1>1, <1>5
    <2>1. state \in [Pools -> States] /\ Newest \in Pools
      BY <1>5 DEF TypeOK
    <2>2. CASE gCurrentTask = Newest
      <3>1. st[Newest] \in {"interrupted", "finished"}
        BY <2>1, <2>2 DEF StateInv
      <3> QED
        BY <3>1
    <2>3. CASE gCurrentTask # Newest
      <3>1. st[Newest] = state[Newest]
        BY <2>1, <2>3
      <3> QED
        BY <2>3, <3>1 DEF StateInv
    <2> QED
      BY <2>2, <2>3
  <1>7. ~Queued(mainQ', "SP")
    BY <1>0, <1>1
  <1>8. /\ rdp # None \/ Queued(mainQ', "DP") => Kept'
        /\ ~(rdp # None /\ Queued(mainQ', "DP")) /\ (rdp # None => rdp = Newest')
    BY <1>0, <1>1, <1>5 DEF RdpInv
  <1>9. StartNextTask(None, sAudioTask', sGfxTasks', st)
    BY <1>2 DEF HandleSP
  <1>10. /\ gCurrentTask' \in Tasks \cup {None} /\ rsp' \in Tasks \cup {None}
         /\ state' \in [Pools -> States] /\ rdp' \in Pools \cup {None}
         /\ yield' \in BOOLEAN /\ yielded' \in BOOLEAN /\ synced' \in BOOLEAN
         /\ RspInv' /\ RdpInv' /\ StateInv' /\ CurrentInv'
    <2>1. None \in Tasks \cup {None} /\ None \notin Pools /\ Newest' # None
      BY <1>5, Names
    <2> HIDE DEF st
    <2> QED
      BY <1>2, <1>3, <1>5, <1>6, <1>7, <1>8, <1>9, <2>1, Scheduled
  <1>11. TypeOK'
    <2> HIDE DEF st
    <2> QED
      BY <1>1, <1>2, <1>3, <1>10 DEF TypeOK, MainTypeOK
  <1> QED
    BY <1>4, <1>10, <1>11

LEMMA HandleDPStep == ASSUME Inv, Main, HandleDP PROVE Inv'
  <1> USE DEF Inv
  <1> DEFINE st == [state EXCEPT ![Head(sGfxTasks)] = "finished_dp"]
  <1>0. "VI" \in Events /\ "SP" \in Events /\ "DP" \in Events
    BY DEF Events
  <1>1. /\ mainQ' \in Seq(Events) /\ MainTypeOK' /\ Queued(mainQ, "DP")
        /\ \A x \in Events : AtMostOnce(mainQ', x)
        /\ \A x \in Events : Queued(mainQ', x) <=> Queued(mainQ, x) /\ x # "DP"
    BY MesgTaken DEF Main, HandleDP
  <1>2. /\ UNCHANGED <<taskQ, pc, frame, left, stop, shown, next, sAudioTask,
                       serialQ, controller, save, serial, audioVI, gfxVI>>
        /\ Kept /\ rdp = None /\ ~HandedOver
    BY <1>1, StagesDiffer DEF Main, HandleDP, gfxVars, viVars, RdpInv
  <1>3. frame # 0 /\ pc # "drained" /\ Newest \in Pools
    BY <1>2, StagesDiffer DEF StageInv, Newest, Pool, Pools
  <1>4. st \in [Pools -> States]
    BY DEF TypeOK, States
  <1>5. gfxTask' = <<"task">> /\ sGfxTasks' = <<>>
    <2>1. Len(gfxTask) = 0 /\ Append(gfxTask, "task") = <<"task">>
      BY <1>2 DEF Kept
    <2>2. Tail(sGfxTasks) = <<>>
      BY <1>2 DEF Kept
    <2> QED
      BY <2>1, <2>2 DEF HandleDP, Put
  <1>6. Last' = Last /\ Newest' = Newest /\ New' = New /\ Drawn' /\ ~Kept' /\ ~HandedOver'
    <2>1. Last' = Last /\ New' = New
      BY <1>2 DEF Last, New
    <2>2. Newest' = Newest
      BY <2>1 DEF Newest
    <2>3. Drawn'
      BY <1>2, <1>5, <2>1 DEF Drawn, Kept
    <2> QED
      BY <2>1, <2>2, <2>3 DEF Drawn, Kept, HandedOver
  <1>7. StageInv' /\ FrameInv' /\ RoomInv' /\ QueueInv' /\ BufferInv'
    <2>1. StageInv' /\ FrameInv' /\ RoomInv' /\ BufferInv'
      BY <1>2, <1>3, <1>6 DEF StageInv, FrameInv, RoomInv, BufferInv
    <2>2. QueueInv'
      BY <1>0, <1>1, <1>2 DEF QueueInv
    <2> QED
      BY <2>1, <2>2
  <1>8. /\ gCurrentTask # None <=> rsp # None \/ Queued(mainQ', "SP")
        /\ ~(rsp # None /\ Queued(mainQ', "SP")) /\ (rsp # None => rsp = gCurrentTask)
        /\ ~Queued(mainQ', "DP")
    BY <1>0, <1>1 DEF RspInv
  <1>9. gCurrentTask \in Pools => gCurrentTask = Newest
    BY <1>2 DEF CurrentInv
  <1>10. StartNextTask(gCurrentTask, sAudioTask, sGfxTasks', st)
    BY DEF HandleDP
  <1>11. gCurrentTask \in Tasks \cup {None} /\ sAudioTask \in {"audio", None}
    BY DEF TypeOK
  <1>12. /\ gCurrentTask' \in Tasks \cup {None} /\ rsp' \in Tasks \cup {None}
         /\ state' \in [Pools -> States] /\ rdp' \in Pools \cup {None}
         /\ yield' \in BOOLEAN /\ yielded' \in BOOLEAN /\ synced' \in BOOLEAN
         /\ RspInv' /\ RdpInv' /\ StateInv' /\ CurrentInv'
    <2> HIDE DEF st
    <2> QED
      BY <1>2, <1>3, <1>4, <1>5, <1>6, <1>8, <1>9, <1>10, <1>11, Scheduled
  <1>13. TypeOK'
    <2>1. /\ gfxTask' \in Seq({"task"}) /\ Len(gfxTask') <= 2
          /\ sGfxTasks' \in Seq(Pools) /\ Len(sGfxTasks') <= 2
      BY <1>5
    <2> HIDE DEF st
    <2> QED
      BY <1>1, <1>2, <1>12, <2>1 DEF TypeOK, MainTypeOK
  <1> QED
    BY <1>7, <1>12, <1>13

-----------------------------------------------------------------------------
(* The theorems                                                            *)

LEMMA InitInv == Init => Inv
  <1> SUFFICES ASSUME Init PROVE Inv
    OBVIOUS
  <1> USE DEF Init
  <1>1. New = {}
    BY DEF New
  <1>2. TypeOK
    <2>1. /\ frame \in 0..6 /\ left \in 0..GfxVIs + 4
          /\ state \in [Pools -> States]
      BY ThreadsAssumption DEF States
    <2>2. serialQ \in Seq({"READ", "RUMBLE", "SAVE"}) /\ Len(serialQ) <= 8
      BY ShortSeqs
    <2>3. gfxVI \in Seq({"VI"}) /\ Len(gfxVI) <= GfxVIs
      BY ThreadsAssumption
    <2>4. /\ mainQ \in Seq({"VI", "SP", "DP"}) /\ Len(mainQ) <= 32
          /\ taskQ \in Seq(Tasks) /\ Len(taskQ) <= 16
          /\ gfxTask \in Seq({"task"}) /\ Len(gfxTask) <= 2
          /\ sGfxTasks \in Seq(Pools) /\ Len(sGfxTasks) <= 2
      OBVIOUS
    <2>5. stop \in BOOLEAN /\ yield \in BOOLEAN /\ yielded \in BOOLEAN /\ synced \in BOOLEAN
      OBVIOUS
    <2> QED
      BY <2>1, <2>2, <2>3, <2>4, <2>5 DEF TypeOK
  <1>3. StageInv /\ FrameInv /\ ~HandedOver /\ ~Kept
    BY <1>1 DEF StageInv, FrameInv, NoTask, HandedOver, Kept
  <1>4. RoomInv
    BY <1>3 DEF RoomInv
  <1>5. \A m : ~Queued(mainQ, m) /\ AtMostOnce(mainQ, m)
    BY DEF Queued, AtMostOnce
  <1>6. QueueInv /\ RspInv /\ RdpInv /\ StateInv /\ CurrentInv
    BY <1>3, <1>5, Names DEF QueueInv, RspInv, RdpInv, StateInv, CurrentInv
  <1>7. BufferInv
    BY DEF BufferInv
  <1> QED
    BY <1>2, <1>3, <1>4, <1>6, <1>7 DEF Inv

LEMMA StutterInv == ASSUME Inv, UNCHANGED vars PROVE Inv'
  BY SameStage
     DEF Inv, vars, queues, mainVars, gfxVars, rcpVars, viVars, TypeOK, StageInv,
         FrameInv, RoomInv, QueueInv, RspInv, RdpInv, StateInv, CurrentInv, SpFirst,
         BufferInv

LEMMA NextInv == ASSUME Inv, [Next]_vars PROVE Inv'
  <1>1. CASE Main
    BY <1>1, HandleVIStep, HandleSPStep, HandleDPStep DEF Main
  <1>2. CASE Next /\ ~Main
    BY <1>2, VIStep, RspSteps, RdpStep, AudioStep, GraphicsStep, SerialStep DEF Next
  <1>3. CASE UNCHANGED vars
    BY <1>3, StutterInv
  <1> QED
    BY <1>1, <1>2, <1>3

\* The invariant is inductive, and so holds of every reachable state.
THEOREM Invariant == Spec => []Inv
  BY InitInv, NextInv, PTL DEF Spec

\* Every variable keeps its type, and no queue grows past its size, whatever the
\* size of gGfxVImesgQueue and gVIsPerFrame.
THEOREM TypesHold == Spec => []TypeOK
  <1>1. Inv => TypeOK
    BY DEF Inv
  <1> QED
    BY <1>1, Invariant, PTL

LEMMA PoolFree == Inv => PoolNotReused
  <1> SUFFICES ASSUME Inv, pc \in {"update", "save", "drain", "drained", "task"}
               PROVE  ~Outstanding(Pool(frame))
    BY DEF PoolNotReused
  <1> USE DEF Inv
  <1>1. Pool(frame) \in Pools /\ Pool(frame) # None
    BY Names DEF Pool, Pools
  <1>2. CASE frame = 0
    <2>1. NoTask /\ gCurrentTask \notin Pools /\ rdp = None
      BY <1>2, StagesDiffer DEF StageInv, CurrentInv, RdpInv
    <2>2. ~Queued(taskQ, Pool(frame)) /\ ~Queued(sGfxTasks, Pool(frame))
      BY <1>1, <2>1, EmptyQueued DEF NoTask, New, Queued
    <2> QED
      BY <1>1, <2>1, <2>2 DEF Outstanding, RspInv
  <1>3. CASE frame # 0
    <2>1. Newest = Pool(frame - 1) /\ Newest # Pool(frame)
      BY <1>3, PoolAlternates DEF Newest, Last, TypeOK
    <2>2. gCurrentTask # Pool(frame)
      BY <1>1, <2>1 DEF CurrentInv
    <2>3. ~Queued(taskQ, Pool(frame))
      <3> SUFFICES ASSUME NEW i \in DOMAIN taskQ, taskQ[i] = Pool(frame) PROVE FALSE
        BY DEF Queued
      <3>1. i \in New
        BY <1>1 DEF New
      <3>2. HandedOver
        BY <3>1 DEF StageInv, NoTask, Drawn, Kept
      <3> QED
        BY <2>1, <3>1, <3>2 DEF HandedOver
    <2>4. ~Queued(sGfxTasks, Pool(frame))
      <3>1. sGfxTasks = <<>> \/ sGfxTasks = <<Newest>>
        BY DEF StageInv, NoTask, Drawn, HandedOver, Kept
      <3> QED
        BY <2>1, <3>1 DEF Queued
    <2>5. rdp # Pool(frame) /\ rsp # Pool(frame)
      BY <1>1, <2>1, <2>2 DEF RdpInv, RspInv
    <2> QED
      BY <2>2, <2>3, <2>4, <2>5 DEF Outstanding
  <1> QED
    BY <1>2, <1>3

\* Graphics_InitializeTask and Game_Update never write the display lists of a pool
\* that the scheduler, the RSP or the RDP still has.
THEOREM PoolNotReusedHolds == Spec => []PoolNotReused
  BY Invariant, PoolFree, PTL

LEMMA BufferFree == Inv => BufferNotShown
  <1> SUFFICES ASSUME Inv, rdp # None PROVE FrameBufferOf(rdp) \notin {shown, next}
    BY DEF BufferNotShown
  <1> USE DEF Inv
  <1>1. Kept /\ rdp = Newest /\ ~HandedOver /\ frame \in 1..6
    BY StagesDiffer DEF RdpInv, StageInv, TypeOK
  <1>2. FrameBufferOf(rdp) = Last % 3 /\ Last \in 0..6
    BY <1>1, PoolAlternates DEF FrameBufferOf, Newest, Last
  <1>3. /\ shown \in {FillBuffer, (Last - 1) % 3, (Last - 2) % 3}
        /\ next \in {FillBuffer, (Last - 1) % 3, (Last - 2) % 3}
    BY <1>1 DEF BufferInv, Last
  <1>4. /\ Last % 3 \in Buffers /\ Last % 3 # (Last - 1) % 3
        /\ Last % 3 # (Last - 2) % 3 /\ FillBuffer \notin Buffers
    BY <1>2, BuffersRotate, Names
  <1> QED
    BY <1>2, <1>3, <1>4

\* The RDP draws into a buffer that neither is on the screen nor is the next.
THEOREM BufferNotShownHolds == Spec => []BufferNotShown
  BY Invariant, BufferFree, PTL

LEMMA TasksFound == Inv => InterruptsFindTask
  <1> SUFFICES ASSUME Inv PROVE InterruptsFindTask
    OBVIOUS
  <1> USE DEF Inv
  <1>1. /\ Count(mainQ, "SP") = IF Queued(mainQ, "SP") THEN 1 ELSE 0
        /\ Count(mainQ, "DP") = IF Queued(mainQ, "DP") THEN 1 ELSE 0
    BY CountOnce DEF QueueInv, Events
  <1>2. Count(mainQ, "SP") + (IF rsp # None THEN 1 ELSE 0)
          = (IF gCurrentTask # None THEN 1 ELSE 0)
    BY <1>1 DEF RspInv
  <1>3. Kept => Len(sGfxTasks) = 1 /\ Head(sGfxTasks) = Newest
    BY DEF Kept
  <1>4. Len(sGfxTasks) \in Nat
    BY DEF TypeOK
  <1>5. Count(mainQ, "DP") + (IF rdp # None THEN 1 ELSE 0) <= Len(sGfxTasks)
    BY <1>1, <1>3, <1>4 DEF RdpInv
  <1> QED
    BY <1>2, <1>3, <1>5 DEF InterruptsFindTask, RspInv, RdpInv

\* Main_HandleRSP and Main_HandleRDP never read through a NULL task.
THEOREM InterruptsFindTaskHolds == Spec => []InterruptsFindTask
  BY Invariant, TasksFound, PTL

\* How many graphics tasks wait to be taken.
LEMMA OwedTasks ==
  ASSUME TypeOK, NEW p \in Pools
  PROVE  /\ New = {} => Count(taskQ, p) = 0
         /\ HandedOver => Count(taskQ, p) = IF p = Newest THEN 1 ELSE 0
         /\ sGfxTasks = <<>> => Count(sGfxTasks, p) = 0
         /\ sGfxTasks = <<Newest>> => Count(sGfxTasks, p) = IF p = Newest THEN 1 ELSE 0
  <1>1. ASSUME New = {} PROVE Count(taskQ, p) = 0
    BY <1>1, CountOnce DEF New, AtMostOnce, Queued
  <1>2. ASSUME HandedOver PROVE Count(taskQ, p) = IF p = Newest THEN 1 ELSE 0
    BY <1>2, CountOnce DEF HandedOver, New, AtMostOnce, Queued
  <1>3. ASSUME sGfxTasks = <<>> PROVE Count(sGfxTasks, p) = 0
    BY <1>3, CountOnce DEF AtMostOnce, Queued
  <1>4. ASSUME sGfxTasks = <<Newest>>
        PROVE  Count(sGfxTasks, p) = IF p = Newest THEN 1 ELSE 0
    BY <1>4, CountOnce DEF AtMostOnce, Queued
  <1> QED
    BY <1>1, <1>2, <1>3, <1>4

LEMMA OneMessage == Inv => OneGfxMessage
  <1> SUFFICES ASSUME Inv PROVE OneGfxMessage
    OBVIOUS
  <1> USE DEF Inv
  <1>1. "gfx0" \in Pools /\ "gfx1" \in Pools /\ "gfx0" # "gfx1" /\ TypeOK
    BY DEF Pools
  <1>2. Newest = "gfx0" \/ Newest = "gfx1"
    BY DEF Newest, Pool
  <1>3. CASE NoTask
    <2>1. Len(gfxTask) = 0 /\ Owed("gfx0") = 0 /\ Owed("gfx1") = 0
      BY <1>1, <1>3, OwedTasks DEF NoTask, Owed
    <2>2. pc = "drained" \/ frame = 0
      BY <1>3, StagesDiffer DEF StageInv, NoTask, Drawn
    <2> QED
      BY <2>1, <2>2 DEF OneGfxMessage
  <1>4. CASE ~NoTask
    <2>1. ~(pc = "drained" \/ frame = 0) /\ (Drawn \/ HandedOver \/ Kept)
      BY <1>4 DEF StageInv
    <2>2. CASE Drawn
      <3>1. Len(gfxTask) = 1 /\ Owed("gfx0") = 0 /\ Owed("gfx1") = 0
        BY <1>1, <2>2, OwedTasks DEF Drawn, Owed
      <3> QED
        BY <2>1, <3>1 DEF OneGfxMessage
    <2>3. CASE HandedOver
      <3>1. /\ Len(gfxTask) = 0
            /\ Owed("gfx0") = IF Newest = "gfx0" THEN 1 ELSE 0
            /\ Owed("gfx1") = IF Newest = "gfx1" THEN 1 ELSE 0
        BY <1>1, <1>2, <2>3, OwedTasks DEF HandedOver, Owed
      <3> QED
        BY <1>1, <1>2, <2>1, <3>1 DEF OneGfxMessage
    <2>4. CASE Kept
      <3>1. /\ Len(gfxTask) = 0
            /\ Owed("gfx0") = IF Newest = "gfx0" THEN 1 ELSE 0
            /\ Owed("gfx1") = IF Newest = "gfx1" THEN 1 ELSE 0
        BY <1>1, <1>2, <2>4, OwedTasks DEF Kept, Owed
      <3> QED
        BY <1>1, <1>2, <2>1, <3>1 DEF OneGfxMessage
    <2> QED
      BY <2>1, <2>2, <2>3, <2>4
  <1> QED
    BY <1>3, <1>4

\* One message per frame: the wait of Snapshot_ApplyToGame, which takes it and puts
\* it back, neither loses it nor lets the next frame start early.
THEOREM OneGfxMessageHolds == Spec => []OneGfxMessage
  BY Invariant, OneMessage, PTL

LEMMA DrainedIdle == Inv => DrainedMeansIdle
  <1> SUFFICES ASSUME Inv, pc = "drained"
               PROVE  rdp = None /\ \A p \in Pools : ~Queued(taskQ, p)
    BY DEF DrainedMeansIdle
  <1>1. NoTask /\ rdp = None
    BY StagesDiffer DEF Inv, StageInv, RdpInv
  <1> QED
    BY <1>1 DEF NoTask, New, Queued

\* A practice state is only ever loaded while nothing is drawn.
THEOREM DrainedMeansIdleHolds == Spec => []DrainedMeansIdle
  BY Invariant, DrainedIdle, PTL

\* What is ever queued for the main thread.
QueuesHaveRoom == Len(mainQ) <= 3 /\ Len(taskQ) <= 2

LEMMA QueuesShort == Inv => QueuesHaveRoom
  <1> SUFFICES ASSUME Inv PROVE QueuesHaveRoom
    OBVIOUS
  <1>1. Len(mainQ) <= 3
    <2>1. mainQ \in Seq(Events) /\ \A m \in Events : AtMostOnce(mainQ, m)
      BY MainTypes DEF Inv, QueueInv
    <2> HIDE DEF Events
    <2> QED
      BY <2>1, MainQueueShort
  <1>2. Len(taskQ) <= 2
    BY DEF Inv, RoomInv, TypeOK
  <1> QED
    BY <1>1, <1>2 DEF QueuesHaveRoom

\* osSendMesg drops a message that finds its queue full, and no sender looks: no
\* interrupt and no task is ever lost that way.
THEOREM QueuesHaveRoomHolds == Spec => []QueuesHaveRoom
  BY Invariant, QueuesShort, PTL

-----------------------------------------------------------------------------
(* The refinement of TripleBuffer                                          *)

\* A frame is swapped in only when the one before it is on the screen: it waits
\* for more VIs than are queued, and the next one shows it.
ShownInv ==
  /\ pc \notin {"count", "vi"} => next = shown
  /\ pc = "vi" /\ next # shown => left > Len(gfxVI)
  /\ next = FillBuffer => frame \in 0..1 /\ pc \notin {"count", "vi"}

LEMMA GraphicsShown == ASSUME Inv, ShownInv, Graphics PROVE ShownInv'
  <1> USE DEF Inv
  <1>1. CASE ReadController \/ Update \/ SaveDone \/ Drain \/ GiveBack
    <2>1. /\ UNCHANGED <<frame, next, shown>>
          /\ pc \notin {"count", "vi"} /\ pc' \notin {"count", "vi"}
      BY <1>1 DEF ReadController, Update, SaveDone, Drain, GiveBack, viVars
    <2> QED
      BY <2>1 DEF ShownInv
  <1>2. CASE SetTask
    <2>1. /\ UNCHANGED <<next, shown>> /\ pc = "task" /\ pc' \in {"controller", "swap"}
          /\ frame' = frame \/ frame' = 1
      BY <1>2 DEF SetTask, NextFrame, viVars
    <2> QED
      BY <2>1 DEF ShownInv
  <1>3. CASE SwapBuffer
    <2>1. pc' = "count" /\ next' \in Buffers
      BY <1>3, BuffersRotate DEF SwapBuffer, TypeOK
    <2> QED
      BY <2>1, Names DEF ShownInv
  <1>4. CASE CountVIs
    <2>1. /\ pc = "count" /\ pc' = "vi" /\ UNCHANGED <<frame, next, shown, gfxVI>>
          /\ left' > Len(gfxVI)
      BY <1>4, ValidVIsBounds DEF CountVIs, queues, viVars
    <2> QED
      BY <2>1 DEF ShownInv
  <1>5. CASE WaitForVI
    <2>1. /\ pc = "vi" /\ UNCHANGED <<next, shown>> /\ next # FillBuffer
          /\ left \in Nat /\ left' = left - 1
          /\ left = 1 => pc' = "controller"
      BY <1>5, ThreadsAssumption
         DEF WaitForVI, NextFrame, viVars, ShownInv, TypeOK
    <2>2. Len(gfxVI) \in Nat \ {0} /\ Len(gfxVI') = Len(gfxVI) - 1
      <3> DEFINE S == {"VI"}
      <3>1. gfxVI \in Seq(S) /\ gfxVI # <<>> /\ gfxVI' = Tail(gfxVI)
        BY <1>5 DEF TypeOK, WaitForVI
      <3> HIDE DEF S
      <3> QED
        BY <3>1, TailAt
    <2>3. next # shown => left > Len(gfxVI) /\ left # 1
      BY <2>1, <2>2 DEF ShownInv
    <2>4. left # 1 => pc' = "vi"
      BY <1>5, <2>1 DEF WaitForVI
    <2>5. next # shown => pc' = "vi" /\ left' > Len(gfxVI')
      BY <2>1, <2>2, <2>3, <2>4
    <2> QED
      BY <2>1, <2>5 DEF ShownInv
  <1> QED
    BY <1>1, <1>2, <1>3, <1>4, <1>5 DEF Graphics

LEMMA NextShown == ASSUME Inv, ShownInv, [Next]_vars PROVE ShownInv'
  <1>1. CASE VI
    BY <1>1 DEF VI, gfxVars, ShownInv
  <1>2. CASE RspAudio \/ RspGfx \/ RspYields \/ RdpDone \/ Audio \/ Serial
             \/ UNCHANGED vars
    <2>1. UNCHANGED <<pc, frame, left, gfxVI, next, shown>>
      BY <1>2 DEF RspAudio, RspGfx, RspYields, RspBreak, RdpDone, Audio, Serial,
                  SerialTake, SerialFinish, vars, queues, gfxVars, viVars
    <2> QED
      BY <2>1 DEF ShownInv
  <1>3. CASE Main
    <2>1. UNCHANGED <<pc, frame, left, next, shown>>
      BY <1>3 DEF Main, gfxVars, viVars
    <2>2. CASE HandleVI
      <3>1. next = shown
        BY <1>3, <2>2, MesgTaken DEF Main, HandleVI, Inv, QueueInv
      <3> QED
        BY <2>1, <3>1 DEF ShownInv
    <2>3. CASE HandleSP \/ HandleDP
      <3>1. gfxVI' = gfxVI
        BY <2>3 DEF HandleSP, HandleDP
      <3> QED
        BY <2>1, <3>1 DEF ShownInv
    <2> QED
      BY <1>3, <2>2, <2>3 DEF Main
  <1>4. CASE Graphics
    BY <1>4, GraphicsShown
  <1> QED
    BY <1>1, <1>2, <1>3, <1>4 DEF Next

\* The frame handed over last owes its message to the graphics thread.
Owing == gfxTask = <<>> /\ pc # "drained" /\ frame # 0 /\ ~Queued(mainQ, "DP")

\* What the RDP draws into, and what it has finished.
LEMMA DrawnBuffer == Inv => (rdp # None => FrameBufferOf(rdp) = Last % 3 /\ Owing)
  <1> SUFFICES ASSUME Inv, rdp # None PROVE FrameBufferOf(rdp) = Last % 3 /\ Owing
    OBVIOUS
  <1>1. Kept /\ rdp = Newest /\ ~Queued(mainQ, "DP")
    BY DEF Inv, RdpInv
  <1>2. gfxTask = <<>> /\ pc # "drained" /\ frame \in 1..6
    BY <1>1, StagesDiffer DEF Inv, StageInv, TypeOK, Kept
  <1>3. FrameBufferOf(rdp) = Last % 3
    BY <1>1, <1>2, PoolAlternates DEF FrameBufferOf, Newest, Last
  <1> QED
    BY <1>1, <1>2, <1>3 DEF Owing

LEMMA UndrawnStages == Inv => (Undrawn <=> Owing)
  <1> SUFFICES ASSUME Inv PROVE Undrawn <=> Owing
    OBVIOUS
  <1> DEFINE Task == \E p \in Pools : Queued(taskQ, p) \/ Queued(sGfxTasks, p)
  <1>1. Newest \in Pools
    BY DEF Newest, Pool, Pools
  <1>2. HandedOver \/ Kept => Task
    BY <1>1 DEF HandedOver, Kept, Queued
  <1>3. Drawn \/ NoTask => ~Task
    <2> SUFFICES ASSUME New = {}, sGfxTasks = <<>> PROVE ~Task
      BY DEF Drawn, NoTask
    <2>1. \A p \in Pools : ~Queued(taskQ, p)
      BY DEF New, Queued
    <2> QED
      BY <2>1, EmptyQueued
  <1>4. Task <=> gfxTask = <<>> /\ pc # "drained" /\ frame # 0
    <2>1. CASE pc = "drained" \/ frame = 0
      BY <1>3, <2>1 DEF Inv, StageInv
    <2>2. CASE ~(pc = "drained" \/ frame = 0)
      <3>1. CASE Drawn
        BY <1>3, <2>2, <3>1 DEF Drawn
      <3>2. CASE HandedOver \/ Kept
        BY <1>2, <2>2, <3>2 DEF HandedOver, Kept
      <3> QED
        BY <2>2, <3>1, <3>2 DEF Inv, StageInv
    <2> QED
      BY <2>1, <2>2
  <1> QED
    BY <1>4 DEF Undrawn, Owing

LEMMA UndrawnNext ==
  ASSUME Inv, Inv' PROVE (Undrawn <=> Owing) /\ (Undrawn' <=> Owing')
  <1>1. (Undrawn <=> Owing)'
    BY UndrawnStages, PTL
  <1> QED
    BY <1>1, UndrawnStages

LEMMA DrawnNext ==
  ASSUME Inv'
  PROVE  rdp' # None => FrameBufferOf(rdp)' = Last' % 3 /\ Owing'
  <1>1. (rdp # None => FrameBufferOf(rdp) = Last % 3 /\ Owing)'
    BY DrawnBuffer, PTL
  <1> QED
    BY <1>1

\* The buffer of frame f.
Of(f) == IF f < 0 /\ next = FillBuffer THEN FillBuffer ELSE f % 3

LEMMA DoneIs ==
  /\ Undrawn => Done = Of(Last - 1)
  /\ ~Undrawn => Done = Of(Last)
  BY DEF Done, Of

LEMMA InTurn ==
  \A n \in 0..6 : /\ (((n - 1) % 3) + 1) % 3 = n % 3
                  /\ (((n - 2) % 3) + 1) % 3 = (n - 1) % 3
  <1>1. \A n \in 0..6 : (((n - 1) % 3) + 1) % 3 = n % 3
    OBVIOUS
  <1>2. \A n \in 0..6 : (((n - 2) % 3) + 1) % 3 = (n - 1) % 3
    OBVIOUS
  <1> QED
    BY <1>1, <1>2

LEMMA FollowingDrawn ==
  ASSUME Inv, ShownInv, frame # 0
  PROVE  /\ Display!Following(Of(Last - 1)) = Last % 3
         /\ Of(Last) = Last % 3 /\ Last \in 0..6
  <1>1. Last \in 0..6
    BY FrameTypes DEF Inv
  <1>2. CASE Last - 1 < 0 /\ next = FillBuffer
    <2>1. Last = 0 /\ Last % 3 = 0
      BY <1>1, <1>2
    <2> QED
      BY <1>1, <1>2, <2>1 DEF Of, Display!Following
  <1>3. CASE ~(Last - 1 < 0 /\ next = FillBuffer)
    <2>1. Of(Last - 1) = (Last - 1) % 3 /\ (Last - 1) % 3 # FillBuffer
      BY <1>1, <1>3, BuffersRotate, Names DEF Of
    <2> QED
      BY <1>1, <2>1, InTurn DEF Of, Display!Following
  <1> QED
    BY <1>2, <1>3

\* Steps that draw and show nothing new.
LEMMA SameDisplay ==
  ASSUME Inv, Inv', Last' = Last, rdp' = None <=> rdp = None, next' = next,
         shown' = shown, Undrawn' <=> Undrawn
  PROVE  UNCHANGED Display!vars
  <1>1. Done' = Done
    BY DEF Done
  <1>2. rdp # None => FrameBufferOf(rdp) = Last % 3
    BY DrawnBuffer
  <1>3. rdp' # None => FrameBufferOf(rdp)' = Last' % 3
    BY DrawnNext
  <1> QED
    BY <1>1, <1>2, <1>3 DEF Display!vars

LEMMA InitDisplay == Init => Display!Init /\ ShownInv
  <1> SUFFICES ASSUME Init PROVE Display!Init /\ ShownInv
    OBVIOUS
  <1>1. taskQ = <<>> /\ sGfxTasks = <<>> /\ pc = "update" /\ frame = 0 /\ rdp = None
        /\ next = FillBuffer /\ shown = FillBuffer
    BY DEF Init
  <1>2. ~Undrawn
    BY <1>1, EmptyQueued DEF Undrawn
  <1>3. Done = FillBuffer
    BY <1>1, <1>2 DEF Done, Last
  <1> QED
    BY <1>1, <1>3 DEF Display!Init, ShownInv

LEMMA VIShows == ASSUME Inv, Inv', VI PROVE Display!Show
  <1>1. /\ UNCHANGED <<gfxTask, taskQ, sGfxTasks, pc, frame, rdp, next>>
        /\ shown' = next /\ ~Queued(mainQ, "VI") /\ mainQ' = Put(mainQ, 32, "VI")
    BY DEF VI, gfxVars, mainVars, rcpVars
  <1>2. Queued(mainQ', "DP") <=> Queued(mainQ, "DP")
    BY <1>1, MesgSent DEF Inv, Events
  <1>3. (Undrawn' <=> Undrawn) /\ Last' = Last
    BY <1>1, <1>2 DEF Undrawn, Last
  <1>4. Done' = Done
    BY <1>1, <1>3 DEF Done
  <1>5. FrameBufferOf(rdp)' = FrameBufferOf(rdp)
    BY <1>1 DEF FrameBufferOf
  <1> QED
    BY <1>1, <1>4, <1>5 DEF Display!Show

LEMMA QuietSteps ==
  ASSUME Inv, Inv', RspAudio \/ RspGfx \/ RspYields \/ Audio \/ Serial
  PROVE  UNCHANGED Display!vars
  <1>1. UNCHANGED <<gfxTask, sGfxTasks, pc, frame, rdp, next, shown>>
    BY DEF RspAudio, RspGfx, RspYields, RspBreak, Audio, Serial, SerialTake,
           SerialFinish, gfxVars, mainVars, rcpVars, viVars
  <1>2. Queued(mainQ', "DP") <=> Queued(mainQ, "DP")
    <2>1. CASE RspAudio \/ RspGfx \/ RspYields
      <3>1. rsp # None /\ mainQ' = Put(mainQ, 32, "SP")
        BY <2>1, Names DEF RspAudio, RspGfx, RspYields, RspBreak
      <3>2. ~Queued(mainQ, "SP")
        BY <3>1 DEF Inv, RspInv
      <3> QED
        BY <3>1, <3>2, MesgSent DEF Inv, Events
    <2>2. CASE Audio \/ Serial
      BY <2>2 DEF Audio, Serial, SerialTake, SerialFinish
    <2> QED
      BY <2>1, <2>2
  <1>3. Last' = Last /\ (Undrawn' <=> Undrawn)
    BY <1>1, <1>2, UndrawnNext DEF Owing, Last
  <1> QED
    BY <1>1, <1>3, SameDisplay

LEMMA RdpFinishes == ASSUME Inv, Inv', ShownInv, RdpDone PROVE Display!Finish
  <1>1. /\ UNCHANGED <<gfxTask, pc, frame, next, shown>>
        /\ rdp # None /\ rdp' = None /\ mainQ' = Put(mainQ, 32, "DP")
    BY DEF RdpDone, gfxVars, viVars
  <1>2. FrameBufferOf(rdp) = Last % 3 /\ Owing
    BY <1>1, DrawnBuffer
  <1>3. Queued(mainQ', "DP")
    BY <1>1, <1>2, MesgSent DEF Inv, Events, Owing
  <1>4. frame # 0
    BY <1>2 DEF Owing
  <1>5. Undrawn /\ ~Undrawn' /\ Last' = Last
    BY <1>1, <1>2, <1>3, UndrawnNext DEF Owing, Last
  <1>6. Done = Of(Last - 1)
    BY <1>5, DoneIs
  <1>7. Done' = Last % 3
    <2>1. Done' = Of(Last)
      BY <1>1, <1>5 DEF Done, Of
    <2> QED
      BY <2>1, <1>4, FollowingDrawn
  <1>8. Display!Following(Done) = Last % 3
    BY <1>4, <1>6, FollowingDrawn
  <1> QED
    BY <1>1, <1>2, <1>7, <1>8 DEF Display!Finish

\* The main thread keeps whether the last frame is drawn.
LEMMA MainOwing ==
  ASSUME Inv, Inv', Main
  PROVE  UNCHANGED <<pc, frame, next, shown>> /\ (Owing' <=> Owing)
  <1>1. UNCHANGED <<pc, frame, next, shown>> /\ mainQ # <<>> /\ mainQ' = Tail(mainQ)
    BY DEF Main, gfxVars, viVars
  <1>2. Queued(mainQ', "DP") <=> Queued(mainQ, "DP") /\ Head(mainQ) # "DP"
    BY <1>1, MesgTaken DEF Inv, Events
  <1>3. CASE HandleVI \/ HandleSP
    <2>1. gfxTask' = gfxTask /\ Head(mainQ) # "DP"
      BY <1>3 DEF HandleVI, HandleSP
    <2> QED
      BY <1>1, <1>2, <2>1 DEF Owing
  <1>4. CASE HandleDP
    <2>1. Queued(mainQ, "DP") /\ gfxTask' = Put(gfxTask, 2, "task")
      BY <1>1, <1>4, MesgTaken DEF HandleDP, Inv
    <2>2. gfxTask = <<>>
      BY <2>1 DEF Inv, RdpInv, Kept
    <2>3. gfxTask' # <<>>
      BY <2>1, <2>2 DEF Put
    <2> QED
      BY <1>1, <2>1, <2>3 DEF Owing
  <1> QED
    BY <1>1, <1>3, <1>4 DEF Main

\* It starts the drawing of a frame, and takes none from the RDP.
LEMMA MainKeepsRdp == ASSUME Inv, Inv', Main, rdp # None PROVE rdp' # None
  <1>1. HandleVI \/ HandleSP \/ HandleDP
    BY DEF Main
  <1>2. ASSUME NEW current, NEW audio, NEW gfx, NEW st, gfx \in Seq(Pools),
               StartNextTask(current, audio, gfx, st)
        PROVE  rdp' # None
    <2>1. rdp' = rdp \/ (gfx # <<>> /\ rdp' = Head(gfx))
      BY <1>2 DEF StartNextTask, StartsGfx
    <2>2. gfx # <<>> => Head(gfx) \in Pools
      BY <1>2
    <2> QED
      BY <2>1, <2>2, Names
  <1>3. sGfxTasks \in Seq(Pools) /\ sGfxTasks' \in Seq(Pools)
    BY DEF Inv, TypeOK
  <1> QED
    BY <1>1, <1>2, <1>3 DEF HandleVI, HandleSP, HandleDP

LEMMA MainDraws ==
  ASSUME Inv, Inv', ShownInv, Main
  PROVE  Display!Draw \/ UNCHANGED Display!vars
  <1>1. UNCHANGED <<pc, frame, next, shown>> /\ (Owing' <=> Owing)
    BY MainOwing
  <1>2. Last' = Last /\ (Undrawn' <=> Undrawn)
    BY <1>1, UndrawnNext DEF Last
  <1>3. CASE rdp # None \/ rdp' = None
    <2>1. rdp' = None <=> rdp = None
      BY <1>3, MainKeepsRdp
    <2> QED
      BY <1>1, <1>2, <2>1, SameDisplay
  <1>4. CASE rdp = None /\ rdp' # None
    <2>1. FrameBufferOf(rdp)' = Last' % 3 /\ Owing'
      BY <1>4, DrawnNext
    <2>2. frame # 0 /\ Undrawn
      BY <1>1, <2>1, UndrawnNext DEF Owing
    <2>4. Done' = Done /\ Done = Of(Last - 1)
      BY <1>1, <1>2, <2>2, DoneIs DEF Done
    <2>5. Display!Following(Done) = Last % 3
      BY <2>2, <2>4, FollowingDrawn
    <2>6. BufferNotShown'
      BY BufferFree, PTL
    <2>7. Last % 3 \notin {next, shown}
      BY <1>1, <1>2, <1>4, <2>1, <2>6 DEF BufferNotShown
    <2> QED
      BY <1>1, <1>2, <1>4, <2>1, <2>4, <2>5, <2>7 DEF Display!Draw
  <1> QED
    BY <1>3, <1>4

LEMMA QuietGraphics ==
  ASSUME Inv, Inv',
         ReadController \/ Update \/ SaveDone \/ Drain \/ GiveBack \/ CountVIs
  PROVE  UNCHANGED Display!vars
  <1>1. UNCHANGED <<mainQ, frame, rdp, next, shown>> /\ Last' = Last
    BY DEF ReadController, Update, SaveDone, Drain, GiveBack, CountVIs, queues,
           rcpVars, viVars, Last
  <1>2. Owing' <=> Owing
    <2>1. CASE ReadController \/ Update \/ SaveDone \/ CountVIs
      <3>1. gfxTask' = gfxTask /\ pc # "drained" /\ pc' # "drained"
        BY <2>1 DEF ReadController, Update, SaveDone, CountVIs, queues
      <3> QED
        BY <1>1, <3>1 DEF Owing
    <2>2. CASE Drain
      BY <2>2 DEF Drain, Owing
    <2>3. CASE GiveBack
      <3>1. gfxTask = <<>> /\ pc = "drained" /\ gfxTask' = Put(gfxTask, 2, "task")
        BY <2>3 DEF GiveBack, Inv, StageInv, NoTask
      <3>2. gfxTask' # <<>>
        BY <3>1 DEF Put
      <3> QED
        BY <3>1, <3>2 DEF Owing
    <2> QED
      BY <2>1, <2>2, <2>3
  <1> QED
    BY <1>1, <1>2, UndrawnNext, SameDisplay

\* The frame before is drawn, and stays the last one that is.
LEMMA SetTaskQuiet == ASSUME Inv, Inv', SetTask PROVE UNCHANGED Display!vars
  <1>1. /\ UNCHANGED <<mainQ, rdp, next, shown>> /\ pc = "task"
        /\ frame # 0 => gfxTask # <<>> /\ gfxTask' = Tail(gfxTask)
        /\ frame # 0 => pc' = "swap" /\ frame' = frame
        /\ frame = 0 => gfxTask' = gfxTask /\ pc' = "controller" /\ frame' = 1
    BY DEF SetTask, NextFrame, rcpVars, viVars
  <1>2. ~Owing
    BY <1>1 DEF Owing
  <1>3. rdp = None
    BY <1>2, DrawnBuffer
  <1>4. CASE frame = 0
    <2>1. gfxTask = <<>> /\ ~Kept /\ next = FillBuffer
      BY <1>1, <1>4, StagesDiffer DEF Inv, StageInv, NoTask, BufferInv
    <2>2. Owing'
      BY <1>1, <1>4, <2>1, Idle DEF Owing, Inv
    <2>3. Last = -1 /\ Last' = 0
      BY <1>1, <1>4 DEF Last
    <2>4. Done = FillBuffer
      BY <1>2, <2>1, <2>3, UndrawnNext DEF Done
    <2>5. Done' = FillBuffer
      BY <1>1, <2>1, <2>2, <2>3, UndrawnNext DEF Done
    <2> QED
      BY <1>1, <1>3, <2>4, <2>5 DEF Display!vars
  <1>5. CASE frame # 0
    <2>1. gfxTask = <<"task">> /\ ~Kept
      BY <1>1, <1>5, StagesDiffer DEF Inv, StageInv, HandedOver, Kept, Drawn
    <2>2. gfxTask' = <<>>
      BY <1>1, <1>5, <2>1
    <2>3. Owing'
      BY <1>1, <1>5, <2>1, <2>2, Idle DEF Owing, Inv
    <2>4. Last = frame - 1 /\ Last' = frame
      BY <1>1, <1>5 DEF Last
    <2>5. Done' = Done
      BY <1>1, <1>2, <2>3, <2>4, UndrawnNext DEF Done
    <2> QED
      BY <1>1, <1>3, <2>5 DEF Display!vars
  <1> QED
    BY <1>4, <1>5

LEMMA BufferSwaps == ASSUME Inv, Inv', ShownInv, SwapBuffer PROVE Display!Swap
  <1>1. /\ UNCHANGED <<mainQ, gfxTask, frame, rdp, shown>>
        /\ pc = "swap" /\ pc' = "count" /\ next' = (frame - 1) % 3
    BY DEF SwapBuffer, queues, rcpVars
  <1>2. frame \in 1..6 /\ Last = frame /\ Last' = frame /\ next = shown
    BY <1>1 DEF Inv, TypeOK, FrameInv, Last, ShownInv
  <1>3. Undrawn' <=> Undrawn
    BY <1>1, UndrawnNext DEF Owing
  <1>4. Done' = Done /\ Done \in {(frame - 1) % 3, frame % 3}
    BY <1>2, <1>3 DEF Done
  <1>5. next' = Display!Following(next) /\ next # Done
    <2>1. CASE next = FillBuffer
      <3>1. frame = 1 /\ next' = 0
        BY <1>1, <1>2, <2>1 DEF ShownInv
      <3>2. Done # FillBuffer
        BY <1>2, <1>4, BuffersRotate, Names
      <3> QED
        BY <2>1, <3>1, <3>2 DEF Display!Following
    <2>2. CASE next # FillBuffer
      <3>1. next = (frame - 2) % 3
        BY <1>1, <2>2 DEF Inv, BufferInv
      <3>2. next' = Display!Following(next)
        BY <1>1, <1>2, <2>2, <3>1, InTurn DEF Display!Following
      <3>3. \A n \in 1..6 : (n - 2) % 3 # (n - 1) % 3 /\ (n - 2) % 3 # n % 3
        OBVIOUS
      <3> QED
        BY <1>2, <1>4, <3>1, <3>2, <3>3
    <2> QED
      BY <2>1, <2>2
  <1>6. FrameBufferOf(rdp)' = FrameBufferOf(rdp)
    BY <1>1 DEF FrameBufferOf
  <1> QED
    BY <1>1, <1>2, <1>4, <1>5, <1>6 DEF Display!Swap

\* Frame 6 becomes frame 0 again, in the same buffer.
LEMMA WaitQuiet == ASSUME Inv, Inv', ShownInv, WaitForVI PROVE UNCHANGED Display!vars
  <1>1. /\ UNCHANGED <<mainQ, gfxTask, rdp, next, shown>> /\ pc = "vi"
        /\ IF left = 1 THEN NextFrame ELSE UNCHANGED <<pc, frame>>
    BY DEF WaitForVI, rcpVars, viVars
  <1>2. CASE left # 1
    <2>1. UNCHANGED <<pc, frame>>
      BY <1>1, <1>2
    <2>2. Last' = Last /\ (Undrawn' <=> Undrawn)
      BY <1>1, <2>1, UndrawnNext DEF Last, Owing
    <2> QED
      BY <1>1, <2>2, SameDisplay
  <1>3. CASE left = 1
    <2>1. NextFrame /\ frame \in 1..6 /\ next # FillBuffer
      BY <1>1, <1>3 DEF Inv, TypeOK, FrameInv, ShownInv
    <2>2. frame' \in 1..6 /\ pc' = "controller" /\ (Last' - 1) % 3 = (Last - 1) % 3
      BY <1>1, <2>1, NextFrameRotates
    <2>3. Last' % 3 = Last % 3
      <3>1. Last = frame /\ Last' = IF frame = 6 THEN 0 ELSE frame
        BY <1>1, <2>1 DEF NextFrame, Last
      <3> QED
        BY <2>1, <3>1
    <2>4. Undrawn' <=> Undrawn
      BY <1>1, <2>1, <2>2, UndrawnNext DEF Owing
    <2>5. Done' = Done
      BY <1>1, <2>1, <2>2, <2>3, <2>4 DEF Done
    <2>6. rdp # None => FrameBufferOf(rdp)' = FrameBufferOf(rdp)
      BY <1>1, <2>3, DrawnBuffer, DrawnNext
    <2> QED
      BY <1>1, <2>5, <2>6 DEF Display!vars
  <1> QED
    BY <1>2, <1>3

LEMMA StepRefines ==
  ASSUME Inv, Inv', ShownInv, [Next]_vars PROVE [Display!Next]_Display!vars
  <1>1. CASE UNCHANGED vars
    <2>1. UNCHANGED <<mainQ, taskQ, sGfxTasks, pc, frame, rdp, next, shown>>
      BY <1>1 DEF vars, queues, mainVars, gfxVars, rcpVars, viVars
    <2> QED
      BY <2>1 DEF Display!vars, Done, Undrawn, Last, FrameBufferOf
  <1>2. CASE VI
    BY <1>2, VIShows DEF Display!Next
  <1>3. CASE RspAudio \/ RspGfx \/ RspYields \/ Audio \/ Serial
    BY <1>3, QuietSteps
  <1>4. CASE RdpDone
    BY <1>4, RdpFinishes DEF Display!Next
  <1>5. CASE Main
    BY <1>5, MainDraws DEF Display!Next
  <1>6. CASE Graphics
    <2>1. CASE ReadController \/ Update \/ SaveDone \/ Drain \/ GiveBack \/ CountVIs
      BY <2>1, QuietGraphics
    <2>2. CASE SetTask
      BY <2>2, SetTaskQuiet
    <2>3. CASE SwapBuffer
      BY <2>3, BufferSwaps DEF Display!Next
    <2>4. CASE WaitForVI
      BY <2>4, WaitQuiet
    <2> QED
      BY <1>6, <2>1, <2>2, <2>3, <2>4 DEF Graphics
  <1> QED
    BY <1>1, <1>2, <1>3, <1>4, <1>5, <1>6 DEF Next

\* The frames are shown one after another, each once the RDP has finished it and
\* none left out, and none is drawn over while it is shown: what SwapBuffer's place
\* between the graphics thread's two waits, and validVIsPerFrame, are for.
THEOREM FramesInOrderHolds == Spec => FramesInOrder
  <1>1. Init => Inv /\ ShownInv
    BY InitInv, InitDisplay
  <1>2. Inv /\ ShownInv /\ [Next]_vars => Inv' /\ ShownInv'
    BY NextInv, NextShown
  <1>3. Inv /\ Inv' /\ ShownInv /\ [Next]_vars => [Display!Next]_Display!vars
    BY StepRefines
  <1>4. Init => Display!Init
    BY InitDisplay
  <1> QED
    BY <1>1, <1>2, <1>3, <1>4, PTL DEF Spec, FramesInOrder, Display!Spec

=============================================================================

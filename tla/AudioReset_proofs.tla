------------------------- MODULE AudioReset_proofs -------------------------
(***************************************************************************)
(* Why AUDIORESET_READY means a rebuilt heap after a reset asked for in an *)
(* orderly way, why no batch of sound commands is lost in it, and that     *)
(* every variable keeps its type, whatever the tracks, the specs, what     *)
(* Audio_StartReset does for each pair of them, and the length of fades.   *)
(*                                                                         *)
(* Such a reset is one token: from the queue of the audio thread it goes   *)
(* to the steps of the heap, and comes back as the answer that makes the   *)
(* status READY.  Another request waits in the ring until then; one that   *)
(* does not, in the same Audio_ProcessSeqCmds, is not asked for in order,  *)
(* and the history forgets the token.                                      *)
(***************************************************************************)
EXTENDS AudioReset, SequenceTheorems, FiniteSetTheorems, WellFoundedInduction, TLAPS

RingOf == {"PLAY"} \X Track \cup {"RESET"} \X Specs
Batch == [queued : Seq(Command), skipped : Seq(Command)]

Typed ==
  /\ screen \in {"select", "loading", "level", "paused"}
  /\ screen # "select" => level \in Levels
  /\ rescue \in [track : Levels \cup {None}, delay : 0..3]
  /\ pc \in {"tick", "game", "update", "commands", "reset"}
  /\ pc = "reset" => ring # <<>> /\ Head(ring)[1] = "RESET"
  /\ spec \in Specs /\ heapSpec \in Specs /\ status \in {"READY", "WAIT", "BLOCK"}
  /\ ring \in Seq(RingOf) /\ waiting \in Track \cup {None}
  /\ cmds \in Batch /\ batches \in Seq(Batch) /\ specQ \in Specs \cup {None}
  /\ orderly \in BOOLEAN

\* The three places of a reset under way.
Queued == specQ = spec /\ step = 0 /\ resetQ = None
Rebuilding == specQ = None /\ heapSpec = spec /\ step \in 1..4 /\ resetQ = None
Answered == specQ = None /\ heapSpec = spec /\ step = 0 /\ resetQ = spec
Rebuilt == specQ = None /\ heapSpec = spec /\ step = 0 /\ resetQ = None

Stage == IF status = "READY" THEN Rebuilt ELSE Queued \/ Rebuilding \/ Answered

\* Between the two steps of a request the status is READY, and will not stay so.
Asked == pc = "reset" => status = "READY" /\ Reset[spec, Head(ring)[2]] # "unchanged"

Inv == Typed /\ (orderly => Stage /\ Asked)

\* Each frame since the audio tick adds a batch.  Two may be there before: that
\* of the frame that asked for the reset, if the heap was rebuilt before it
\* ended, and that of the players' restart.
Few ==
  /\ Len(batches) <= frames + 2
  /\ pc = "reset" => Len(batches) <= 2
  /\ Queued => Len(batches) <= (IF pc = "commands" THEN 2 ELSE 3)
  /\ Rebuilding \/ Answered =>
       Len(batches) <= (IF pc = "commands" THEN 0 ELSE 1)
BatchesInv ==
  /\ frames \in 0..2 /\ (pc # "tick" => frames \in 0..1)
  /\ orderly => Few

-----------------------------------------------------------------------------
(* The ring                                                                *)

LEMMA AppendToRing ==
  ASSUME NEW q \in Seq(RingOf), NEW c \in RingOf
  PROVE  Append(q, c) \in Seq(RingOf)
OBVIOUS

LEMMA TailOfRing ==
  ASSUME NEW q \in Seq(RingOf), q # <<>>
  PROVE  Tail(q) \in Seq(RingOf) /\ Head(q) \in RingOf
OBVIOUS

LEMMA RingElements ==
  /\ \A t \in Track : <<"PLAY", t>> \in RingOf
  /\ \A s \in Specs : <<"RESET", s>> \in RingOf
  /\ \A c \in RingOf : /\ c[1] = "RESET" => c[2] \in Specs
                       /\ c[1] = "PLAY" => c[2] \in Track
BY DEF RingOf

-----------------------------------------------------------------------------
(* The commands, and the answer to a reset                                 *)

LEMMA CommandTypes ==
  /\ NoCommands \in Batch /\ Stops \in Seq(Command)
  /\ <<<<"disable">>>> \in Seq(Command) /\ <<<<"mute">>>> \in Seq(Command)
  /\ <<<<"unmute">>>> \in Seq(Command)
  /\ <<<<"unmute">>, <<"STOP_AUDIOCMDS">>>> \in Seq(Command)
  /\ \A t \in Track, op \in {"discard", "load", "init"} :
       <<op, t>> \in Command /\ <<<<op, t>>>> \in Seq(Command)
<1>1. /\ <<"STOP_AUDIOCMDS">> \in Command /\ <<"disable">> \in Command
      /\ <<"mute">> \in Command /\ <<"unmute">> \in Command
  BY DEF Command
<1>2. \A t \in Track, op \in {"discard", "load", "init"} : <<op, t>> \in Command
  BY DEF Command
<1>3. Stops \in Seq(Command)
  BY <1>1, AudioAssumption DEF Stops
<1> QED BY <1>1, <1>2, <1>3 DEF NoCommands, Batch

LEMMA AppendBatch ==
  ASSUME NEW q \in Seq(Batch), NEW c \in Batch
  PROVE  Append(q, c) \in Seq(Batch) /\ Len(Append(q, c)) = Len(q) + 1
         /\ Len(q) \in Nat
OBVIOUS

LEMMA QueueKeepsType ==
  ASSUME cmds \in Batch, NEW c \in Seq(Command), Queue(c)
  PROVE  cmds' \in Batch
<1>1. cmds.queued \in Seq(Command) /\ cmds.skipped \in Seq(Command)
  BY DEF Batch
<1>2. cmds.queued \o c \in Seq(Command)
  BY <1>1
<1> QED BY <1>1, <1>2 DEF Queue, Batch

LEMMA SkipType ==
  ASSUME NEW c \in Batch PROVE Skip(c) \in Batch
<1>1. c.skipped \o c.queued \in Seq(Command) /\ <<>> \in Seq(Command)
  BY DEF Batch
<1> QED BY <1>1 DEF Skip, Batch

LEMMA ScheduleStep ==
  ASSUME batches \in Seq(Batch), NEW c \in Batch, NEW after \in Seq(Command),
         Schedule(c, after)
  PROVE  /\ cmds' \in Batch /\ batches' \in Seq(Batch)
         /\ Len(batches') <= Len(batches) + 1
         /\ Len(batches) <= 4 => Len(batches') <= 4
         /\ Len(batches) <= 3 => Len(batches') = Len(batches) + 1
<1>1. \A b \in Batch : [b EXCEPT !.queued = after] \in Batch
  BY DEF Batch
<1>2. cmds' \in Batch
  BY <1>1, SkipType, CommandTypes DEF Schedule
<1>3. PICK n \in Nat : n = Len(batches)
  BY AppendBatch
<1>4. CASE n < 4
  <2>1. batches' = Append(batches, c)
    BY <1>3, <1>4 DEF Schedule
  <2>2. batches' \in Seq(Batch) /\ Len(batches') = n + 1
    BY <1>3, <2>1, AppendBatch
  <2> QED BY <1>2, <1>3, <1>4, <2>2
<1>5. CASE ~(n < 4)
  <2>1. batches' = batches
    BY <1>3, <1>5 DEF Schedule
  <2> QED BY <1>2, <1>3, <1>5, <2>1
<1> QED BY <1>4, <1>5

\* Nothing else moves: either the status stays, or the answer is in.
LEMMA HandleResetTypes ==
  ASSUME Typed, HandleReset
  PROVE  /\ status' \in {"READY", "WAIT", "BLOCK"}
         /\ cmds' \in Batch /\ batches' \in Seq(Batch)
         /\ Len(batches) <= 4 => Len(batches') <= 4
         /\ resetQ' = resetQ \/ resetQ' = None
<1>1. CASE ~ResetCompletes
  BY <1>1 DEF HandleReset, Typed, reset
<1>2. CASE ResetCompletes
  BY <1>2, ScheduleStep, CommandTypes DEF ResetCompletes, Typed
<1> QED BY <1>1, <1>2

Calm == UNCHANGED <<spec, specQ, heapSpec, step>>

LEMMA HandleResetStage ==
  ASSUME Typed, Stage, HandleReset, Calm
  PROVE  /\ Stage'
         /\ \/ UNCHANGED <<status, resetQ, batches>>
            \/ /\ status # "READY" /\ status' = "READY" /\ Answered /\ Rebuilt'
               /\ Len(batches) <= 3 => Len(batches') = Len(batches) + 1
<1> USE DEF Calm
<1>1. CASE UNCHANGED reset
  BY <1>1 DEF Typed, Stage, Queued, Rebuilding, Answered, Rebuilt, reset
<1>2. CASE status = "WAIT" /\ resetQ # heapSpec /\ resetQ' = None
           /\ UNCHANGED <<status, cmds, batches>>
  <2>1. resetQ = None
    BY <1>2 DEF Stage, Queued, Rebuilding, Answered
  <2> QED BY <1>1, <1>2, <2>1 DEF reset
<1>3. CASE ResetCompletes
  <2>1. Answered
    BY <1>3, AudioAssumption
    DEF ResetCompletes, Typed, Stage, Queued, Rebuilding, Answered
  <2>2. Rebuilt' /\ status' = "READY" /\ status # "READY"
    BY <1>3, <2>1 DEF ResetCompletes, Answered, Rebuilt
  <2>3. Len(batches) <= 3 => Len(batches') = Len(batches) + 1
    BY <1>3, ScheduleStep, CommandTypes DEF ResetCompletes, Typed
  <2> QED BY <2>1, <2>2, <2>3 DEF Stage
<1> QED BY <1>1, <1>2, <1>3 DEF HandleReset

LEMMA StageKept ==
  ASSUME Stage, Calm, UNCHANGED <<status, resetQ>>
  PROVE  Stage'
BY DEF Calm, Stage, Queued, Rebuilding, Answered, Rebuilt

-----------------------------------------------------------------------------
(* The practice code                                                       *)

LEMMA AskKeepsRing ==
  ASSUME ring \in Seq(RingOf), NEW t, NEW s,
         (t \in Track /\ AUDIO_PLAY_BGM(t)) \/ (s \in Specs /\ AUDIO_SET_SPEC(s))
  PROVE  ring' \in Seq(RingOf)
<1>1. CASE t \in Track /\ AUDIO_PLAY_BGM(t)
  BY <1>1, AppendToRing, RingElements DEF AUDIO_PLAY_BGM
<1>2. CASE s \in Specs /\ AUDIO_SET_SPEC(s)
  BY <1>2, AppendToRing, RingElements DEF AUDIO_SET_SPEC
<1> QED BY <1>1, <1>2

\* What every step of the practice code does to a reset.
Serves ==
  /\ pc \in {"tick", "game"} /\ pc' \in {"game", "update"}
  /\ pc' = "update" \/ pc = "tick"
  /\ frames < FramesPerTick /\ UNCHANGED <<frames, fade, engine, prev>>
  /\ Calm /\ orderly' = orderly
  /\ HandleReset \/ UNCHANGED <<status, resetQ, batches>>

LEMMA PracticeStepServes ==
  ASSUME PracticeStep
  PROVE  Serves
<1>1. CASE BgmRescue
  BY <1>1 DEF BgmRescue, Serves, thread, Calm
<1>2. CASE ~BgmRescue
  BY <1>2 DEF PracticeStep, LevelSelect, LaunchLevel, OtherFrame, EnterLevel, Pause,
              Unpause, LoadSlot, RequestLoad, LeaveLevel, Frame, Serves, thread, Calm,
              reset
<1> QED BY <1>1, <1>2

\* What the steps change besides.
PracticeTypes ==
  /\ screen' \in {"select", "loading", "level", "paused"}
  /\ screen' # "select" => level' \in Levels
  /\ rescue' \in [track : Levels \cup {None}, delay : 0..3]
  /\ ring' \in Seq(RingOf) /\ waiting' \in Track \cup {None}
  /\ cmds' \in Batch /\ batches' \in Seq(Batch)
  /\ status' \in {"READY", "WAIT", "BLOCK"}

LEMMA BgmRescueTypes ==
  ASSUME Typed, BgmRescue
  PROVE  PracticeTypes
<1>1. rescue.track \in Levels /\ rescue.track \in Track /\ UNCHANGED <<screen, level>>
  BY AudioAssumption DEF BgmRescue, Typed
<1>2. ring' \in Seq(RingOf) /\ waiting' \in Track \cup {None}
  <2>1. CASE AUDIO_PLAY_BGM(rescue.track) /\ waiting' = None
    BY <2>1, <1>1, AskKeepsRing DEF Typed
  <2>2. CASE UNCHANGED <<waiting, ring>>
    BY <2>2 DEF Typed
  <2> QED BY <2>1, <2>2 DEF BgmRescue
<1>3. rescue' \in [track : Levels \cup {None}, delay : 0..3]
  BY DEF BgmRescue, Typed
<1>4. HandleReset
  BY DEF BgmRescue
<1> QED BY <1>1, <1>2, <1>3, <1>4, HandleResetTypes DEF Typed, PracticeTypes

LEMMA LevelSelectTypes ==
  ASSUME Typed, NEW s \in Track, LevelSelect(s)
  PROVE  PracticeTypes
<1>1. /\ screen' = screen /\ level' = level /\ rescue' = rescue /\ waiting' = waiting
      /\ HandleReset \/ UNCHANGED reset
  BY DEF LevelSelect, Frame
<1>2. SpecOf[s] \in Specs
  BY AudioAssumption
<1>3. ring' \in Seq(RingOf)
  <2>1. ring' = ring \/ AUDIO_SET_SPEC(SpecOf[s]) \/ AUDIO_PLAY_BGM(s)
    BY DEF LevelSelect
  <2> QED BY <1>2, <2>1, AskKeepsRing DEF Typed
<1> QED BY <1>1, <1>3, HandleResetTypes DEF Typed, PracticeTypes, reset

LEMMA RequestTypes ==
  ASSUME Typed, NEW l \in Levels, LaunchLevel(l) \/ RequestLoad(l)
  PROVE  PracticeTypes
<1>1. /\ screen' = "loading" /\ level' = l /\ waiting' = waiting /\ UNCHANGED reset
      /\ AUDIO_SET_SPEC(SpecOf[l]) /\ SpecOf[l] \in Specs
  BY AudioAssumption DEF LaunchLevel, RequestLoad, Frame
<1>2. rescue' \in [track : Levels \cup {None}, delay : 0..3]
  BY DEF LaunchLevel, RequestLoad, Typed
<1>3. ring' \in Seq(RingOf)
  BY <1>1, AskKeepsRing DEF Typed
<1> QED BY <1>1, <1>2, <1>3 DEF Typed, PracticeTypes, reset

LEMMA EnterLevelTypes ==
  ASSUME Typed, EnterLevel
  PROVE  PracticeTypes
<1>1. /\ screen' = "level" /\ UNCHANGED <<level, rescue, waiting, reset>>
      /\ AUDIO_PLAY_BGM(level) /\ level \in Levels /\ level \in Track
  BY AudioAssumption DEF EnterLevel, Frame, Typed
<1>2. ring' \in Seq(RingOf)
  BY <1>1, AskKeepsRing DEF Typed
<1> QED BY <1>1, <1>2 DEF Typed, PracticeTypes, reset

LEMMA PauseTypes ==
  ASSUME Typed, Pause \/ Unpause
  PROVE  PracticeTypes
<1>1. /\ screen' \in {"level", "paused"} /\ screen # "select"
      /\ UNCHANGED <<level, rescue, ring, waiting, status, batches>>
      /\ Queue(<<<<"mute">>>>) \/ Queue(<<<<"unmute">>>>)
  BY DEF Pause, Unpause, Frame
<1>2. cmds' \in Batch
  BY <1>1, CommandTypes, QueueKeepsType DEF Typed
<1> QED BY <1>1, <1>2 DEF Typed, PracticeTypes

LEMMA LoadSlotTypes ==
  ASSUME Typed, LoadSlot
  PROVE  PracticeTypes
<1>1. /\ UNCHANGED <<screen, level, waiting, status, batches>> /\ level \in Levels
      /\ ring' = <<>> /\ cmds' = Skip(cmds) /\ rescue' = [rescue EXCEPT !.track = level]
  BY DEF LoadSlot, DrainAudioForApply, Frame, Typed
<1>2. ring' \in Seq(RingOf) /\ cmds' \in Batch
  BY <1>1, SkipType DEF Typed
<1> QED BY <1>1, <1>2 DEF Typed, PracticeTypes

LEMMA PracticeStepTypes ==
  ASSUME Typed, PracticeStep
  PROVE  PracticeTypes
<1>1. OtherFrame \/ (\E s \in Track : LeaveLevel(s)) => PracticeTypes
  BY DEF OtherFrame, LeaveLevel, Frame, practice, reset, Typed, PracticeTypes
<1> QED BY <1>1, BgmRescueTypes, LevelSelectTypes, RequestTypes, EnterLevelTypes,
           PauseTypes, LoadSlotTypes DEF PracticeStep

LEMMA PracticeStepKeeps ==
  ASSUME Inv, PracticeStep
  PROVE  Inv'
<1>1. Serves /\ PracticeTypes
  BY PracticeStepServes, PracticeStepTypes DEF Inv
<1>2. Typed'
  BY <1>1 DEF Inv, Typed, Serves, Calm, PracticeTypes
<1>3. orderly' => Stage' /\ Asked'
  BY <1>1, HandleResetStage, StageKept DEF Inv, Serves, Asked
<1> QED BY <1>2, <1>3 DEF Inv

-----------------------------------------------------------------------------
(* Audio_Update                                                            *)

\* In order there is no answer for another spec.
LEMMA WrongAnswerKeeps ==
  ASSUME Inv, WrongAnswer
  PROVE  Inv' /\ ~orderly
<1>1. ~Stage
  BY DEF WrongAnswer, Stage, Queued, Rebuilding, Answered
<1>2. ~orderly /\ ~orderly'
  BY <1>1 DEF Inv, WrongAnswer
<1>3. Typed'
  BY DEF Inv, Typed, WrongAnswer, practice, thread
<1> QED BY <1>2, <1>3 DEF Inv

LEMMA UpdateKeeps ==
  ASSUME Inv, UpdateWaits \/ UpdateReady
  PROVE  Inv'
<1>1. /\ pc = "update" /\ HandleReset /\ Calm /\ ring' = ring /\ waiting' = waiting
      /\ UNCHANGED <<screen, level, rescue, orderly>> /\ pc' \in {"tick", "commands"}
  BY DEF UpdateWaits, UpdateReady, EndFrame, practice, thread, Calm
<1>2. Typed'
  BY <1>1, HandleResetTypes DEF Inv, Typed, Calm
<1>3. orderly' => Stage' /\ Asked'
  BY <1>1, HandleResetStage DEF Inv, Asked
<1> QED BY <1>2, <1>3 DEF Inv

LEMMA NextCommandStep ==
  ASSUME Typed, NEW op \in {"PLAY", "RESET"}, NextCommand(op)
  PROVE  /\ Tail(ring) \in Seq(RingOf)
         /\ op = "RESET" => Head(ring)[2] \in Specs
         /\ op = "PLAY" => Head(ring)[2] \in Track
BY TailOfRing, RingElements DEF NextCommand, Typed

LEMMA PlaySequenceTypes ==
  ASSUME Typed, PlaySequence
  PROVE  waiting' \in Track \cup {None} /\ cmds' \in Batch
<1> DEFINE t == Head(ring)[2]
           a == <<<<"disable">>>>
           b == IF prev \in {None, t} THEN <<>> ELSE <<<<"discard", t>>>>
           d == <<<<"load", t>>>>
<1>1. t \in Track
  BY NextCommandStep DEF PlaySequence
<1>2. CASE UNCHANGED <<waiting, cmds>>
  BY <1>2 DEF Typed
<1>3. CASE waiting' = t /\ Queue(a \o b \o d)
  <2>1. a \in Seq(Command) /\ d \in Seq(Command)
    BY <1>1, CommandTypes
  <2>2. b \in Seq(Command)
    <3>1. CASE prev \in {None, t}
      BY <3>1
    <3>2. CASE prev \notin {None, t}
      BY <1>1, <3>2, CommandTypes
    <3> QED BY <3>1, <3>2
  <2>3. Queue(a \o b \o d)
    BY <1>3
  <2> HIDE DEF a, b, d
  <2>4. a \o b \o d \in Seq(Command)
    BY <2>1, <2>2
  <2>5. cmds \in Batch
    BY DEF Typed
  <2>6. cmds' \in Batch
    BY <2>3, <2>4, <2>5, QueueKeepsType
  <2> QED BY <1>1, <1>3, <2>6
<1> QED BY <1>2, <1>3 DEF PlaySequence

LEMMA SequenceKeeps ==
  ASSUME Inv, PlaySequence \/ ResetSameSpec
  PROVE  Inv'
<1> USE DEF Inv
<1>1. /\ UNCHANGED <<screen, level, rescue, pc, spec, status, resetQ, batches, specQ>>
      /\ UNCHANGED <<heapSpec, step, orderly>> /\ pc = "commands" /\ ring' = Tail(ring)
      /\ \E op \in {"PLAY", "RESET"} : NextCommand(op)
  BY DEF PlaySequence, ResetSameSpec, practice, thread
<1>2. waiting' \in Track \cup {None} /\ cmds' \in Batch
  <2>1. CASE PlaySequence
    BY <2>1, PlaySequenceTypes
  <2>2. CASE ResetSameSpec
    BY <2>2, CommandTypes, QueueKeepsType DEF ResetSameSpec, Typed
  <2> QED BY <2>1, <2>2
<1>3. ring' \in Seq(RingOf)
  BY <1>1, NextCommandStep
<1>4. Typed'
  BY <1>1, <1>2, <1>3 DEF Typed
<1>5. orderly' => Stage' /\ Asked'
  BY <1>1, StageKept DEF Calm, Asked
<1> QED BY <1>4, <1>5

\* The history starts here: the heap is rebuilt, and the answer is not yet in.
LEMMA ClearResetQueueKeeps ==
  ASSUME Inv, ClearResetQueue
  PROVE  Inv' /\ (orderly' => Len(batches') <= 2 /\ Rebuilt')
<1>1. /\ UNCHANGED <<screen, level, rescue, spec, status, batches, specQ, ring, waiting>>
      /\ UNCHANGED <<heapSpec, step>> /\ pc' = "reset" /\ NextCommand("RESET")
      /\ resetQ' = None /\ cmds' = Skip(cmds)
      /\ orderly' = (/\ status = "READY" /\ Settled /\ Len(batches) + 2 <= 4
                     /\ Reset[spec, Head(ring)[2]] # "unchanged")
  BY DEF ClearResetQueue, practice, thread
<1>2. Typed'
  <2>1. cmds' \in Batch /\ orderly' \in BOOLEAN
    BY <1>1, SkipType DEF Inv, Typed
  <2> QED BY <1>1, <2>1 DEF Inv, Typed, NextCommand
<1>3. orderly' => Rebuilt' /\ status' = "READY" /\ Asked'
  BY <1>1 DEF Settled, Rebuilt, Asked
<1>4. orderly' => Len(batches') <= 2
  <2>1. orderly' => Len(batches) + 2 <= 4
    BY <1>1, Zenon
  <2>2. Len(batches) \in Nat /\ batches' = batches
    BY <1>1, AppendBatch DEF Inv, Typed
  <2> HIDE DEF Inv
  <2> QED BY <2>1, <2>2
<1> QED BY <1>2, <1>3, <1>4 DEF Inv, Stage

LEMMA SendSpecKeeps ==
  ASSUME Inv, SendSpec
  PROVE  Inv' /\ (orderly' => Queued' /\ status' # "READY")
<1> DEFINE s == Head(ring)[2]
<1>1. /\ UNCHANGED <<screen, level, rescue, batches, waiting, heapSpec, step, resetQ>>
      /\ orderly' = orderly /\ pc = "reset" /\ pc' = "commands" /\ ring' = Tail(ring)
      /\ spec' = s /\ specQ' = IF specQ = None THEN s ELSE specQ
      /\ status' = IF Reset[spec, s] = "unchanged" THEN status ELSE Reset[spec, s]
      /\ Queue(<<<<"unmute">>, <<"STOP_AUDIOCMDS">>>>)
  BY DEF SendSpec, practice, thread
<1>2. s \in Specs /\ ring' \in Seq(RingOf)
  BY <1>1, NextCommandStep DEF Inv, Typed, NextCommand
<1>3. Reset[spec, s] \in {"WAIT", "BLOCK", "unchanged"}
  BY <1>2, AudioAssumption DEF Inv, Typed
<1>4. cmds' \in Batch
  BY <1>1, CommandTypes, QueueKeepsType DEF Inv, Typed
<1>5. Typed'
  BY <1>1, <1>2, <1>3, <1>4 DEF Inv, Typed
<1>6. orderly' => Queued' /\ status' # "READY"
  <2>1. orderly => Rebuilt /\ Reset[spec, s] # "unchanged"
    BY <1>1 DEF Inv, Stage, Asked
  <2> QED BY <1>1, <1>3, <2>1 DEF Rebuilt, Queued
<1> QED BY <1>1, <1>5, <1>6 DEF Inv, Stage, Asked

LEMMA UpdateActiveSequencesStep ==
  ASSUME Inv, UpdateActiveSequences
  PROVE  /\ Inv' /\ Len(batches') <= Len(batches) + 1
         /\ Len(batches) <= 4 => Len(batches') <= 4
<1>1. /\ pc = "commands" /\ pc' = "tick" /\ ring' = ring /\ orderly' = orderly
      /\ UNCHANGED <<screen, level, rescue, spec, status, resetQ, specQ, heapSpec, step>>
  BY DEF UpdateActiveSequences, EndFrame, practice
<1>2. /\ cmds' \in Batch /\ batches' \in Seq(Batch)
      /\ Len(batches') <= Len(batches) + 1
      /\ Len(batches) <= 4 => Len(batches') <= 4
      /\ waiting' \in Track \cup {None}
  <2>1. /\ cmds \in Batch /\ batches \in Seq(Batch) /\ waiting \in Track \cup {None}
        /\ <<>> \in Seq(Command)
    BY DEF Inv, Typed
  <2> DEFINE c == [cmds EXCEPT !.queued = Append(@, <<"init", waiting>>)]
  <2>2. CASE waiting # None /\ Schedule(c, <<>>) /\ waiting' = None
    <3>1. Append(cmds.queued, <<"init", waiting>>) \in Seq(Command)
      <4>1. <<"init", waiting>> \in Command
        BY <2>1, <2>2, CommandTypes
      <4> QED BY <2>1, <4>1 DEF Batch
    <3>2. c \in Batch
      BY <2>1, <3>1 DEF Batch
    <3> HIDE DEF c
    <3> QED BY <2>1, <2>2, <3>2, ScheduleStep
  <2>3. CASE Schedule(cmds, <<>>) /\ waiting' = waiting
    BY <2>1, <2>3, ScheduleStep
  <2> QED BY <2>2, <2>3 DEF UpdateActiveSequences
<1>3. Typed'
  BY <1>1, <1>2 DEF Inv, Typed
<1>4. orderly' => Stage' /\ Asked'
  BY <1>1, StageKept DEF Inv, Calm, Asked
<1> QED BY <1>2, <1>3, <1>4 DEF Inv

-----------------------------------------------------------------------------
(* The audio thread                                                        *)

LEMMA NoBatch == <<>> \in Seq(Batch) /\ Len(<<>>) = 0
OBVIOUS

LEMMA AudioTickTypes ==
  ASSUME Typed, AudioTick
  PROVE  /\ Typed' /\ UNCHANGED <<pc, status, spec, orderly, ring>>
         /\ frames' = 0 /\ specQ' = None
         /\ heapSpec' = IF specQ = None THEN heapSpec ELSE specQ
         /\ batches' = <<>> \/ (batches' = batches /\ step \in 1..3)
<1>1. /\ UNCHANGED <<screen, level, rescue, pc, spec, ring, waiting, status, cmds, orderly>>
      /\ frames' = 0 /\ specQ' = None
      /\ heapSpec' = IF specQ = None THEN heapSpec ELSE specQ
      /\ batches' = <<>> \/ (batches' = batches /\ step \in 1..3)
  BY DEF AudioTick, AudioFrame, LoadFinished, ResetFades, ResetIsSilent, HeapInit,
         NextTick, TakeSpec, Drain
<1>2. batches' \in Seq(Batch) /\ heapSpec' \in Specs
  BY <1>1, NoBatch DEF Typed
<1> QED BY <1>1, <1>2 DEF Typed

\* What a tick does to the reset: a batch stays only where the heap is rebuilt.
LEMMA AudioTickStage ==
  ASSUME Typed, Stage, AudioTick
  PROVE  Stage' /\ (batches' = <<>> \/ (batches' = batches /\ Rebuilding))
<1>1. specQ \in Specs \cup {None}
  BY DEF Typed
<1>2. /\ UNCHANGED <<pc, status, spec>> /\ frames' = 0 /\ specQ' = None
      /\ batches' = <<>> \/ (batches' = batches /\ step \in 1..3)
  BY AudioTickTypes
<1>3. CASE AudioFrame \/ \E t \in Track : LoadFinished(t)
  <2>1. step = 0 /\ UNCHANGED <<resetQ, specQ, heapSpec, step>> /\ batches' = <<>>
    BY <1>3 DEF AudioFrame, LoadFinished, Drain
  <2> QED BY <1>1, <1>2, <2>1 DEF Stage, Queued, Rebuilding, Answered, Rebuilt
<1>4. CASE ResetFades
  <2>1. /\ batches' = <<>> /\ TakeSpec /\ resetQ' = resetQ
        /\ \/ step = 0 /\ specQ # None /\ step' = 4
           \/ step = 4 /\ step' \in {3, 4}
           \/ step = 3 /\ step' = 3
    BY <1>4 DEF ResetFades, Drain
  <2>2. step' \in 1..4 /\ (Queued \/ Rebuilding) /\ status # "READY"
    BY <2>1 DEF Stage, Queued, Rebuilding, Answered, Rebuilt
  <2>3. Rebuilding'
    BY <1>2, <2>1, <2>2, AudioAssumption DEF TakeSpec, Queued, Rebuilding, Typed
  <2> QED BY <1>1, <1>2, <2>1, <2>2, <2>3 DEF Stage
<1>5. CASE ResetIsSilent
  <2>1. /\ TakeSpec /\ resetQ' = resetQ /\ batches' = batches
        /\ \/ step = 3 /\ step' = 2
           \/ step = 2 /\ step' \in {1, 2}
    BY <1>5 DEF ResetIsSilent
  <2>2. Rebuilding /\ status # "READY"
    BY <2>1 DEF Stage, Queued, Rebuilding, Answered, Rebuilt
  <2>3. Rebuilding'
    BY <1>2, <2>1, <2>2 DEF TakeSpec, Rebuilding
  <2> QED BY <1>1, <1>2, <2>1, <2>2, <2>3 DEF Stage
<1>6. CASE HeapInit
  <2>1. /\ batches' = batches /\ TakeSpec /\ step = 1 /\ step' = 0
        /\ resetQ' = IF resetQ = None THEN heapSpec' ELSE resetQ
    BY <1>6 DEF HeapInit
  <2>2. Rebuilding /\ status # "READY"
    BY <2>1 DEF Stage, Queued, Rebuilding, Answered, Rebuilt
  <2>3. Answered'
    BY <1>2, <2>1, <2>2 DEF TakeSpec, Rebuilding, Answered
  <2> QED BY <1>1, <1>2, <2>1, <2>2, <2>3 DEF Stage
<1> QED BY <1>3, <1>4, <1>5, <1>6 DEF AudioTick

-----------------------------------------------------------------------------
(* Every step                                                              *)

LEMMA InitInv == Init => Inv
<1> SUFFICES ASSUME Init PROVE Inv
  OBVIOUS
<1>1. Typed
  BY CommandTypes, NoBatch, AudioAssumption DEF Init, Typed
<1>2. Rebuilt /\ status = "READY" /\ pc = "tick"
  BY DEF Init, Rebuilt
<1> QED BY <1>1, <1>2 DEF Inv, Stage, Asked

LEMMA AudioTickKeeps ==
  ASSUME Inv, AudioTick
  PROVE  Inv'
<1>1. Typed' /\ UNCHANGED <<pc, status, spec, orderly, ring>>
  BY AudioTickTypes DEF Inv
<1>2. orderly => Stage' /\ Asked'
  BY <1>1, AudioTickStage DEF Inv, Asked
<1> QED BY <1>1, <1>2 DEF Inv

LEMMA NextInv ==
  ASSUME Inv, [Next]_vars
  PROVE  Inv'
<1>1. CASE PracticeStep
  BY <1>1, PracticeStepKeeps
<1>2. CASE WrongAnswer
  BY <1>2, WrongAnswerKeeps
<1>3. CASE AudioUpdateStep
  BY <1>3, UpdateKeeps, SequenceKeeps, ClearResetQueueKeeps, SendSpecKeeps,
     UpdateActiveSequencesStep DEF AudioUpdateStep
<1>4. CASE AudioTick
  BY <1>4, AudioTickKeeps
<1>5. CASE UNCHANGED vars
  <2>1. Typed'
    BY <1>5 DEF vars, practice, reset, thread, Inv, Typed
  <2>2. orderly' => Stage' /\ Asked'
    BY <1>5, StageKept DEF vars, reset, thread, Inv, Calm, Asked
  <2> QED BY <2>1, <2>2 DEF Inv
<1> QED BY <1>1, <1>2, <1>3, <1>4, <1>5 DEF Next

\* When the practice code goes on because the status is AUDIORESET_READY
\* (practice_level.c:64), the last reset is really over: no spec is on its way
\* to the audio thread, and the heap is that of the spec the game counts on.
\* So it is whenever that reset was asked for when the one before was over,
\* had room for its commands, and was announced by Audio_StartReset.
THEOREM AnnouncedMeansRebuiltHolds == Spec => []AnnouncedMeansRebuilt
<1>1. Inv => AnnouncedMeansRebuilt
  BY DEF Inv, Stage, Rebuilt, Settled, AnnouncedMeansRebuilt
<1>2. Init => Inv
  BY InitInv
<1>3. Inv /\ [Next]_vars => Inv'
  BY NextInv
<1> QED BY <1>1, <1>2, <1>3, PTL DEF Spec

-----------------------------------------------------------------------------
(* The batches                                                             *)

LEMMA InitBatches == Init => BatchesInv
BY NoBatch, AudioAssumption
DEF Init, BatchesInv, Few, Queued, Rebuilding, Answered

LEMMA BatchCount == Inv => Len(batches) \in Nat
BY AppendBatch DEF Inv, Typed

LEMMA BatchesFitFollows ==
  ASSUME Inv, BatchesInv
  PROVE  BatchesFit
<1>1. PICK n \in Nat : n = Len(batches)
  BY BatchCount
<1>2. orderly /\ pc \in {"commands", "reset"} => n <= 3
  BY <1>1 DEF BatchesInv, Few
<1>3. orderly /\ status # "READY" => n <= 3
  BY <1>1 DEF Inv, Stage, BatchesInv, Few
<1> QED BY <1>1, <1>2, <1>3 DEF BatchesFit

\* The stages exclude each other.
LEMMA RebuiltIsOver ==
  ASSUME Inv, Rebuilt
  PROVE  ~Queued /\ ~Rebuilding /\ ~Answered
BY AudioAssumption DEF Inv, Typed, Rebuilt, Queued, Rebuilding, Answered

\* Until the reset is answered nothing is added; the players' restart then adds
\* one batch to that of the frame of the reset.
LEMMA HandleResetBatches ==
  ASSUME Inv, BatchesInv, orderly, pc \notin {"commands", "reset"}, Calm,
         HandleReset \/ UNCHANGED <<status, resetQ, batches>>
  PROVE  /\ Len(batches') <= frames + 2 /\ Len(batches') \in Nat
         /\ Queued' => Len(batches') <= 3
         /\ Rebuilding' \/ Answered' => Len(batches') <= 1
<1>1. PICK n \in Nat : n = Len(batches)
  BY BatchCount
<1>2. /\ n <= frames + 2 /\ frames \in Nat
      /\ (Queued => n <= 3) /\ (Rebuilding \/ Answered => n <= 1)
  BY <1>1 DEF BatchesInv, Few
<1>3. \/ UNCHANGED <<status, resetQ, batches>>
      \/ /\ status' = "READY" /\ Answered /\ Rebuilt'
         /\ Len(batches) <= 3 => Len(batches') = Len(batches) + 1
  BY HandleResetStage DEF Inv
<1>4. CASE UNCHANGED <<status, resetQ, batches>>
  <2>1. /\ Len(batches') = n /\ (Queued' <=> Queued)
        /\ Rebuilding' \/ Answered' => Rebuilding \/ Answered
    BY <1>1, <1>4 DEF Calm, Queued, Rebuilding, Answered
  <2> QED BY <1>2, <2>1
<1>5. CASE /\ status' = "READY" /\ Answered /\ Rebuilt'
           /\ Len(batches) <= 3 => Len(batches') = Len(batches) + 1
  <2>1. Len(batches') = n + 1 /\ n <= 1
    BY <1>1, <1>2, <1>5
  <2>2. ~Queued' /\ ~Rebuilding' /\ ~Answered'
    BY <1>5, AudioAssumption
    DEF Inv, Typed, Calm, Rebuilt, Queued, Rebuilding, Answered
  <2> QED BY <1>2, <2>1, <2>2
<1> QED BY <1>3, <1>4, <1>5

\* The practice code starts a frame.
LEMMA PracticeStepBatches ==
  ASSUME FramesPerTick \in 1..2, Inv, BatchesInv, PracticeStep
  PROVE  BatchesInv'
<1>1. Serves
  BY PracticeStepServes
<1>2. /\ frames \in 0..1 /\ frames' = frames /\ Calm /\ orderly' = orderly
      /\ pc \in {"tick", "game"} /\ pc' \in {"game", "update"}
  BY <1>1 DEF Serves, BatchesInv
<1> SUFFICES ASSUME orderly PROVE Few'
  BY <1>2 DEF BatchesInv
<1> QED BY <1>1, <1>2, HandleResetBatches DEF Serves, Few

LEMMA UpdateBatches ==
  ASSUME Inv, BatchesInv, UpdateWaits \/ UpdateReady
  PROVE  BatchesInv'
<1>1. /\ pc = "update" /\ HandleReset /\ Calm /\ frames \in 0..1 /\ orderly' = orderly
      /\ \/ status' # "READY" /\ pc' = "tick" /\ frames' = frames + 1
         \/ status' = "READY" /\ pc' = "commands" /\ frames' = frames
  BY DEF UpdateWaits, UpdateReady, EndFrame, thread, Calm, BatchesInv
<1> SUFFICES ASSUME orderly PROVE Few'
  BY <1>1 DEF BatchesInv
<1>2. /\ Len(batches') <= frames + 2 /\ Len(batches') \in Nat
      /\ Queued' => Len(batches') <= 3
      /\ Rebuilding' \/ Answered' => Len(batches') <= 1
  BY <1>1, HandleResetBatches
<1>3. CASE status' # "READY"
  BY <1>1, <1>2, <1>3 DEF Few
<1>4. CASE status' = "READY"
  <2>1. ~Queued' /\ ~Rebuilding' /\ ~Answered'
    BY <1>1, <1>4, HandleResetStage, AudioAssumption
    DEF Inv, Typed, Stage, Calm, Rebuilt, Queued, Rebuilding, Answered
  <2> QED BY <1>1, <1>2, <1>4, <2>1 DEF Few
<1> QED BY <1>3, <1>4

LEMMA SequenceBatches ==
  ASSUME BatchesInv, PlaySequence \/ ResetSameSpec
  PROVE  BatchesInv'
<1>1. /\ UNCHANGED <<frames, pc, spec, status, resetQ, batches, specQ, heapSpec, step>>
      /\ orderly' = orderly
  BY DEF PlaySequence, ResetSameSpec, thread
<1> QED BY <1>1 DEF BatchesInv, Few, Queued, Rebuilding, Answered

LEMMA ClearResetQueueBatches ==
  ASSUME Inv, BatchesInv, ClearResetQueue
  PROVE  BatchesInv'
<1>1. /\ pc = "commands" /\ pc' = "reset" /\ frames' = frames
      /\ Inv' /\ (orderly' => Len(batches') <= 2 /\ Rebuilt')
  BY ClearResetQueueKeeps DEF ClearResetQueue
<1>2. orderly' => ~Queued' /\ ~Rebuilding' /\ ~Answered'
  BY <1>1, AudioAssumption DEF Inv, Typed, Rebuilt, Queued, Rebuilding, Answered
<1>3. PICK n \in Nat : n = Len(batches')
  BY <1>1, AppendBatch DEF Inv, Typed
<1>4. orderly' => n <= frames' + 2
  BY <1>1, <1>3 DEF BatchesInv
<1> QED BY <1>1, <1>2, <1>3, <1>4 DEF BatchesInv, Few

LEMMA SendSpecBatches ==
  ASSUME Inv, BatchesInv, SendSpec
  PROVE  BatchesInv'
<1>1. /\ pc = "reset" /\ pc' = "commands" /\ UNCHANGED <<frames, batches, orderly>>
      /\ Inv' /\ (orderly' => Queued' /\ status' # "READY")
  BY SendSpecKeeps DEF SendSpec
<1>2. orderly' => ~Rebuilding' /\ ~Answered'
  BY <1>1, AudioAssumption DEF Inv, Typed, Queued, Rebuilding, Answered
<1> QED BY <1>1, <1>2 DEF BatchesInv, Few

LEMMA UpdateActiveSequencesBatches ==
  ASSUME Inv, BatchesInv, UpdateActiveSequences
  PROVE  BatchesInv'
<1>1. /\ pc = "commands" /\ pc' = "tick" /\ frames \in 0..1 /\ frames' = frames + 1
      /\ UNCHANGED <<status, resetQ, specQ, heapSpec, step, spec, orderly>>
  BY DEF UpdateActiveSequences, EndFrame, BatchesInv
<1> SUFFICES ASSUME orderly PROVE Few'
  BY <1>1 DEF BatchesInv
<1>2. PICK n, m \in Nat : n = Len(batches) /\ m = Len(batches')
  BY BatchCount, UpdateActiveSequencesStep, AppendBatch DEF Inv, Typed
<1>3. /\ m <= n + 1 /\ n <= frames + 2 /\ (Queued => n <= 2)
      /\ Rebuilding \/ Answered => n <= 0
  BY <1>1, <1>2, UpdateActiveSequencesStep DEF BatchesInv, Few
<1>4. /\ Queued' => Queued
      /\ Rebuilding' \/ Answered' => Rebuilding \/ Answered
  BY <1>1 DEF Queued, Rebuilding, Answered
<1>5. m <= frames' + 2 /\ (Queued' => m <= 3) /\ (Rebuilding' \/ Answered' => m <= 1)
  BY <1>1, <1>3, <1>4
<1> QED BY <1>1, <1>2, <1>5 DEF Few

LEMMA AudioTickBatches ==
  ASSUME Inv, BatchesInv, AudioTick
  PROVE  BatchesInv'
<1>1. /\ UNCHANGED <<pc, status, orderly>> /\ frames' = 0 /\ specQ' = None
      /\ spec' = spec
  BY AudioTickTypes DEF Inv
<1> SUFFICES ASSUME orderly PROVE Few'
  BY <1>1 DEF BatchesInv
<1>2. batches' = <<>> \/ (batches' = batches /\ Rebuilding)
  BY AudioTickStage DEF Inv
<1>3. ~Queued'
  BY <1>1, AudioAssumption DEF Queued, Inv, Typed
<1>4. CASE batches' = <<>>
  BY <1>1, <1>3, <1>4, NoBatch DEF Few
<1>5. CASE batches' = batches /\ Rebuilding
  <2>1. pc # "reset"
    <3>1. step # 0 /\ Stage /\ Asked
      BY <1>5 DEF Inv, Rebuilding
    <3>2. status # "READY"
      BY <3>1 DEF Stage, Rebuilt
    <3> QED BY <3>1, <3>2, Zenon DEF Asked
  <2>2. PICK n \in Nat : n = Len(batches) /\ n = Len(batches')
    BY <1>5, BatchCount
  <2>3. n <= (IF pc = "commands" THEN 0 ELSE 1)
    BY <1>5, <2>2 DEF BatchesInv, Few
  <2> QED BY <1>1, <1>3, <2>1, <2>2, <2>3 DEF Few
<1> QED BY <1>2, <1>4, <1>5

\* No batch of sound commands finds gThreadCmdProcQueue full, not when the
\* audio thread takes none in a reset either: where the game draws no more than
\* two frames per audio tick, and the reset was asked for in an orderly way.
\* With a third frame the queue does fill.
THEOREM BatchesFitHolds ==
  ASSUME FramesPerTick \in 1..2
  PROVE  Spec => []BatchesFit
<1>1. Inv /\ BatchesInv => BatchesFit
  BY BatchesFitFollows
<1>2. Init => Inv /\ BatchesInv
  BY InitInv, InitBatches
<1>3. Inv /\ BatchesInv /\ [Next]_vars => Inv' /\ BatchesInv'
  <2> SUFFICES ASSUME Inv, BatchesInv, [Next]_vars PROVE Inv' /\ BatchesInv'
    OBVIOUS
  <2>1. Inv'
    BY NextInv
  <2>2. CASE UNCHANGED vars
    <3>1. BatchesInv'
      BY <2>2 DEF vars, reset, thread, BatchesInv, Few, Queued, Rebuilding, Answered
    <3> QED BY <2>1, <3>1
  <2>3. CASE PracticeStep
    BY <2>1, <2>3, PracticeStepBatches
  <2>4. CASE WrongAnswer
    <3>1. ~orderly /\ UNCHANGED <<frames, pc, orderly>>
      BY <2>4, WrongAnswerKeeps DEF WrongAnswer
    <3> QED BY <2>1, <3>1 DEF BatchesInv
  <2>5. CASE AudioUpdateStep
    BY <2>1, <2>5, UpdateBatches, SequenceBatches, ClearResetQueueBatches,
       SendSpecBatches, UpdateActiveSequencesBatches DEF AudioUpdateStep
  <2>6. CASE AudioTick
    BY <2>1, <2>6, AudioTickBatches
  <2> QED BY <2>2, <2>3, <2>4, <2>5, <2>6 DEF Next
<1> QED BY <1>1, <1>2, <1>3, PTL DEF Spec

-----------------------------------------------------------------------------
(* Induction, over sets of natural numbers: the provers cannot instantiate *)
(* the library's theorems, which are about operators.                      *)

LEMMA SetInduction ==
  ASSUME NEW T, 0 \in T, \A n \in Nat : n \in T => n + 1 \in T
  PROVE  Nat \subseteq T
<1> DEFINE Missing == {0..n : n \in Nat \ T}
<1> SUFFICES ASSUME Nat \ T # {} PROVE FALSE
  OBVIOUS
<1>1. Missing \subseteq FiniteSubsetsOf(Nat) /\ Missing # {}
  <2>1. \A n \in Nat : IsFiniteSet(0..n) /\ 0..n \in SUBSET Nat
    BY FS_Interval
  <2> QED BY <2>1 DEF FiniteSubsetsOf
<1>2. IsWellFoundedOn(StrictSubsetOrdering(Nat), FiniteSubsetsOf(Nat))
  BY FS_StrictSubsetOrderingWellFounded
<1>3. PICK x \in Missing : \A y \in Missing : <<y, x>> \notin StrictSubsetOrdering(Nat)
  <2> HIDE DEF Missing
  <2> QED BY <1>1, <1>2, WFMin
<1>4. PICK m \in Nat \ T : x = 0..m
  OBVIOUS
<1>5. m - 1 \in Nat \ T
  OBVIOUS
<1>6. <<0..(m - 1), x>> \in StrictSubsetOrdering(Nat)
  <2>1. 0..(m - 1) \subseteq 0..m /\ m \in 0..m /\ m \notin 0..(m - 1)
    BY <1>5
  <2>2. 0..(m - 1) \in SUBSET Nat /\ x \in SUBSET Nat
    BY <1>4, <1>5
  <2> QED BY <1>4, <2>1, <2>2 DEF StrictSubsetOrdering
<1> QED BY <1>3, <1>5, <1>6

LEMMA MaxIsLast ==
  ASSUME NEW k \in Nat, NEW s \in SUBSET (1..k), s # {}
  PROVE  Max(s) \in s /\ \A i \in s : i <= Max(s)
<1> DEFINE P(n) == \A r \in SUBSET (1..n) : r # {} => \E x \in r : \A y \in r : x >= y
           T == {n \in Nat : P(n)}
<1>1. P(0)
  <2>1. 1..0 = {}
    OBVIOUS
  <2> QED BY <2>1
<1>2. ASSUME NEW n \in Nat, P(n) PROVE P(n + 1)
  <2>1. ASSUME NEW r \in SUBSET (1..(n + 1)), r # {}
        PROVE  \E x \in r : \A y \in r : x >= y
    <3>1. CASE n + 1 \in r
      BY <3>1
    <3>2. CASE n + 1 \notin r
      <4>1. r \in SUBSET (1..n)
        BY <3>2
      <4> QED BY <1>2, <2>1, <4>1
    <3> QED BY <3>1, <3>2
  <2> QED BY <2>1
<1>3. P(k)
  <2> HIDE DEF P
  <2>1. Nat \subseteq T
    <3>1. 0 \in T /\ \A n \in Nat : n \in T => n + 1 \in T
      BY <1>1, <1>2
    <3> HIDE DEF T
    <3> QED BY <3>1, SetInduction
  <2> QED BY <2>1
<1>4. \E x \in s : \A y \in s : x >= y
  BY <1>3
<1>5. Max(s) \in s /\ \A y \in s : Max(s) >= y
  BY <1>4 DEF Max
<1> QED BY <1>5

-----------------------------------------------------------------------------
(* FoldLeft                                                                *)

\* One step of the function that FoldLeft is defined with.
Folded(g, F, e, q, s) ==
  g[s] = IF s = {} THEN e ELSE F[<<g[s \ {Max(s)}], q[Max(s)]>>]

\* There is such a function.
LEMMA FoldExists ==
  ASSUME NEW E, NEW C, NEW F \in [E \X C -> E], NEW e \in E, NEW q \in Seq(C)
  PROVE  \E g \in [SUBSET (1..Len(q)) -> E] :
           \A s \in SUBSET (1..Len(q)) : Folded(g, F, e, q, s)
<1> DEFINE P(n) == \E g \in [SUBSET (1..n) -> E] :
                     \A s \in SUBSET (1..n) : Folded(g, F, e, q, s)
           T == {n \in Nat : n <= Len(q) => P(n)}
<1>1. P(0)
  <2> DEFINE g == [s \in {{}} |-> e]
  <2>1. SUBSET (1..0) = {{}}
    OBVIOUS
  <2>2. g \in [SUBSET (1..0) -> E] /\ \A s \in SUBSET (1..0) : Folded(g, F, e, q, s)
    BY <2>1 DEF Folded
  <2> QED BY <2>2
<1>2. ASSUME NEW n \in Nat, n + 1 <= Len(q), P(n) PROVE P(n + 1)
  <2>1. PICK g \in [SUBSET (1..n) -> E] :
          \A s \in SUBSET (1..n) : Folded(g, F, e, q, s)
    BY <1>2
  <2>2. q[n + 1] \in C
    BY <1>2
  <2> DEFINE h == [s \in SUBSET (1..(n + 1)) |->
                    IF n + 1 \in s THEN F[<<g[s \ {n + 1}], q[n + 1]>>] ELSE g[s]]
  <2>3. \A s \in SUBSET (1..(n + 1)) : s \ {n + 1} \in SUBSET (1..n)
    OBVIOUS
  <2>4. \A s \in SUBSET (1..n) : n + 1 \notin s /\ s \in SUBSET (1..(n + 1))
    OBVIOUS
  <2>5. h \in [SUBSET (1..(n + 1)) -> E]
    <3> SUFFICES ASSUME NEW s \in SUBSET (1..(n + 1))
                 PROVE  (IF n + 1 \in s THEN F[<<g[s \ {n + 1}], q[n + 1]>>]
                                         ELSE g[s]) \in E
      OBVIOUS
    <3>1. s \ {n + 1} \in SUBSET (1..n) /\ (n + 1 \notin s => s \in SUBSET (1..n))
      BY <2>3
    <3> QED BY <2>2, <3>1
  <2>6. \A s \in SUBSET (1..n) : h[s] = g[s]
    BY <2>4
  <2>7. ASSUME NEW s \in SUBSET (1..(n + 1)) PROVE Folded(h, F, e, q, s)
    <3>1. CASE n + 1 \in s
      <4>1. Max(s) = n + 1
        <5>1. Max(s) \in s /\ \A i \in s : i <= Max(s)
          <6>1. n + 1 \in Nat /\ s # {} /\ s \in SUBSET (1..(n + 1))
            BY <3>1
          <6> HIDE DEF P, T, h
          <6> QED BY <6>1, MaxIsLast
        <5>2. Max(s) \in 1..(n + 1) /\ n + 1 <= Max(s)
          BY <3>1, <5>1
        <5> QED BY <5>2
      <4>2. h[s] = F[<<g[s \ {n + 1}], q[n + 1]>>]
        BY <3>1
      <4>3. h[s \ {n + 1}] = g[s \ {n + 1}]
        BY <2>3, <2>6
      <4> HIDE DEF h
      <4> QED BY <3>1, <4>1, <4>2, <4>3 DEF Folded
    <3>2. CASE n + 1 \notin s
      <4>1. s \in SUBSET (1..n)
        BY <3>2
      <4>2. h[s] = g[s] /\ Folded(g, F, e, q, s)
        BY <2>1, <2>6, <4>1
      <4>3. h[s \ {Max(s)}] = g[s \ {Max(s)}]
        <5>1. s \ {Max(s)} \in SUBSET (1..n)
          BY <4>1
        <5> HIDE DEF h
        <5> QED BY <2>6, <5>1
      <4> HIDE DEF h
      <4> QED BY <4>2, <4>3 DEF Folded
    <3> QED BY <3>1, <3>2
  <2> HIDE DEF h
  <2> QED BY <2>5, <2>7
<1>3. P(Len(q))
  <2> HIDE DEF P
  <2>1. Nat \subseteq T
    <3>1. 0 \in T
      BY <1>1
    <3>2. ASSUME NEW n \in Nat, n \in T PROVE n + 1 \in T
      BY <1>2, <3>2
    <3> HIDE DEF T
    <3> QED BY <3>1, <3>2, SetInduction
  <2> QED BY <2>1
<1> QED BY <1>3

\* What each element keeps, all of them keep.
LEMMA FoldKeeps ==
  ASSUME NEW n \in Nat, NEW E, NEW f, f[{}] \in E,
         \A i \in 1..n : f[(1..i) \ {Max(1..i)}] \in E => f[1..i] \in E
  PROVE  f[1..n] \in E
<1> DEFINE T == {k \in Nat : k <= n => f[1..k] \in E}
<1>1. 0 \in T
  <2>1. 1..0 = {}
    OBVIOUS
  <2> QED BY <2>1
<1>2. ASSUME NEW k \in Nat, k \in T PROVE k + 1 \in T
  <2>1. Max(1..(k + 1)) = k + 1
    <3> DEFINE s == 1..(k + 1)
    <3>1. k + 1 \in s /\ s \in SUBSET (1..(k + 1)) /\ s # {} /\ k + 1 \in Nat
      <4>1. k + 1 \in 1..(k + 1) /\ k + 1 \in Nat
        OBVIOUS
      <4> QED BY <4>1
    <3>2. Max(s) \in s /\ \A i \in s : i <= Max(s)
      <4> HIDE DEF s, T
      <4> QED BY <3>1, MaxIsLast
    <3>3. k + 1 <= Max(1..(k + 1))
      BY <3>1, <3>2
    <3> QED BY <3>2, <3>3
  <2>2. (1..(k + 1)) \ {k + 1} = 1..k
    OBVIOUS
  <2>3. k + 1 <= n => k <= n /\ k + 1 \in 1..n
    OBVIOUS
  <2> QED BY <1>2, <2>1, <2>2, <2>3
<1> HIDE DEF T
<1>3. Nat \subseteq T
  BY <1>1, <1>2, SetInduction
<1> QED BY <1>3 DEF T

-----------------------------------------------------------------------------
(* The music player: TypeOK of what the audio thread makes of the commands   *)

Engines == [playing : Track \cup {None}, muted : BOOLEAN, loads : [Track -> Nat],
            font : [Track -> {"none", "loading", "loaded"}], answers : 0..Answers,
            stopped : BOOLEAN, left : Seq(Command)]

\* A stop is not executed.
Executed == {<<"disable">>, <<"mute">>, <<"unmute">>} \cup {"discard", "load", "init"} \X Track

LEMMA AnswerType ==
  ASSUME NEW e \in Engines PROVE Answer(e) \in Engines
<1> DEFINE n == IF e.answers < Answers THEN e.answers + 1 ELSE e.answers
<1>1. n \in 0..Answers
  BY AudioAssumption DEF Engines
<1>2. Answer(e) = [e EXCEPT !.answers = n]
  BY DEF Answer
<1> HIDE DEF n
<1> QED BY <1>1, <1>2 DEF Engines

LEMMA ExecuteType ==
  ASSUME NEW e \in Engines, NEW c \in Executed PROVE Execute(e, c) \in Engines
<1>1. CASE c[1] \in {"disable", "mute", "unmute"}
  BY <1>1 DEF Engines, Execute
<1>2. CASE c[1] = "init" \/ c[1] = "discard" \/ c[1] = "load"
  <2>1. c[2] \in Track
    BY <1>2 DEF Executed
  <2>2. CASE c[1] = "init"
    BY <2>1, <2>2 DEF Engines, Execute
  <2>3. CASE c[1] = "discard"
    BY <2>1, <2>3 DEF Engines, Execute
  <2>4. CASE c[1] = "load"
    <3>1. [e EXCEPT !.font[c[2]] = "loading", !.loads[c[2]] = @ + 1] \in Engines
      <4>1. [e.loads EXCEPT ![c[2]] = @ + 1] \in [Track -> Nat]
        BY <2>1 DEF Engines
      <4>2. [e.font EXCEPT ![c[2]] = "loading"]
              \in [Track -> {"none", "loading", "loaded"}]
        BY <2>1 DEF Engines
      <4> QED BY <4>1, <4>2 DEF Engines
    <3> QED BY <2>4, <3>1, AnswerType DEF Execute
  <2> QED BY <1>2, <2>2, <2>3, <2>4
<1> QED BY <1>1, <1>2 DEF Executed

LEMMA ExecuteAllType ==
  ASSUME NEW e \in Engines, NEW q \in Seq(Executed)
  PROVE  FoldLeft(Execute, e, q) \in Engines
<1> DEFINE D == 1..Len(q)
           Step(g, s) == IF s = {} THEN e ELSE Execute(g[s \ {Max(s)}], q[Max(s)])
           f == CHOOSE g : g = [s \in SUBSET D |-> Step(g, s)]
           F == [p \in Engines \X Executed |-> Execute(p[1], p[2])]
<1>1. FoldLeft(Execute, e, q) = f[D]
  <2>1. DOMAIN q = D
    OBVIOUS
  <2> QED BY <2>1, Zenon DEF FoldLeft, MapThenFoldSet
<1>2. \A s \in SUBSET D : s # {} => Max(s) \in D /\ q[Max(s)] \in Executed
  <2> SUFFICES ASSUME NEW s \in SUBSET D, s # {}
               PROVE  Max(s) \in D /\ q[Max(s)] \in Executed
    OBVIOUS
  <2>1. Len(q) \in Nat /\ s \in SUBSET (1..Len(q))
    OBVIOUS
  <2>2. Max(s) \in s
    <3> HIDE DEF D, f, F, Step
    <3> QED BY <2>1, MaxIsLast
  <2>3. \A i \in D : q[i] \in Executed
    OBVIOUS
  <2> HIDE DEF D
  <2> QED BY <2>2, <2>3
<1>3. f = [s \in SUBSET D |-> Step(f, s)]
  <2>1. F \in [Engines \X Executed -> Engines]
    BY ExecuteType
  <2>2. PICK g \in [SUBSET D -> Engines] : \A s \in SUBSET D : Folded(g, F, e, q, s)
    BY <2>1, FoldExists
  <2>3. ASSUME NEW s \in SUBSET D PROVE g[s] = Step(g, s)
    BY <1>2, <2>2 DEF Folded
  <2>4. g = [s \in SUBSET D |-> Step(g, s)]
    BY <2>2, <2>3
  <2> HIDE DEF Step
  <2> QED BY <2>4
<1>4. f[{}] \in Engines
  BY <1>3
<1>5. \A i \in 1..Len(q) : f[(1..i) \ {Max(1..i)}] \in Engines => f[1..i] \in Engines
  <2> SUFFICES ASSUME NEW i \in 1..Len(q), f[(1..i) \ {Max(1..i)}] \in Engines
               PROVE  f[1..i] \in Engines
    OBVIOUS
  <2>1. 1..i \in SUBSET D /\ 1..i # {}
    OBVIOUS
  <2>2. f[1..i] = Execute(f[(1..i) \ {Max(1..i)}], q[Max(1..i)])
    BY <1>3, <2>1
  <2>3. q[Max(1..i)] \in Executed
    BY <1>2, <2>1
  <2> HIDE DEF f
  <2> QED BY <2>2, <2>3, ExecuteType
<1> HIDE DEF f
<1> QED BY <1>1, <1>4, <1>5, FoldKeeps

LEMMA EarliestIsFirst ==
  ASSUME NEW n \in Nat, NEW S \in SUBSET (1..n), S # {}
  PROVE  \E i \in S : \A j \in S : i <= j
<1> DEFINE M == {n + 1 - i : i \in S}
<1>1. M \in SUBSET (1..n) /\ M # {}
  <2>1. \A i \in 1..n : n + 1 - i \in 1..n
    OBVIOUS
  <2>2. PICK i \in S : TRUE
    OBVIOUS
  <2>3. n + 1 - i \in M
    OBVIOUS
  <2> QED BY <2>1, <2>3
<1>2. Max(M) \in M /\ \A i \in M : i <= Max(M)
  <2> HIDE DEF M
  <2> QED BY <1>1, MaxIsLast
<1>3. PICK i \in S : Max(M) = n + 1 - i
  BY <1>2
<1>4. \A j \in S : n + 1 - j <= n + 1 - i
  BY <1>2, <1>3
<1> QED BY <1>4

LEMMA ProcessCmdsType ==
  ASSUME NEW e \in Engines, NEW b \in Batch PROVE ProcessCmds(e, b) \in Engines
<1> DEFINE all == IF e.stopped THEN e.left \o b.skipped \o b.queued ELSE b.queued
           stops == {i \in DOMAIN all : all[i][1] = "STOP_AUDIOCMDS"}
           end == IF stops = {} THEN Len(all) + 1
                  ELSE CHOOSE i \in stops : \A j \in stops : i <= j
           run == SubSeq(all, 1, end - 1)
           left == SubSeq(all, end + 1, Len(all))
<1>1. all \in Seq(Command)
  <2>1. e.left \in Seq(Command) /\ b.skipped \in Seq(Command) /\ b.queued \in Seq(Command)
    BY DEF Engines, Batch
  <2> QED BY <2>1
<1>2. ProcessCmds(e, b) = [FoldLeft(Execute, e, run) EXCEPT
                             !.stopped = stops # {}, !.left = left]
  BY DEF ProcessCmds
<1> HIDE DEF all
<1>3. PICK n \in Nat : n = Len(all) /\ DOMAIN all = 1..n
  BY <1>1
<1>4. end \in 1..(n + 1) /\ \A i \in stops : end <= i
  <2>1. stops \in SUBSET (1..n)
    BY <1>3
  <2>2. CASE stops = {}
    BY <1>3, <2>2
  <2>3. CASE stops # {}
    <3>1. \E i \in stops : \A j \in stops : i <= j
      <4> HIDE DEF stops
      <4> QED BY <2>1, <2>3, EarliestIsFirst
    <3>2. end \in stops /\ \A j \in stops : end <= j
      BY <2>3, <3>1
    <3> HIDE DEF end, stops
    <3>3. end \in 1..n /\ 1..n \subseteq 1..(n + 1)
      BY <2>1, <3>2
    <3> QED BY <3>2, <3>3
  <2> QED BY <2>2, <2>3
<1>5. \A i \in 1..(end - 1) : i \in 1..n /\ all[i] \in Executed
  <2> SUFFICES ASSUME NEW i \in 1..(end - 1) PROVE i \in 1..n /\ all[i] \in Executed
    OBVIOUS
  <2> HIDE DEF end
  <2>1. i \in 1..n /\ i \notin stops
    BY <1>4
  <2>2. all[i] \in Command /\ all[i][1] # "STOP_AUDIOCMDS"
    BY <1>1, <1>3, <2>1
  <2> QED BY <2>1, <2>2 DEF Command, Executed
<1> HIDE DEF end, stops
<1>6. run \in Seq(Executed)
  <2>1. run = [i \in 1..(end - 1) |-> all[i]]
    BY <1>1, <1>3, <1>4
  <2> HIDE DEF run
  <2>2. end - 1 \in Nat
    BY <1>4
  <2> QED BY <1>5, <2>1, <2>2
<1>7. left \in Seq(Command)
  BY <1>1, <1>3, <1>4
<1> HIDE DEF run, left
<1>8. FoldLeft(Execute, e, run) \in Engines
  BY <1>6, ExecuteAllType
<1> QED BY <1>2, <1>7, <1>8 DEF Engines

LEMMA ProcessAllType ==
  ASSUME NEW e \in Engines, NEW q \in Seq(Batch)
  PROVE  FoldLeft(ProcessCmds, e, q) \in Engines
<1> DEFINE D == 1..Len(q)
           Step(g, s) == IF s = {} THEN e ELSE ProcessCmds(g[s \ {Max(s)}], q[Max(s)])
           f == CHOOSE g : g = [s \in SUBSET D |-> Step(g, s)]
           F == [p \in Engines \X Batch |-> ProcessCmds(p[1], p[2])]
<1>1. FoldLeft(ProcessCmds, e, q) = f[D]
  <2>1. DOMAIN q = D
    OBVIOUS
  <2> QED BY <2>1, Zenon DEF FoldLeft, MapThenFoldSet
<1>2. \A s \in SUBSET D : s # {} => Max(s) \in D /\ q[Max(s)] \in Batch
  <2> SUFFICES ASSUME NEW s \in SUBSET D, s # {}
               PROVE  Max(s) \in D /\ q[Max(s)] \in Batch
    OBVIOUS
  <2>1. Len(q) \in Nat /\ s \in SUBSET (1..Len(q))
    OBVIOUS
  <2>2. Max(s) \in s
    <3> HIDE DEF D, f, F, Step
    <3> QED BY <2>1, MaxIsLast
  <2>3. \A i \in D : q[i] \in Batch
    OBVIOUS
  <2> HIDE DEF D
  <2> QED BY <2>2, <2>3
<1>3. f = [s \in SUBSET D |-> Step(f, s)]
  <2>1. F \in [Engines \X Batch -> Engines]
    BY ProcessCmdsType
  <2>2. PICK g \in [SUBSET D -> Engines] : \A s \in SUBSET D : Folded(g, F, e, q, s)
    BY <2>1, FoldExists
  <2>3. ASSUME NEW s \in SUBSET D PROVE g[s] = Step(g, s)
    BY <1>2, <2>2 DEF Folded
  <2>4. g = [s \in SUBSET D |-> Step(g, s)]
    BY <2>2, <2>3
  <2> HIDE DEF Step
  <2> QED BY <2>4
<1>4. f[{}] \in Engines
  BY <1>3
<1>5. \A i \in 1..Len(q) : f[(1..i) \ {Max(1..i)}] \in Engines => f[1..i] \in Engines
  <2> SUFFICES ASSUME NEW i \in 1..Len(q), f[(1..i) \ {Max(1..i)}] \in Engines
               PROVE  f[1..i] \in Engines
    OBVIOUS
  <2>1. 1..i \in SUBSET D /\ 1..i # {}
    OBVIOUS
  <2>2. f[1..i] = ProcessCmds(f[(1..i) \ {Max(1..i)}], q[Max(1..i)])
    BY <1>3, <2>1
  <2>3. q[Max(1..i)] \in Batch
    BY <1>2, <2>1
  <2> HIDE DEF f
  <2> QED BY <2>2, <2>3, ProcessCmdsType
<1> HIDE DEF f
<1> QED BY <1>1, <1>4, <1>5, FoldKeeps

-----------------------------------------------------------------------------
(* The types of all variables                                              *)

\* The rest of the types: they hold with Typed, that is, with Inv.
RestInv ==
  /\ level \in Levels \cup {None} /\ song \in Track \cup {None}
  /\ preview \in [playing : BOOLEAN, dirty : BOOLEAN, pending : BOOLEAN]
  /\ lastSpec \in Specs \cup {None} /\ prev \in Track \cup {None}
  /\ frames \in 0..FramesPerTick /\ (pc # "tick" => frames < FramesPerTick)
  /\ Len(batches) <= 4 /\ resetQ \in Specs \cup {None}
  /\ step \in 0..4 /\ fade \in Nat /\ engine \in Engines

LEMMA TypesFollow == Inv /\ RestInv => TypeOK
<1> SUFFICES ASSUME Inv, RestInv PROVE TypeOK
  OBVIOUS
<1> QED BY DEF Inv, Typed, RestInv, TypeOK, RingOf, Batch, Engines

LEMMA InitRest == Init => RestInv
<1> SUFFICES ASSUME Init PROVE RestInv
  OBVIOUS
<1>1. engine \in Engines
  BY AudioAssumption DEF Init, Engines
<1> QED BY <1>1, NoBatch, AudioAssumption DEF Init, RestInv, NoPreview

\* The game's side of the screen.
SelectTypes ==
  /\ level' \in Levels \cup {None} /\ song' \in Track \cup {None}
  /\ preview' \in [playing : BOOLEAN, dirty : BOOLEAN, pending : BOOLEAN]
  /\ lastSpec' \in Specs \cup {None}

LEMMA LevelSelectRest ==
  ASSUME RestInv, NEW s \in Track, LevelSelect(s)
  PROVE  SelectTypes
<1> DEFINE Preview == [playing : BOOLEAN, dirty : BOOLEAN, pending : BOOLEAN]
           dirty == preview.dirty \/ s # song \/ ~preview.playing
<1>1. preview' \in Preview
  <2>1. dirty \in BOOLEAN
    OBVIOUS
  <2>2. \/ preview' = preview
        \/ preview' = [preview EXCEPT !.dirty = dirty]
        \/ preview' = [playing |-> TRUE, dirty |-> FALSE, pending |-> TRUE]
        \/ preview' = [playing |-> TRUE, dirty |-> FALSE, pending |-> FALSE]
    BY Zenon DEF LevelSelect
  <2>3. preview \in Preview
    BY DEF RestInv
  <2>4. /\ \A p \in Preview, d \in BOOLEAN : [p EXCEPT !.dirty = d] \in Preview
        /\ [playing |-> TRUE, dirty |-> FALSE, pending |-> TRUE] \in Preview
        /\ [playing |-> TRUE, dirty |-> FALSE, pending |-> FALSE] \in Preview
    OBVIOUS
  <2> HIDE DEF dirty, Preview
  <2> QED BY <2>1, <2>2, <2>3, <2>4, Zenon
<1>2. lastSpec' \in Specs \cup {None}
  BY AudioAssumption DEF LevelSelect, RestInv
<1> QED BY <1>1, <1>2 DEF LevelSelect, RestInv, SelectTypes

LEMMA RequestRest ==
  ASSUME RestInv, NEW l \in Levels, LaunchLevel(l) \/ RequestLoad(l)
  PROVE  SelectTypes
<1>1. level' = l /\ l \in Track /\ SpecOf[l] \in Specs
  BY AudioAssumption DEF LaunchLevel, RequestLoad
<1>2. CASE LaunchLevel(l)
  <2>1. /\ song' = None /\ lastSpec' = SpecOf[l]
        /\ preview' = [playing |-> FALSE, dirty |-> FALSE, pending |-> FALSE]
    BY <1>2 DEF LaunchLevel, NoPreview
  <2> QED BY <1>1, <2>1 DEF SelectTypes
<1>3. CASE RequestLoad(l)
  <2>1. UNCHANGED <<song, preview, lastSpec>>
    BY <1>3 DEF RequestLoad
  <2> QED BY <1>1, <2>1 DEF RestInv, SelectTypes
<1> QED BY <1>2, <1>3

LEMMA PracticeStepRest ==
  ASSUME Inv, RestInv, PracticeStep
  PROVE  RestInv'
<1>1. Serves
  BY PracticeStepServes
<1>2. Len(batches') <= 4 /\ resetQ' \in Specs \cup {None}
  <2>1. CASE UNCHANGED <<status, resetQ, batches>>
    BY <2>1 DEF RestInv
  <2>2. CASE HandleReset
    BY <2>2, HandleResetTypes DEF Inv, RestInv
  <2> QED BY <1>1, <2>1, <2>2 DEF Serves
<1>3. SelectTypes
  <2>1. CASE BgmRescue \/ OtherFrame \/ EnterLevel \/ Pause \/ Unpause \/ LoadSlot
    <3>1. UNCHANGED <<level, song, preview, lastSpec>>
      BY <2>1 DEF BgmRescue, OtherFrame, EnterLevel, Pause, Unpause, LoadSlot, practice
    <3> QED BY <3>1 DEF RestInv, SelectTypes
  <2>2. ASSUME NEW s \in Track, LeaveLevel(s) PROVE SelectTypes
    BY <2>2 DEF LeaveLevel, NoPreview, SelectTypes
  <2> QED BY <2>1, <2>2, LevelSelectRest, RequestRest DEF PracticeStep
<1> QED BY <1>1, <1>2, <1>3 DEF RestInv, Serves, Calm, SelectTypes

\* A frame ends with one frame more.
LEMMA EndFrameRest ==
  ASSUME RestInv, pc # "tick", EndFrame
  PROVE  frames' \in 0..FramesPerTick /\ pc' = "tick"
BY AudioAssumption DEF RestInv, EndFrame

LEMMA UpdateActiveSequencesRest ==
  ASSUME Inv, RestInv, UpdateActiveSequences
  PROVE  RestInv'
<1>1. /\ pc = "commands" /\ EndFrame
      /\ UNCHANGED <<practice, resetQ, specQ, heapSpec, step, fade>>
  BY DEF UpdateActiveSequences
<1>2. frames' \in 0..FramesPerTick /\ pc' = "tick"
  BY <1>1, EndFrameRest
<1>3. Len(batches') <= 4
  BY UpdateActiveSequencesStep DEF RestInv
<1>4. CASE waiting # None /\ engine.answers > 0
  <2>1. engine' = [engine EXCEPT !.answers = @ - 1] /\ prev' = waiting
    BY <1>4 DEF UpdateActiveSequences
  <2>2. waiting \in Track
    BY <1>4 DEF Inv, Typed
  <2>3. engine' \in Engines
    <3>1. engine \in Engines /\ engine.answers \in 0..Answers
      BY DEF RestInv, Engines
    <3>2. \A n \in 0..Answers : n > 0 => n - 1 \in 0..Answers
      BY AudioAssumption
    <3>3. engine.answers - 1 \in 0..Answers
      BY <1>4, <3>1, <3>2
    <3> QED BY <2>1, <3>1, <3>3 DEF Engines
  <2> QED BY <1>1, <1>2, <1>3, <2>1, <2>2, <2>3 DEF RestInv, practice
<1>5. CASE ~(waiting # None /\ engine.answers > 0)
  <2>1. UNCHANGED <<engine, prev>>
    BY <1>5 DEF UpdateActiveSequences
  <2> QED BY <1>1, <1>2, <1>3, <2>1 DEF RestInv, practice
<1> QED BY <1>4, <1>5

LEMMA AudioUpdateStepRest ==
  ASSUME Inv, RestInv, AudioUpdateStep
  PROVE  RestInv'
<1>1. CASE UpdateWaits \/ UpdateReady
  <2>1. /\ pc = "update" /\ HandleReset
        /\ UNCHANGED <<practice, prev, specQ, thread>>
        /\ EndFrame \/ (pc' # "tick" /\ frames' = frames)
    BY <1>1 DEF UpdateWaits, UpdateReady
  <2>2. Len(batches') <= 4 /\ resetQ' \in Specs \cup {None}
    BY <2>1, HandleResetTypes DEF Inv, RestInv
  <2>3. frames' \in 0..FramesPerTick /\ (pc' # "tick" => frames' < FramesPerTick)
    BY <2>1, EndFrameRest DEF RestInv
  <2> QED BY <2>1, <2>2, <2>3 DEF RestInv, practice, thread
<1>2. CASE PlaySequence \/ ResetSameSpec
  BY <1>2 DEF PlaySequence, ResetSameSpec, RestInv, practice, thread
<1>3. CASE ClearResetQueue \/ SendSpec
  <2>1. /\ UNCHANGED <<practice, frames, batches, thread>> /\ pc # "tick"
        /\ resetQ' \in {None, resetQ} /\ prev' \in {None, prev}
    BY <1>3 DEF ClearResetQueue, SendSpec
  <2> QED BY <2>1 DEF RestInv, practice, thread
<1> QED BY <1>1, <1>2, <1>3, UpdateActiveSequencesRest DEF AudioUpdateStep

LEMMA WrongAnswerRest ==
  ASSUME RestInv, WrongAnswer
  PROVE  RestInv'
BY DEF RestInv, WrongAnswer, practice, thread

\* What the audio thread does to the engine, whether it takes commands or not.
LEMMA CancelledType == engine \in Engines => Cancelled \in Engines
BY DEF Cancelled, Engines

LEMMA FinishType ==
  ASSUME engine \in Engines, NEW t \in Loading
  PROVE  Finish(engine, t) \in Engines
<1> DEFINE e == [engine EXCEPT !.loads[t] = @ - 1, !.font[t] = "loaded"]
<1>1. t \in Track /\ engine.loads[t] - 1 \in Nat
  BY DEF Loading, Engines
<1>2. [engine.loads EXCEPT ![t] = @ - 1] \in [Track -> Nat]
  BY <1>1 DEF Engines
<1>3. [engine.font EXCEPT ![t] = "loaded"] \in [Track -> {"none", "loading", "loaded"}]
  BY <1>1 DEF Engines
<1>4. e \in Engines
  BY <1>2, <1>3 DEF Engines
<1> QED BY <1>4, AnswerType DEF Finish

LEMMA DrainRest ==
  ASSUME Inv, NEW e \in Engines, Drain(e)
  PROVE  engine' \in Engines /\ Len(batches') <= 4
BY ProcessAllType, NoBatch DEF Drain, Inv, Typed

LEMMA AudioTickRest ==
  ASSUME Inv, RestInv, AudioTick
  PROVE  RestInv'
<1>1. UNCHANGED <<level, song, preview, lastSpec, prev>> /\ frames' = 0
  BY DEF AudioTick, AudioFrame, LoadFinished, ResetFades, ResetIsSilent, HeapInit,
         NextTick
<1>2. /\ 0 \in 0..FramesPerTick /\ 0 < FramesPerTick /\ engine \in Engines
      /\ Fade[2] \in Nat /\ Fade[3] \in Nat /\ Fade[4] \in Nat
  BY AudioAssumption DEF RestInv
<1>3. engine' \in Engines /\ Len(batches') <= 4
  <2>1. CASE AudioFrame
    BY <1>2, <2>1, DrainRest DEF AudioFrame
  <2>2. ASSUME NEW t \in Track, LoadFinished(t) PROVE <1>3
    BY <1>2, <2>2, FinishType, DrainRest DEF LoadFinished
  <2>3. CASE ResetFades
    <3>1. Cancelled \in Engines /\ Silence(Cancelled) \in Engines
      BY <1>2, CancelledType DEF Silence, Engines
    <3> QED BY <2>3, <3>1, DrainRest DEF ResetFades
  <2>4. CASE ResetIsSilent
    BY <1>2, <2>4, CancelledType DEF ResetIsSilent, RestInv
  <2>5. CASE HeapInit
    <3>1. [Cancelled EXCEPT !.font = [t \in Track |-> "none"]] \in Engines
      BY <1>2, CancelledType DEF Engines
    <3> QED BY <2>5, <3>1 DEF HeapInit, RestInv
  <2> QED BY <2>1, <2>2, <2>3, <2>4, <2>5 DEF AudioTick
<1>4. step' \in 0..4 /\ fade' \in Nat
  <2>1. CASE AudioFrame \/ \E t \in Track : LoadFinished(t)
    BY <2>1 DEF AudioFrame, LoadFinished, RestInv
  <2>2. CASE ResetFades
    BY <1>2, <2>2 DEF ResetFades, RestInv
  <2>3. CASE ResetIsSilent
    BY <1>2, <2>3 DEF ResetIsSilent, RestInv
  <2>4. CASE HeapInit
    BY <2>4 DEF HeapInit
  <2> QED BY <2>1, <2>2, <2>3, <2>4 DEF AudioTick
<1>5. resetQ' \in Specs \cup {None}
  <2>1. heapSpec' \in Specs
    BY AudioTickTypes DEF Inv, Typed
  <2>2. resetQ' \in {resetQ, heapSpec'}
    BY DEF AudioTick, AudioFrame, LoadFinished, ResetFades, ResetIsSilent, HeapInit
  <2> QED BY <2>1, <2>2 DEF RestInv
<1>6. pc' # "tick" => frames' < FramesPerTick
  BY <1>1, <1>2
<1> QED BY <1>1, <1>2, <1>3, <1>4, <1>5, <1>6 DEF RestInv

\* Every variable keeps its type: the queue of batches has at most its four
\* entries (gThreadCmdProcQueue), and the counters of loads, answers and fades
\* stay within theirs, through whatever commands the audio thread executes in a
\* batch, in every reset, orderly or not.
THEOREM AudioTypesHold == Spec => []TypeOK
<1>1. Inv /\ RestInv => TypeOK
  BY TypesFollow
<1>2. Init => Inv /\ RestInv
  BY InitInv, InitRest
<1>3. Inv /\ RestInv /\ [Next]_vars => Inv' /\ RestInv'
  <2> SUFFICES ASSUME Inv, RestInv, [Next]_vars
               PROVE  Inv' /\ RestInv'
    OBVIOUS
  <2>1. Inv'
    BY NextInv
  <2>2. CASE UNCHANGED vars
    <3>1. RestInv'
      BY <2>2 DEF vars, practice, reset, thread, RestInv
    <3> QED BY <2>1, <3>1
  <2> QED BY <2>1, <2>2, PracticeStepRest, AudioUpdateStepRest, WrongAnswerRest,
             AudioTickRest DEF Next
<1> QED BY <1>1, <1>2, <1>3, PTL DEF Spec
=============================================================================

# A TLA+ verification of the Star Fox 64 practice ROM

The practice ROM adds save states, frame advance, input macros, a level select
and SD-card saves to the game. Its own code runs once per frame, in a fixed order,
inside the game's loop (`src/src/engine/fox_game.c`) on the graphics thread. What is
hard about that part is *order over many frames*: a load asks the engine for another
level and is finished frames later, from buffers other operations share; a macro
writes into the very pad the rest of the frame reads; a frozen game stops the clock
its own time-outs use; and the player may press any key at any point in between.

Below the frame loop there is real concurrency: five threads of the console, two
processors they feed, the PI bus that the SD card shares with the audio DMA, an
EEPROM that takes 15 ms per block, and an audio thread that rebuilds its heap while
the practice code asks for music.

The modules here are translated from the C code. `PROJECT.json` maps each
definition to the lines it stands for, lists the runs, and lists the hazards each
property is aimed at.

## The system

| Component | State | Operations | Talks to |
|---|---|---|---|
| engine hook (`fox_game.c`, `fox_play.c`, `sys_joybus.c`) | pad, game and play state, level, phase, requested level, frame count | poll, game-state switch, scene change, `Play_Main`, draw | calls every part below, in order |
| `practice_main.c` | – | `Practice_Update`: the order of the parts, the hotkeys | all |
| `practice_frame_advance.c`, `practice_input.c` | paused, queued step, hold and repeat timers, per-slot pause flag, input grace | `IsFrozen`, `Update`, grace tick | engine gate; save and load |
| `practice_macro.c` | state, head, frame buffer, previous buttons, bound snapshot, restore pending | `PrePlay`, `Update`, record, play, rewind, trim | pad; level request; snapshot |
| `practice_save.c` | slot metadata, cross-load state, scratch snapshot, deferred load | save, load, tick, cycle slot | slot manager; level request; live game |
| `slot_manager.c` | RAM pool, valid flags; files on the card | RAM save and load; named SD save and load | FatFs; save callbacks |
| `practice_sd.c`, `osk.c`, `file_browser.c` | open dialog, typed name | save under a name, load a file | slot manager; menu |
| `practice_menu.c`, `practice_state.c`, `practice_level.c` | menu depth, open submenu, overwrite question, screen | open, pick, back; macro menu; launch a level | macro; save; level request |
| `practice_overlay.c` | – | request a level | engine |
| music (`practice_level.c`, `practice_save.c`, `audio_general.c`, `audio_thread.c`, `audio_heap.c`, `audio_load.c`) | preview, queued rescue, sequence ring, reset status, command batches, heap, font loads | preview, launch, rescue; audio reset; load a soundfont | two threads, four queues |
| console threads (`sys_main.c`, `sys_joybus.c`) | scheduler queues, tasks, frame pools and buffers | schedule a task, yield, swap, drain before a load | RSP, RDP, VI |
| EEPROM save (`sys_save.c`, `fox_save.c`, `conteep*.c`) | chip, cache, request, SI token | read, write block by block | serial thread |
| SD card (`diskio.c`, `iodev.c`, `iodev_sc64.c`, PI manager) | cached init result, request, PI token, cart buffer | mount, release, read, write, verify, retry | FatFs above, SC64 firmware and audio DMA beside |
| ED64 block devices, `sd_host/`, `serial.c`, `crc32.c`, `sd_crc.c` | – | not modelled | slot manager; FatFs |
| free camera, charge shot, cheats, HUD and other drawing, late loader | – | not modelled | – |

What makes each part correct:

* **macro** – the buffer is never overrun; what is recorded is what is played;
  what is replayed is what was recorded, edges included; a bound state is
  restored first, into its own level; a replay ends.
* **frame advance** – exactly as many frames as were asked for, and none later.
* **save states** – a snapshot only ever goes into the scene it was taken from,
  whole; a slot and its metadata agree; a waiting load is applied or gives up.
* **slot manager** – RAM slot 0, which SD transfers borrow, never yields bytes
  that were not saved in it; a torn, damaged or foreign file never reaches the
  game; a name on the card holds a whole save or nothing, and gives up the one it holds
  only for a new one that is whole on the card.
* **music** – a reset asked for in order ends, and is over when the status says so; no
  batch of commands is lost; the track a load or restart owes is played.
* **console threads** – display lists and frame buffers in use are not written; every
  frame is shown, in order; every interrupt finds its task; a state load stops drawing
  and loses no message; frame follows frame.
* **EEPROM** – at every block, a failure, reset or power cut leaves the old save or
  the new one; a success that is reported is true; the call returns.
* **SD card** – what a verified write reports as stored is stored; a command and a DMA
  never share the bus; every call returns.

## The modules

```
SaveStore           what the save directory promises (abstract)
   ^ refines
SlotFile            slot_manager.c, FatFs call by FatFs call    <- MCSlotFile
   ^ extends
SlotFile_proofs     its invariants and the refinement

Engine              fox_game.c, fox_play.c, sys_joybus.c
   ^ extends
SaveState           practice_save.c, RAM slots, deferred loads
FrameAdvance        practice_frame_advance.c, the gate, practice_input.c
PracticeMacro       practice_macro.c
Menu                menus, hotkeys, SD dialogs
PracticeRom         the whole frame: Init, Next, Spec, the properties
   ^ extends
MCPracticeRom       instances for TLC
MCPracticeMenu      ... of the menu, with the use a player makes of it
MCFrameAdvance      ... with history variables for frame advance
PracticeRom_proofs  the theorems about macros
SaveState_proofs    the types of the whole, the theorems about save states
FrameAdvance_proofs the theorems about frame advance (extends MCFrameAdvance too)

SectorStore         what the disk layer promises FatFs (abstract)
   ^ refines
SdCard              diskio.c, iodev, SC64 backend, PI manager   <- MCSdCard
   ^ extends
SdCard_proofs       the bus, and the refinement

SavedGame           what the EEPROM save promises (abstract)
   ^ refines
EepromSave          sys_save.c, fox_save.c, serial thread       <- MCEepromSave
   ^ extends
EepromSave_proofs   a success is true, and the refinement

TripleBuffer          what the frame buffers promise (abstract)
   ^ refines
ConsoleThreads        sys_main.c: threads, queues, RSP, RDP, VI
   ^ extends
ConsoleThreads_proofs what the game writes nobody reads, no message is lost,
                      and the refinement

AudioReset            music of the practice ROM, audio thread   <- MCAudioReset
   ^ extends
AudioReset_proofs     when READY means rebuilt, no batch is lost, the types
```

`PracticeRom` composes the parts that share the frame. The five other models are
closed systems of their own; they meet at narrow places, named here so that a
reader can check them. `PracticeRom` takes an SD save or load as one step that
succeeds or fails, `SlotFile` opens it into FatFs calls whose effect on the
directory is whole, torn or none, and `SdCard` opens the sectors under those calls.
The `Drain` of `ConsoleThreads` is the wait inside `Snapshot_ApplyToGame`, which
`PracticeRom` takes as part of an atomic apply. `LoadSlot` of `AudioReset` is the audio
side of that apply: it drains both queues of commands and queues the rescue.

### The frame

`pc` names the step of the frame that runs next; each step is one action.

| `pc` | Action | Code |
|---|---|---|
| `poll` | `PollStep` | `Controller_UpdateInput`, `Game_SetGameState`, `Game_ChangeScene`, timer |
| `gate` | `GateStep` | the `GSTATE_PLAY` branch of `Game_Update`; `IsFrozen`; input grace |
| `preplay` | `PrePlayStep` | `Practice_Macro_PrePlay` |
| `main` | `MainStep` | `Play_Main`, or the map, option menu or game-over update |
| `draw` | `DrawStep` | `Game_Draw` (the pause screen, drawn, ends the pause) |
| `advance` | `AdvanceStep` | `Practice_FrameAdvance_Update` |
| `macro` | `MacroStep` | `Practice_Macro_Update` |
| `tick` | `SaveOrDialog`: `TickStep` / `SdUpdate` | `Practice_Save_Tick`, RAM part / an open SD dialog |
| `sdtick` | `SdTickStep` | `Practice_Save_Tick`, deferred SD part |
| `screen` | `ScreenUpdate` | level select, submenus, radial menu or hotkeys |

The order matters: `hold` and `press` are variables, so a button the macro code
injects in `preplay` is there for `main`, for the hotkeys and, as "held last
frame", for the next poll. A requested level (`gNextGameState`) is acted upon by the
next poll only, and while the new scene is read in only the poll runs.

### Names

Variables carry the C names. The exceptions, in the frame: `hold`/`press` are
`gControllerHold`/`gControllerPress`; `game` is the live game, a record of a
"world" (everything a snapshot holds, told apart by name) and the state of
`gPlayer[0]`; `image`/`valid` are the slot manager's pool; `scratch` is the
one `PracticeSnapshot` buffer the callbacks share; `sSdCross` gathers the
`sSdCross...` statics; `macroSnap` is the macro's bound snapshot; `sdUi`,
`oskText` and `card` are the open dialog, the typed name and the card's
directory. In `ConsoleThreads`, `AudioReset`, `EepromSave` and `SdCard` the comment at
each variable names the C object. `ran` and `held` (`MCFrameAdvance`), `use` (`MCPracticeMenu`), `ramSaved`
(`SlotFile`), `before` (`MCSlotFile`), `orderly` (`AudioReset`) and `since` (`EepromSave`,
the half second between PRENMI and reset counted in blocks) are history or clocks.

### Abstractions

* The analog stick is left out; a stick-only input is like a button no hotkey
  uses. Cursors are left out: A acts on any entry the player may have moved to.
* The game is nondeterministic: any `Play_Update` may yield any world, let the
  player come to life, go down or win, and enable pausing or not. Ends of a level:
  `Ends` selects them per run (respawn, game over, the map, the next level,
  a change of level id in mid-level, the practice level select; `"screen"` lets the
  vanilla map and option menu lead on). The title screen is folded into the option
  menu. The ways out of the training level and the ending are left out.
* A level change skips two frames and more while a scene is loaded; the model
  skips one. Nothing but the pad can be lost in them, so one is enough. Every
  level counts as a scene of its own, which is so for all that can be saved.
* A snapshot of another launch carries `fresh = FALSE`: its segment addresses
  differ. A fresh one may be refused as well, since a segment the level does not
  use keeps the address the scene before it left there.
* An image always fits a slot (`MAX_STATE_SIZE` leaves room), the console has
  an Expansion Pak (`gPracticeSaveDisabled` is false), and builds do not mix
  (`sSdCrossXBld`).
* `PMENU_OPEN` never occurs (`Practice_Menu_Open` has no caller);
  `sPendingPauseRestore` is dead. Free camera and the options of the submenus
  change no state modelled here.
* Hold timer, frame count and buffer are bounded: `sFrameAdvanceHoldTimer`
  stops at the first value past the delay, where it stops mattering;
  `gGameFrameCount` stops at `MaxFrame`; from `InputUntil` on the player lets go
  in a level that runs (menus stay usable); `MacroCap` is the frame buffer's size.

* `ConsoleThreads` counts frames to 6 and on from 1, since the code uses the number
  modulo 2 and 3 and tells 0 apart. A thread's turn from one wait to the next is one
  step; priorities are kept by `AudioMayRun`, `GraphicsMayRun` and `SerialMayRun`.
  The next VI comes when the main thread is done with the last one.
* `AudioReset` has the music player only; a track stands for its sequence and its
  soundfont. `Answers` bounds the answers that wait for the game. The volume fade
  before a launch and the SD dialogs, which suspend the tick, are left out. So are the
  second request for the level's music that skipped cutscenes make (`practice_main.c:241`)
  and the requests of the vanilla game other than a level's music and its pause. Of
  the pause the model has the mute and its end; the retry and quit that the vanilla
  pause screen offers (`fox_hud.c:1529-1609`) are left out.
* The audio thread of `AudioReset` may take any number of ticks between two steps of the
  game, and the game up to `FramesPerTick` frames between two ticks. The first is more
  than the console does: a step of `Audio_Update` is shorter than a tick. So what holds,
  holds for every timing; a counterexample has to be looked at for the ticks it needs.
* `EepromSave` takes the 8-bit checksum to tell any two saves apart. That is an
  assumption on the data (`EepromAssumption`), not a claim about the code.
* `SdCard` gives the audio thread one outstanding DMA and leaves out parameter checks
  that never fail for these callers and the one-time detection of the cart. The
  firmware may fail any command, tear or drop a write it fails, and acknowledge a
  write that never lands. A *read* it acknowledges without doing it is left out:
  the read-back of a verified write would then compare the cart's buffer with itself.

## The runs

Every run ends in full exploration; none needs a depth bound.

| Run | Question | Bounds that matter |
|---|---|---|
| `MacroRun` | All mixtures of the macro hotkeys: is the buffer safe, are recording and replay exact, does a plain replay end? | two-frame buffer: full, half full, empty, appended, trimmed and rewound all occur |
| `MenuRun` | The practice menu over two levels. Its macros, with the bind-state option: is the state restored before a frame is replayed (`RestoreComesFirst`), whole, and in its own running level (`RestoreMeetsScene`)? Its SD saves and loads, staged in slot 0 and mixed with RAM saves and loads: do slots and records agree, does each snapshot fit? | one-frame buffer; two slots, one file name, a file of an earlier launch; a player uses macros or files (`use`), the dialogs opened and left with either |
| `AdvanceRun` | Held D-Up with every way to pause, load, leave or end a level in between: as many frames as asked, none later? | the code's own delay 12 and rate 2; three repeats; two slots, each saved in or out of the pause |
| `SaveRun` | RAM saves and loads across levels, phases, respawns, warps, the vanilla pause: does each snapshot fit, does each wait end? | two levels, two phases, two worlds, one slot, time-out after one frame |
| `SlotFile` | Failure or power cycle at every FatFs call: does the card keep its promise, is slot 0 sound? | two names, three images (one foreign) |
| `SdCard` | Reads and writes on a firmware that fails, tears and lies, with audio DMA on the same bus: is success true, is the bus exclusive, does each call return? | three sectors, chunks of two, two attempts, a PI queue of one |
| `Eeprom` | A failing transfer, power cut or reset at every block, several saves in a row: old save or new one? | two blocks per copy, three saves of which two share a block, reset two blocks after the PRENMI |
| `Threads` | Main, audio, graphics and serial thread with RSP, RDP and VI in every order the priorities allow: is what others use left alone, is every frame shown in its turn (`FramesInOrder`), does frame follow frame? | one VI message (`GfxVIs`), one VI per frame |
| `AudioReset` | Preview, launch, restart, pause, state loads and the rescue against resets that wait, one that blocks and VS BATTLE's, which changes no status, stacked on one another: does a reset asked for in order end, is it over when it says so, do batches fit, is a rescued track played? | the training level's song, VS BATTLE's and one of the title's spec, over the boot spec; one frame per tick; one request may wait, no command or older font load when the player asks for more |

Three runs show a disagreement between the code and its own comments; TLC finds each at
once. They are listed with quotations under `findings`:

| Run | What happens |
|---|---|
| `SdLeave` | Leaving while an SD load waits, and saving elsewhere, makes the load apply the wrong snapshot. |
| `CrashedSave` | The power goes between `f_unlink` and `f_rename` of a save: the name holds neither the previous save, which `slot_manager.c:384-386` says the user keeps, nor the new one. |
| `SilentReset` | VS BATTLE's preview leaves a spec whose replacement does not change the status (`audio_general.c:2733`): it says `READY` while the heap is rebuilt, and the deferral of `practice_level.c:64-66` does not defer. |

Why the bounds are enough. Nothing in the code compares more than two levels,
slots or phases with each other, one change of level is in flight at a time
(`gNextGameState` is one variable), time-outs differ from each other only by their
order against the arrival of the level, which a bound of one frame lets happen
both ways, and the macro code compares head with length and with capacity only.
On the card, a chunk of two in a transfer of three gives a full chunk and a rest, a
transfer of one is a metadata sector, and two attempts give a first, a last and a
retry; for other sizes the theorems of `SdCard_proofs` stand in. Two blocks give a
copy a content block and the checksum block; again the theorems hold for any number.
In `ConsoleThreads` a longer VI queue or a larger `gVIsPerFrame` only makes the
graphics thread wait longer in `vi`, where it touches no buffer. In `AudioReset`
`Unsent`, `Requests`, `Backlog` and `Flights` say how much may wait in the buffer, in the
ring, behind a stop and in font loads when the player asks for more (`UpToDate`,
`MayRequest`); they do not bound how long a reset takes, and a request may come at any
moment of one; a request and the reset under way are enough to stack resets. The theorems of `AudioReset_proofs` hold for any bounds.

`MaxFrame` freezes a clock, so a run that checks a time-out needs room for the
time-out to pass: `SaveRun` has `MaxFrame = 4` against a time-out of one.
With `MaxFrame = 0` (the macro, frame-advance and menu runs) the frame count is left out;
no property of those runs depends on it.

### Fairness

* `PracticeRom`: weak fairness of the whole next-state relation only. The video
  retrace drives the frame loop, so frames go on. Nothing is assumed of the player or
  of the game: a level may stay paused, in its introduction or dead for ever, and
  the liveness properties say what follows in that case (`ClockRuns`, `Interrupted`).
* `EepromSave`: weak fairness of the graphics and of the serial thread, which are
  scheduled whenever they can run. Resets and power cuts are never forced.
* `ConsoleThreads`: weak fairness of what nothing else can switch off (the VI, the
  RSP's audio tasks and yields, the RDP, the main thread) and strong fairness of what
  is enabled again and again: the audio, graphics and serial threads, which threads of
  higher priority interrupt but do not starve, and a graphics task of the RSP, whose
  commands run out however often it yields to audio.
* `AudioReset`: weak fairness of the practice code, of `Audio_Update` and of the loop that
  waits for a blocking reset; the audio thread acts while it has work (`Busy`, its
  `ENABLED` written out), and a font load has finitely many pieces while no reset stops
  it. Nothing is assumed of the player: a level may load for ever.
* `SdCard`: weak fairness of the PI manager and the PI; strong fairness of the game
  thread's steps, since `CartLock` finds the token free again and again: the audio
  thread asks for a bounded number of pieces per retrace.
* `SlotFile` needs none: it has safety properties only.

## The proofs

`PracticeRom_proofs` proves for every set of pads, levels, menu entries, every
buffer size and every delay:

* `MacroBoundsHolds` – head <= length <= capacity;
* `RecordingHolds` – a recorded frame is the pad the game is given;
* `ReplayHolds` – a replayed frame is the recorded one, and its edges are those
  against the frame before it;
* `RestoreFirstHolds` – no frame is replayed before the bound state is restored;
* `RestoreMeetsSceneHolds` – that state is put back whole, into its own level, while
  the level runs and no menu is over it.

They rest on `PadsAssumption` (pads are sets of buttons), `MacroAssumption` (the
capacity is a natural number) and `MenuAssumption` (the entries offered are entries
of the menu). The inductive invariant `Inv` joins the first four with the types of pad and
macro and with `LastInjected`: while a replay runs, `sPrevButton` is the frame under
the head, or nothing at the start. `ReplayIsExact` alone is not inductive, since it
speaks of `main` only and says nothing of what the next injection compares with;
`LastInjected` is what every way to start, rewind, loop, trim or stop a replay has to
keep, and trimming keeps it because it cuts behind the head, never under it. One
lemma per macro operation shows that `MacroInv`, the part of `Inv` about the macro,
is kept; one lemma per step of the frame shows that `Inv` is. `RestoreMeetsScene` is
an action property: besides `Inv` it needs `PrePlayScene`, that only the gate leads to
`Practice_Macro_PrePlay`, in a level and under no menu, and `OtherStepsWait`, that no
other step gives up a waiting state and plays on.

`SaveState_proofs` goes on from there and proves, for any number of slots as well:

* `TypeOKHolds` – every variable keeps its type;
* `MetaHolds` – a slot that can be loaded holds what its meta record names;
* `SnapshotFitsHolds` – a load, short of the deferred one, writes to the live game only a
  whole snapshot of the level that runs, at this launch's addresses;
* `DeferredLoadHolds` – so does the deferred load, with the overlay bytes of its own slot,
  in every behaviour where no step uses `scratch` or that slot while it waits
  (`Undisturbed`).

`TypeOK` is not inductive: a snapshot is applied from a slot, from `scratch` or from
`macroSnap`, each of which may be blank. What keeps a blank one from being applied is a
flag in another variable, so `SInv` adds that a load that waits has its snapshot in
`scratch` (`StagedIsImage`), that a bound macro has its state (`BoundIsImage`) and that a
valid slot is described by its meta record (`MetaDescribesImage`); and, for
`sStartHoldTimer`, that in the open menu START has not been held for long enough to
leave (`HoldInMenu`), since the one step that completes the hold closes the menu and
opening it starts over. A replay hands the game what the buffer holds, so `SInv` is
inductive together with `Inv`. The assumptions used are the named ones of the modules:
besides those above, `EngineAssumption`, `SaveAssumption` and `FrameAdvanceAssumption`.

The deferred load is checked against one record and applied from another: `sSdCross` says
which level it waits for, `scratch` holds the snapshot and the pool slot the overlay bytes.
`Described` says that the three agree; every step that makes a load wait establishes it
(`StepDescribes`), and only a step that writes `scratch` or the slot can end it. The code
does not keep such steps away, hence the hypothesis: `DeferredLoadFits` alone fails in
`SdLeave`, where the player saves in another level while the load waits. It can be met
and the load still be applied: with RAM slots alone, in `SaveRun`, every step meets it.

`SlotFile_proofs` proves, for any names and images:

* `SlotFileTypeOK`, `RamSlotHolds` and `AppliedHolds` – slot 0 never yields bytes that
  were not saved in it, and what a load hands to the game is a whole save of this ROM;
* `StoreHolds` – `SlotFile` implements `SaveStore`, through every failure and power cycle:
  a name changes only while a save under it is asked for, and the save it holds goes
  (`Clear`) only when the new one is whole on the card beside it.

The properties say nothing of the calls between a `f_open` and a `f_rename`, so `IInv`
adds that a name never holds a torn file (`DirectoryIsWhole`), that while slot 0 is
staged for the card it holds the save asked for, and after the temporary has been
closed so does that (`Staged`), and that slot 0 is valid between calls only
(`Slot0Kept`). The temporary, when whole, is the name's `spare`. Opening it maps to `Scrap`,
closing it to `Write`, unlinking to `Clear` – allowed because `Staged` says that the spare
is the save asked for –, the rename to `Finish`, a power cycle or a failed call to
`GiveUp`. `SaveStore` has no promise for the time between `Clear` and `Finish`: a crash
there leaves the new save in the temporary only, and a rename that fails there unlinks
the temporary too (`slot_manager.c:425-428`), so that nothing is left. `CrashedSave`
shows the first against the comment that promises otherwise.

`EepromSave_proofs` proves, for any number of blocks and any saves whose checksums
differ:

* `EepromTypeOK`, `SuccessHolds` – a `Save_Write` that reports success with a true cache
  has put both copies on the chip;
* `SavedGameHolds` – `EepromSave` implements `SavedGame`: one stored save, replaced as a
  whole, lost only if it was not safe before.

Since only changed blocks are written, success follows from an invariant about blocks
that were *not* written: `WriteOrder` says that the cache agrees with the buffer for
every block the loop is past, and `OneCall` that one request is under way at a time.

`SdCard_proofs` proves, for any number of sectors, chunk size, number of attempts and
queue length:

* `SdCardTypeOK`, `OneHolder` – one of cart lock, DMA and queue holds the bus's token;
* `DiskImplementsSectorStore` – a verified write that returns success has stored all it
  was given, a read that does returns what is stored, and no request touches another
  sector.

None of these is inductive alone. `Flow` says where a call may be, and that at `run` the
firmware's sector register is the sector the request is at; `Bus` whose DMA is
where, and that the game thread has one request on it at a time, on which it waits;
`Cargo` what cart buffer, memory and card hold of the request at each place of it,
which is what turns a read-back that compares equal into a sector that is stored. An
audio request put in front of the queue or behind it keeps `Bus` (`AddKeepsBus`).

`ConsoleThreads_proofs` proves, for any queue of VIs and any number of VIs per frame:

* `TypesHold`, `QueuesHaveRoomHolds` – no sender, none of which looks, finds the main
  thread's queues full: at most three events and two tasks wait in them;
* `PoolNotReusedHolds` – the game does not write display lists the scheduler, the RSP or
  the RDP still has;
* `BufferNotShownHolds` – the RDP draws into no buffer that is shown or next. No run lists
  it: the guards of `Draw` and `Swap` in `TripleBuffer` imply it, and so `FramesInOrder`;
* `FramesInOrderHolds` – `ConsoleThreads` implements `TripleBuffer`: frames are drawn into
  the three buffers in turn, and every finished one is shown, in order, for a VI at least;
* `InterruptsFindTaskHolds` – `Main_HandleRSP` and `Main_HandleRDP` find their task;
* `OneGfxMessageHolds`, `DrainedMeansIdleHolds` – a state load's wait stops all drawing and
  costs no message.

The argument follows the newest frame: its task is handed over, kept by the main
thread or drawn, and where it is says how many messages there are (`StageInv`,
`RoomInv`) and what the RDP works on (`RdpInv`, `BufferInv`). The RSP alone may lag by a
frame, and only while the graphics thread waits for VIs it does not have yet; that is
`CurrentInv`, with `SpFirst`: the main thread hears of the end of the old task before it
hears of the VI that would let the frame go on.

For the refinement, `DP` interrupts map to `Finish`, the main thread's step maps to `Draw`
when it gives the RDP a frame, `SwapBuffer` to `Swap` and `VI` to `Show`; all else
stutters, the turn from frame 6 to 1 included, since `Done` is a buffer and not a number.
Whether the last frame is drawn shows in the queues alone (`UndrawnStages`). `Swap` needs
that the frame before is on the screen by then, which `ShownInv` says: after a swap the
graphics thread waits for more VIs than are queued, as `validVIsPerFrame` sees to, so at
least one comes that shows the frame. With one VI less (the mutant `NoVIMore`) a frame may
never be shown.

`FrameAdvance_proofs` proves, for any pads, levels, delay and a repeat rate of two
frames or more (`RatesAllow`; the code has 12 and 2):

* `NoStepLeftHolds` – `NoStepLeftBehind`, in every behaviour in which no macro is replayed
  and no pad presses D-Up and D-Right at once (`PlayerPad`; both exceptions are real, see
  the limits below);
* `StepCadenceHolds` – `StepCadence`, in every behaviour in which no macro is replayed and
  the two are not held together (`HeldAlone`).

`AdvInv` says, for each step of the frame, in which scenes a step may be queued: it runs
in the next frame, unless that frame does not come because the level was left, and in
the frame that leaves a level no step is queued, because a D-Up that is held is not due
to repeat in a frame it stepped itself (`NotDue`; with a rate of one it would be).
`CadenceInv` ties the history to the two timers: with the hold timer `k` frames past the
delay, `k` is `RepeatRate` times the frames run, less what the repeat timer has left, or
one more while a step is on its way. `HeldNow` of `MCFrameAdvance` counts the frames of
one pause: a level that ends or begins starts over.

`AudioReset_proofs` proves, for any tracks, specs, fades and table of `Audio_StartReset`,
unannounced entries like VS BATTLE's included, and with a player who asks for anything
at any moment:

* `AnnouncedMeansRebuiltHolds` – after a reset asked for in order, `AUDIORESET_READY` means
  that the heap is rebuilt and no spec is on its way;
* `BatchesFitHolds` – no batch of commands finds its queue full from such a reset on, with
  one or two frames of the game per audio tick;
* `AudioTypesHold` – every variable keeps its type, the queue of batches its four places,
  and the counters of loads, answers and fades stay within theirs.

`orderly` says which resets those are. It is set at each reset of the heap from what the
code finds there: the reset before is over (`Settled`) and the status says so, there is
room for two batches, and `Audio_StartReset` gives the new reset a status. `SilentReset`
shows that the promise fails without the last; without the first it fails too, when
resets are stacked (see the limits). A reset in order is one token, in one of three
places: in the audio thread's queue (`Queued`), being carried out (`Rebuilding`) or answered (`Answered`); with the status `READY`
it is in none (`Rebuilt`). `Stage` says so, and `Asked` that the two steps of a request,
between which the audio thread may run, leave no room for a second token. `Few` counts
the batches: one for each frame since the tick, the one of the frame that asked, if the
heap was rebuilt before that frame ended, and the one of the players' restart. The batch
of a third frame would be the fifth: with `FramesPerTick = 3` TLC finds the queue full.

The types rest on `Inv` and `RestInv`, which are inductive together. The audio
thread executes a batch with a fold (`AudioThread_ProcessCmds` is a loop over commands),
and the library's induction theorems take an operator, which no prover here can
instantiate. `SetInduction` states induction for a *set* of numbers instead, and follows
from the strict subset order of finite sets being well founded; `MaxIsLast`,
`FoldExists` and `FoldKeeps` derive from it that the function `FoldLeft` chooses exists and that
what one command keeps all of them keep (`ExecuteAllType`, `ProcessAllType`). No stop is
ever executed: `ProcessCmdsType` shows that a message is cut at the first.

All use the named assumptions of their modules (`SlotFileAssumption`, `EepromAssumption`,
`SdCardAssumption`, `ThreadsAssumption`, `AudioAssumption`, and those of the frame), and
beyond them only the hypotheses named above, which stand in the theorems.

Model-checked only:

* liveness, since no prover here handles fairness: `PlainReplayEnds`, `XloadResolves`,
  `SdCrossResolves`, `CallsReturn` (twice), `FramesFlow`, `ResetEnds`, `RescueIsPlayed`;
* that no step of `SaveRun` disturbs a load that waits: `DeferredLoadFits` holds there
  without the hypothesis of `DeferredLoadHolds`.

## Limits of what holds

`NoStepLeftBehind` is checked for pads that do not press D-Up and D-Right in one
frame. With that pad it fails: `Practice_FrameAdvance_Update` queues the step first
(`practice_frame_advance.c:75`) and a slot saved outside the pause then ends the pause
(`:89`), so the step stays queued. Every key that pauses clears it, but a later
load of a slot saved in the pause does not, and the game runs one frame after that
load. No document speaks of the two keys together, so this is listed under
`hazards`, not as a finding. It fails for a replay too: an injected D-Up press in a
stepped frame queues a step although `Play_Main` has just ended the level in it, and the step
stays queued. The player cannot do this, since a D-Up that stepped
the frame is already down.

Three more exceptions that properties name stand for something the documents promise
otherwise. Each shows at once when the exception is taken out of the property:

* A load of a slot saved in frame advance restores the pause before the level change it
  needs (`practice_frame_advance.c:89`). The frozen game gets neither to the level nor, its
  clock `gGameFrameCount` (`practice_save.c:2009`) standing still, to the time-out, which
  `HW_VERIFY_phase5.md:79` expects after 6 s. `XloadResolves` excepts it (`ClockRuns`).
* A launch during the preview's reset is not deferred (`practice_level.c:516`), nor is a
  level change a load asks for (`practice_overlay.c:276`). Requests made in a reset wait in
  the ring and are taken together in the frame that ends it; the queue of specs has one
  place, the second spec is dropped (`audio_thread.c:439`), and the status ends `READY` for
  a spec that was never loaded, against `practice_level.c:64-66`. `AnnouncedMeansRebuilt` excepts it (`orderly`).
* The pause mutes every player (`fox_play.c:7166`), and its own end unmutes them. A load out
  of the pause takes another way: it drains both queues of commands and queues the rescue,
  which plays the level's music on a muted player, for good when no reset to another spec
  comes. `practice_save.c:877-878` says "always heard"; `RescueIsPlayed` says *played*.

The last is what `tests/known_issue_audio_frozen_after_pause_load.py` and
`docs/HANDOFF_audio_qol.md:161-175` record from the console as music frozen after a pause
and a load. The handoff reads bit 5 of the player's first byte as `fontDmaInProgress`; by
the order of the fields in `sf64audio.h:358-366`, with the first field in the highest bit, it
is `muted`, and the model shows how it stays set. The `state` byte the test reads is below
what the model tells apart. `tests/known_issue_audio_reset_frozen_after_load.py` adds that the
audio menu's RESET ALL does not help: it sends volumes, which do not unmute.

Other places where the code does, in the model, what a reader might not expect. No
document or comment clearly promises the opposite, or the effect lies inside what the
model abstracts:

* Loading a slot of the other phase of the running level applies it at once when the
  tick comes round, in the phase that is about to be left (`practice_save.c:1995`).
* L + START pauses the game in the same frame, before the macro code swallows the key
  for the replay (`practice_macro.c:221`).
* The SD save of the menu does not ask whether the level runs (`practice_sd.c:109`).
* Launching a level of another audio spec while the preview's soundfont loads enters it
  in silence: the reset ends the load and `isWaitingForFonts` stays set; the rescue is
  queued for the same spec only (`practice_level.c:523`).
* A reset stacked on one that is not over may never end: `AudioThread_ResetAudioHeap` empties
  the queue of answers and then sends the spec (`audio_thread.c:436-439`). If the audio
  thread ends the earlier reset in between, its answer takes the one place, the new
  reset's answer is lost, the stale one is refused, and `Audio_Update` waits for ever.
  `ResetEnds` is stated for orderly resets; without `orderly` TLC finds this.
* After a reset that is not orderly `BatchesFit` fails as well: with the status `READY`
  batches are scheduled through the silent ticks, and the fifth is dropped.
* `osEepromRead` and `osEepromWrite` return an error without giving the serial token back
  (`conteepwrite.c:21`); every later transfer waits for ever. `CallsReturn` of
  `EepromSave` excludes the lost token by name.
* A failed `Save_WriteBlock` leaves the cache ahead of the chip (`sys_save.c:43`), so a
  retry skips the block and reports success: hence `CacheTrue` in `SuccessIsStored`.
* `sFatfsDiskInited` survives a failed release and acquire, although `iodev.c:95-98`
  means to keep the failure for it; the requests then fail one by one.
* The ED64 V2 backend, not modelled, waits for a DMA with the PI token in hand
  (`iodev_ed64_v2.c:329-335`).

## Not modelled, and why

* The vanilla game beyond its state machine, scheduler, saves and music: it is the
  environment. It is also nearly all of the repository: some 240 000 lines, most of
  them decompiled objects, levels, effects and tables, against some 9 000 lines of
  practice code and 4 000 of its own libraries. The share of all lines the map covers is small for that
  reason, and stays small.
* Drawing: it reads state only. Free camera, cheats, charge shot, boss test: they change
  values inside the "world", which the models move as a whole.
* Synthesis, effects and sound effects of the audio code; its other players.
* The late loader and shim: they run before the models start.
* `serial`, `crc32`, `sd_crc`: pure functions of bytes. What they decide (whole, damaged,
  foreign) is a choice in `SlotFile`.
* The ED64 block devices and `sd_host/`: the SD protocol, bit by bit, over FPGA registers
  whose behaviour no document of the repository gives.
* FatFs: vendored. `SlotFile` models what its calls may leave on the card, `SdCard` what
  it asks of the disk.
* A console without Expansion Pak, and images of another build (`sSdCrossXBld`).
* Tools, host tests and the guide.

## The plan

Done: the inventory; the frame with all its parts; SD saves down to the sectors; the
EEPROM; the console's threads; audio resets and the rescue; the proofs above.

What is left, in the order of what it would add:

1. Which recording a bound snapshot belongs to: a fresh recording keeps the old snapshot
   (`practice_macro.c:270`).
2. Cross-build loads, a console without Expansion Pak, free camera as a replacement of
   the menu's update.

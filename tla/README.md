# Verification of wmscript

TLA+ models of the wmscript runtime, the TLC configurations that check them on
small instances and TLAPS proofs about them. Paths are relative to `src/`.

## 1. The system

wmscript compiles a small script language to bytecode and runs it on a VM whose
workers are scheduled cooperatively. Two runtimes host scripts: `wmruntime`
(scheduler, resources, checkpoints, extensions for image, audio, UI) and the v2
runner of `wms` (one VM per execution, a game world, an event queue). A game can
also use `GameRuntime` directly from Rust.

| component | state | operations | makes it correct |
|---|---|---|---|
| scheduler (`wmvm/scheduler.rs`, `message.rs`) | workers, FIFO `runnable`, sets of waiting, sleeping, halted, errored workers, next id | `spawn`, `wake`, `deliver`, `run_round` (`route_outbox`, `reconcile`) | a worker is filed once and as its VM is; no wake-up is lost; FIFO mail; fair rounds |
| VM (`wmvm/lib.rs`, `value.rs`) | state, frames, one operand stack, globals, inbox, outbox | `run_frame`, `step_once`, `execute_op`, `call_function`, `wake`, `push_message` | `Recv` takes exactly one message; a stopped VM stays stopped; frames leave each other's operands |
| compiler v2 (`wmcompiler/v2`), `wmbytecode`, `wmverifier` | code buffers, locals, loop patches | parse, check, lower, encode, decode, verify | a text is read as written; what is accepted runs without faults and does what it means; what is verified resolves |
| world (`game/world.rs`) | next id, entities, components, resources, which names are persistent | `spawn`, `despawn`, `set_*`, `remove_component`, `persistent_snapshot`, `restore_persistent` | no component without its entity; ids are not reused; saves can be loaded |
| game runtime (`game/runtime.rs`, `event.rs`, `ports.rs`) | world, systems, event queue, tick, input queue, save slots | `register_system`, `emit`, `tick`, `save`, `load` | events in order, none lost silently; the limit of a tick |
| v2 runner (`wms/runner.rs`) | shared world, saves, events; one VM, its inputs and rounds | `execute`, `call_host`, `run_program_with_systems` | the run ends; inputs reach the receives they are for; each event reaches its systems once |
| resource manager (`wmresource`) | catalog, entries, requests, handle table | `register_ready`, `ingest_archive`, `load_resource`, `complete_request`, `retain`, `release` | handles never name another resource; a resource does not stay loading |
| image, scene, audio (`runtime/extensions`, `audio_backend.rs`) | draws, playback states, sessions of the backend | load, draw, background, play, pause, stop, seek, volume, release | draws match their handles; no sound plays unknown |
| message window, UI policy, RPG panels, state, automation, RTS (`runtime/extensions`, `state_manager.rs`) | window and backlog, panels, the store and its slots | the calls of `ext.message`, `ui`, `rpg`, `state`, `automation`, `rts` | what is shown is logged; a call that fails changes nothing else; jobs add up |
| host dispatch (`host_dispatch.rs`), `wmext`, `wmhost`, `wmplatform` | tables of functions and capabilities | register, permit, dispatch | only permitted calls reach the host |
| checkpoints (`runtime/mod.rs`, `checkpoint.rs`, `extensions/vm.rs`) | slot -> copy of scheduler, resources, draws, audio, UI, state | `save_checkpoint`, `load_checkpoint`, `flush_pending_vm_saves` | a restore is complete and consistent |
| archives (`wmarchive`, `archive_loading.rs`, `wmtoolchain`, `wms/build.rs`, `program.rs`) | the file; what a runtime has registered and listed | build, sign, decode, stream, verify, load, run | what is written is read; damage is noticed; nothing runs on half an archive |
| legacy compiler, lexer, `wms` projects and command line, `wmui`, `wmfrontend` | strings, files, windows | | not modelled (section 6) |

**Interaction.** Everything runs on the host's thread and shares state through
`Rc<RefCell<..>>`. A host calls `Runtime::tick`, which runs a scheduler round; a
VM calls the host from inside its frame, which may call an extension, which
changes resources, draws or audio. Workers talk by messages: `Send` fills the
outbox of the frame, `route_outbox` delivers it when the frame ends. The runner
executes one VM to its end, then drains events and executes a VM for every
subscribed system over the same world. A compiled program reaches either runtime
through a file: a bare program or a version 2 package (`wms`), or a section of an
archive (`wmtoolchain`), whose other sections are the resources it loads.

**What is hard.** Not data races, since there is one thread, but the order of
steps: a wake-up or a message at any point of a round; a worker that is in no set
while its frame is filed; a failed tick that is retried; a save that takes back
counters and tables others have read; a `RefCell` borrowed over a callback;
scripts that may call anything with any number; calls, loads and replays that
fail half way; jump patches and one operand stack shared by all frames; files
that lose their end. The list, with lines, is in
`PROJECT.json` under `hazards`.

## 2. Modules

| module | models | state and actions |
|---|---|---|
| `Scheduler` | scheduler, and the VM's control | the fields of `Scheduler` by name, `vmState`, `inbox`, `outbox` of the VMs, and the program counter of `run_round` (the worker that runs, what is left of its round, its steps, its outcome). The host's `Spawn`, `Wake`, `Deliver` come between rounds; `BeginRound`, `PopRunnable`, one action per opcode that matters, `RouteOutbox`, `Reconcile` are the round |
| `Mailboxes` | what the scheduler promises of mail | workers, one box each, those blocked; `Join`, `Replace`, `Post`, `Take`, `Block` |
| `SchedulerRefinement` | `Scheduler` implements `Mailboxes` | the mapping: a box is a worker's inbox, with what the running worker has routed to it |
| `World` | world and save slots | one action per method; `born` and `reissued` are history |
| `Game` | `GameRuntime`, over `World` | `tick` is split where a system acts: `BeginTick`, `PopEvent`, handler steps, `EndEvent`, `EndTick`, and failure |
| `Runner` | v2 runner, over `World` | `execute` as frames and rounds, the host calls that change shared state, the drain loop |
| `Resources` | resource manager | one action or operator per method |
| `Media` | image, scene, audio and checkpoints, over `Resources` | one action per host call; `scriptHeld` remembers what was handed out |
| `Values`, `Bytecode`, `StandardHost` | values and their arithmetic, opcodes as bytes, the host calls a script can tell apart | operators |
| `Syntax`, `Writing`, `Parsing` | syntax trees, the tokens a tree is written as, the parser | operators; `Writing` is the reference the parser is compared with |
| `Checking`, `Lowering`, `Verifier` | the passes of the v2 compiler, and the verifier | operators, from a tree to diagnostics, from a tree to bytes, from bytes to a verdict |
| `Meaning` | what a module means, by its tree | the reference that execution is compared with |
| `Machine` | a worker as an executor of bytecode | `frame`, `calls`, `stack`, `globals`, `inbox`, `outbox`, `status`; one action per opcode group, with each of its errors |
| `Compilation` | the pipeline put together | a module is parsed, checked, lowered, verified and executed, with messages at any time |
| `Extensions` | the extension functions with their arguments and capabilities, and the dispatcher's checks | operators |
| `Dialogue`, `Store` | the message window; the store, jobs and units | one operator per call, from the record before to the record after |
| `Session` | a runtime from tick to tick, over the three above | one action per call of a script inside a round, the host's setters, deferred saves, loads, checkpoints |
| `Container`, `Packages` | archives of version 1 with both readers; binary programs and version 2 packages | operators over files of units |
| `Delivery` | from a build to what a runtime has of the file, over the two above | `push_section`, `Build`, `WritePackage`, faults `Cut`, `Garble` and `Mislead`, both loads, both runs |
| `Execution` | a worker that executes what the verifier has seen, with any messages and wakes | `WorkerSpec`; what an instruction takes from the operand stack and leaves there (`Pops`, `Pushes`, `Follows`) |
| `SchedulerProofs`, `GameProofs`, `RunnerProofs`, `MediaProofs`, `SessionProofs`, `ExecutionProofs`, `DeliveryProofs` | the proofs, of the module of that name; for the scheduler also of its refinement, for the game of its world, for `Delivery` of `Container` and `Packages` | |
| `Numbers` | induction over numbers in a form that speaks of sets, for the proofs | |
| `MCScheduler`, `MCWorld`, `MCGame`, `MCRunner`, `MCMedia`, `MCCompilation`, `MCSession`, `MCDelivery` | instances for TLC | |

How they compose: `World` is extended by `Game` and `Runner`, `Resources` by
`Media`; `Session` puts `Extensions`, `Dialogue` and `Store` behind one
dispatcher and its checkpoints; `Compilation` feeds the output of `Parsing`,
`Checking` and `Lowering` to `Verifier` and `Machine`, and compares it with
`Meaning`; `Execution` is the part of it that does not know where a program comes
from, and is what the proofs of execution are about; `Delivery` loads what `Container` and `Packages` write. `Scheduler`
and `Machine` are two views of one VM: the first has its scheduling with
arbitrary code, the second its code with arbitrary scheduling.

In `Scheduler`, `Runner`, `Media` and `Session` scripts are modelled as the most
general program: at any point any opcode or call that the VM allows may be next,
with any operand from a small set. What holds of that holds of every compiled
program. Payloads, component values and resources are opaque there.

Definitions with a double underscore (`Despawn__KeepsComponents`) are wrong on
purpose: each is a plausible bug, and replacing the definition by it makes the
property named in `PROJECT.json` (`mutants`) fail.

## 3. Runs

| run | checks | bounds | states |
|---|---|---|---|
| `sched` | `TypeOK`, `FiledOnce`, `FiledAsItIs`, `WaitingMailIsOwn`, `RoundRunsPlan`, `RecvTakesMessage`, `StoppedStaysStopped`, refinement of `Mailboxes` | two ids, the last of which is handed out again; two payloads, two messages per box, two opcodes per frame, spawns while less than two are queued | 4.6 M |
| `sched_live` | `EveryTurnComes`, `OthersMailResumesWaiter` | as above with one payload | 888 k |
| `sched_self_send` | `MailResumesWaiter` is violated | one message per box | |
| `world_id_reuse` | `IdsNeverReused` is violated | three ids | |
| `game` | `EventsInOrder`, `EventsAccounted`; of its world `PersistentOwned`, `CounterAhead`, `SavesCompatible` | two systems, two ticks, three events, two per tick; a persistent component, a transient resource, a slot | 1.6 M |
| `runner` | `InputsInOrder`, `DispatchedInOrder`, `RunEnds` | two systems, two event types, two inputs, two events of which one is allowed, four rounds of two opcodes | 316 k |
| `runner_emit` | `SystemsMayEmit` is violated | | |
| `media` | `LoadingIsRequested`, `RawHandlesSafe`, `PlayingHasPayload`, `NoOrphanSound` | two resources, two handles, two references each, one request, one slot; four kinds of programs | 487 k |
| `language` | `ReadsAsWritten`, `RunsAsWritten`, `CheckedIsSafe`, `LoweredVerifies`, `VerifiedResolves`, `LoweredBalances`, `OperandsOwned`, `ProgramEnds` | 955 modules (696 of them accepted), 212 bytecode programs, two messages, integers of six bits | 114 k |
| `language_void` | `CheckedIsSafe` is violated | two modules | |
| `session` | `LoadedIsSaved`, `TextInLog`, `GuiNeedsCapability`, `StepsAddUp`, `FailedCallsShowOnly` | three calls of a script, three texts, two jobs, units and resources, one slot of checkpoints (two in scripts of saves, loads and calls outside), with and without the GUI, integers of four bits | 397 k |
| `archive` | `WrittenIsRead`, `DamageIsNoticed`, `DigestsVouch`, `OnlyWrittenIsLoaded`, `UsedIsRegistered` | two sections and a manifest of either version with any set of digests, signed or not; 18 programs and 144 packages; one fault | 313 k |

**What the larger runs show.** `language` executes, byte by byte, what the
pipeline makes of modules with every statement and expression - loops in loops
with every way to leave them, calls and returns in the middle of expressions,
short circuits and matches, receives, sleeps and ticks between any two operands,
integers at the ends of their range, floats, indices past the end, values of
any type in every place the checker does not look at - and finds the same
host calls, in the same order, and the same result as the meaning of the tree.
`LoweredBalances` finds for every function one number of operands per address
(`Measures` of `Execution`), whichever way the execution came there: that is the
hypothesis under which `OperandsOwned` is proved.
Texts are read back to the tree they were written from for every operator in
both operands of every other. `session` puts deferred saves, loads, a host that
saves, loads and wakes, and failing calls in every order. Its integers are so
narrow that the time and the resources reach the largest one, and that three steps
of a job make a number and four do not. Some of its scripts save to two slots
(`MaySaveTo`), which shows what one slot cannot: several saves asked for in a
round, to two slots or twice to one, are all made at
its end, and none is made of a script that asked for none. What was asked for is
remembered apart from the runtime's list of pending saves (`asked`), and what
each slot should hold apart from the checkpoints (`asSaved`). `archive` cuts a
file at every unit, garbles any payload or digest (`Damaged`), or changes a
field of any other unit of an archive - headers, table entries, the head and the
lists of the manifest, programs (`Misled`) - and reads it through both readers.
A length or an offset is changed to one behind the end, or by one; a changed one
that makes a reader take bytes of another kind for a header is left out, since
units have no bytes. Of a file changed in this last way the run checks what the
readers, the signature and the digests say (`DamageIsNoticed`, `DigestsVouch`);
it is not loaded further (`MayLoad`).

**Why the bounds are enough.** Two workers give every pair of sender and
receiver, a receiver in every state, and a queue with someone behind. The second
id is the largest: every spawn after it saturates, replaces the worker in
whatever state it is, queued or parked, and queues its id again, beside a
worker whose id is its own; before it is spawned it is a receiver that does not
exist. Two opcodes give a frame that does something before it waits, and one that runs out
of its budget. Two systems and three events give an event of a handler, of the
clock and of the host, a system that fails after another has handled the event,
and a retry; one entity and a slot give an entity that a load forgets, one that
it brings back, and a component registered after the save. (The theorems of
section 5 hold for any number of them.) Two events and a limit of one make the
limit bite. Two handles and one slot give a handle issued before and one after a
checkpoint. Three calls give a save, what comes after it in the round, and a
call after the load; two slots give two saves of one round. Two sections and a manifest give a section before, between
and behind others, a reference to one that has no digest, a resource with two
sections, and one that fails after another was registered. The kinds of
programs (`Programs` in `Media` and `Session`) only divide the state space: a
script that draws need not also play for a property of draws to fail.

**Bounds of the models** (constants named in each module): `MaxMail`, `MaxQueue`, `MaySaveTo`,
`MaxSequence`, `MaxTick`, `MaxEmitted`, `MaxHandles`, `MaxRequests`, `MaxRefs`,
`MaxInbox`, `Fuel` (statements `Meaning` follows before it gives up), `MaxCalls`,
`MaxSections`, `MaxLoads`, `ConstantValue` (the constants of programs; `Nesting` says how
deep each is), the entity and worker ids, the modules, packages and
programs of the instances. `StepBudget`, `MaxRounds`, `MaxEvents`,
`MaxEventsPerTick` are limits of the code, `IntBits` and `MaxId` widths of it
(64 and 16 bits), and `Block` an alignment of it, made small.

**Deadlock** is checked in `sched`, `sched_live` and `world_id_reuse`. The
others stop: `Game` at the bounds on ticks and events, `Runner` and
`Compilation` when the run is over, `Media`, `Session` and `Delivery` at their
bounds.

**Fairness.** `FairSpec` of `Scheduler` is weak fairness of `RoundStep` alone:
inside `run_round` the code is a loop, and `run_until_idle` and the game loops
call it again while something is runnable. Nothing is assumed of the host's
wakes and messages, nor of the scripts. `FairRunnerSpec` is weak fairness of the
next step: the runner is one sequential call. `FairSpec` of `Compilation` is
weak fairness of the next opcode, of the wake of a sleeping worker and of the
delivery of the inputs: the runner executes a program as long as it can, wakes
it when it sleeps (`runner.rs:101-121`) and answers what it waits for. The
others assume none and have no liveness properties.

## 4. Findings

- `sched_self_send`: a worker that sends to itself and then waits in the same
  frame waits for ever. The outbox is routed (`scheduler.rs:171`) before the
  worker is filed as waiting, so `deliver` finds no one to wake. Mail
  from others cannot be lost this way (`OthersMailResumesWaiter`, and the proved
  `WaitingMailIsOwn`).
- `world_id_reuse`: a restore takes `next_entity` back (`world.rs:166`), against
  the rule that ids are not reused (`SPEC/gameplay.md:5`).
- `runner_emit`: a system that emits panics, because the drain loop's
  `while let` (`runner.rs:58`) holds the borrow of the queue, against
  `SPEC/gameplay.md:14`.
- `language_void`: `Return` always pops (`wmvm/lib.rs:761`), also in a func that
  returns nothing, and the lowering drops a result after every call statement
  (`v2/lower.rs:356`): the call takes an operand of its caller or finds none,
  against `SPEC/vm.md:222`.

Met while modelling; where no property says so, it is kept out of the instances,
so that the properties can be checked on the rest:

- `continue` in a `for` jumps to the test and skips the increment
  (`v2/lower.rs:415`): the loop repeats its element for ever. The modules have
  `continue` in `while` only.
- Bindings of a block or of a `for` stay visible behind it when they shadow
  another of the same name: the lowering has one table of slots.
- The checker does not keep a module from failing by types. It lets pass
  operands of type `any`, among them what `await` gives (`is_number`,
  `v2/check.rs:551`, though `SPEC/language.md:21` forbids to narrow `any`
  implicitly: `let x: any = "s"; let y: int = x + 1` is accepted and fails with
  `TypeMismatch`); operands of comparisons;
  the types of arguments; the object and the sign of an index; the remainder of
  floats, which the VM has not (`wmvm/lib.rs:978-992`); and it takes
  what is read past the end of an array, or of a field that a record constructor
  left out, for a value of the declared type, where it is nil.
  `CheckedIsSafe` allows a `TypeMismatch` only to a module in which the meaning
  of the tree met such a value or operand before (`unchecked` in `Meaning`): 85
  of the 696 accepted modules. All others never fail by types, and no accepted
  module fails by names, constants, places of the code or the operand stack.
- Neither the checker nor the VM compares the number of arguments with the
  parameters, and a return may be missing: the modules of the instances have as
  many arguments as parameters and return where they say so.
- The signature of an archive does not cover bytes 48 to 64 of its header, which
  say where it is and how long: the bytes before the place
  that the header names are those that are signed, and an archive whose header
  says that there is no signature verifies (`security.rs:139-142`, `173-174`).
  `DamageIsNoticed` is of archives whose header still has the signature in its
  place (`SignatureStands`). Of the others the digests vouch for what they name
  (`DigestsVouch`), unless the changed file says that it has no manifest.
- Two workers that share the last id (`scheduler.rs:50-55`): the replaced one's
  mail is gone, the new one may be queued twice in a round or be parked and
  queued at once. `FiledOnce`, `FiledAsItIs`, `RecvTakesMessage` and
  `StoppedStaysStopped` except that id (`reissued`), and `FiledOnce` says that
  there is no other (`LastIdReissued`).
- `align_up` (`builder.rs:50-56`) masks, which aligns to powers of two only, while
  `align` may be any number (`types.rs:131`): with 6, what is at 10 stays there.
  The sections of the model are aligned to powers of two (up to `2^30`), or not at all
  (`PushableAssumption`): the modules that the toolchain pushes are (`16`), an
  asset's alignment is what the project says.
- `scene.layout` and `scene.z_index` (`extensions/scene.rs:15-38`) fail after
  part of their change; they are not modelled, so `FailedCallsShowOnly` is of
  the calls of `Session` only.
- A `func` or `system` may call a `task` that awaits, though it may not await.
- The verifier accepts jumps into the middle of an instruction;
  `VerifiedResolves` is of programs that have none, and `LoweredVerifies` says
  that the lowering makes none.
- An uppercase name before `{` in a condition is read as a record constructor,
  and the smallest 64 bit integer has no literal.
- `ext.vm.load` inside a round panics on the borrowed scheduler when the slot
  exists (`VmLoad` of `Session`). The process is gone then: no round ends, and a
  save that waited for its end is not made (`EndRound`). The proof of
  `LoadedIsSaved` needs this guard.
- A load that fails leaves the manifest of a streamed archive listed and its
  names entered; `UsedIsRegistered` is of what is used of it.
- A handle that a host kept over the load of a checkpoint may name another
  resource afterwards; those of scripts and draws cannot (`RawHandlesSafe`).

## 5. Proofs

Each theorem holds for every value of the constants that the `ASSUME`s of the
modules allow: any number of workers, ids, systems, events, handles, slots, calls
and programs. TLC has checked the inductive invariants on the runs' instances.

`SchedulerProofs`:

- `TypeCorrect` (`TypeOK`).
- `WorkersFiledOnce` (`FiledOnce`) and `OnlyTheLastIdTwice` (`LastIdReissued`)
  from the inductive `FilingInv`: the queue has no duplicates, the sets are
  disjoint, and a worker in its frame is in none, but for an id that was handed
  out twice; and the ids handed out are those below the counter, or all
  (`IdsInUse`), so that a spawn repeats none but the last.
  `FiledOnce` alone is not inductive: `Reconcile` files the running worker, and
  one must know it was filed nowhere.
- `SetsMatchStates` (`FiledAsItIs`) and `StoppedForGood` (`StoppedStaysStopped`)
  from `StateInv`, which adds what state the running worker's VM is in at each
  point of its frame and what the outcome says of it.
- `NoWakeUpLost` (`WaitingMailIsOwn`) and `OutboxesRouted` (`OutboxRouted`, of which `sched` checks what the refinement says) from
  `MailInv`, which adds whose messages are in the outbox of the worker that runs,
  and that its inbox has only its own when it is about to be filed as waiting.
- `RoundsRunTheirPlan` (`RoundRunsPlan`) from `PlanInv`. What is left of the plan
  is the head of the queue only while the queue is at least that long
  (`LeftIsQueued`): wakes and deliveries put workers behind it and nothing but
  the round takes one off.
- `RecvTakes` (`RecvTakesMessage`): no step but a receive takes from an inbox.
- `SchedulerImplementsMailboxes`: the scheduler implements `Mailboxes`. A send
  puts its message into the box of its receiver at once, though the code routes
  it when the frame ends; so the box of a worker is its inbox followed by what
  the running worker's outbox has for it (`Addressed`), and `RouteOutbox` is a
  stutter. A spawn that hands the last id out again is `Replace`, which empties the last
  box. The mapping rests on `BoxInv`, which joins `FilingInv` and `MailInv`. `Addressed` is
  a fold; `AddressedAppend` and `AddressedTail` say what it does with a longer
  and a shorter outbox.

`GameProofs`, of `World` and `Game`:

- `WorldTypeCorrect` (`WorldTypeOK`, which no run repeats), `SlotsLoadable` (`SavesCompatible`),
  `ComponentsOwned` (`PersistentOwned`) and `CounterStaysAhead`
  (`CounterAhead`). Each is inductive with the type invariant because it is
  stated of the live world and of every save alike: a restore makes a save live.
- `GameWorld`: every behaviour of `Game` is one of `World`, so that handlers,
  failed ticks and retries keep all of that (`GameWorldSafe`).
- `EventsAreInOrder` (`EventsInOrder`) and `EveryEventIsAccounted`
  (`EventsAccounted`) from `GameInv`: the queue is numbered without a gap from
  the number of events taken (`QueueOK`); those taken are in hand, handled or
  dropped, each in one of these places (`PlacesOK`); and a tick has counted what
  it has handled (`BudgetOK`). That ids are unique says neither that a failed
  tick leaves no gap nor that a retry takes the next event: the numbering does.

`RunnerProofs`:

- `InputsComeInOrder` (`InputsInOrder`) from `InputInv`: what was received, then
  the inbox, then what is left of the inputs, are the inputs given and then
  defaults; and the inbox holds a message exactly when a `Recv` waits for it.
- `EventsAreDispatchedInOrder` (`DispatchedInOrder`) from `DispatchInv`: the
  queue holds the events behind those processed without a gap, and the systems
  before the next have had the event if and only if they subscribed to it.

`MediaProofs`:

- `RawHandlesAreSafe` (`RawHandlesSafe`), `WhatPlaysHasPayload`
  (`PlayingHasPayload`), `NoSoundIsOrphan` (`NoOrphanSound`) and
  `LoadingHasRequest` (`LoadingIsRequested`) from `MediaInv`. It says one thing,
  `Consistent`, of the live state and of every checkpoint: a checkpoint can be
  loaded at any time. Handles keep their resource because the table only grows
  and an entry changes but its references, life and generation (`Grows`).

`SessionProofs`:

- `LoadsWhatWasSaved` (`LoadedIsSaved`) from `RestInv` and `SavedInv`: a
  checkpoint is the runtime as it was between two rounds, between rounds no
  script runs and no save waits, and the saves that wait in a round are those
  the script asked for in it.
- `FailedCallsLeaveNoTrace` (`FailedCallsShowOnly`), an action property, by the
  calls one after the other.
- `GuiIsKeptFrom` (`GuiNeedsCapability`) from `GuiInv`: without the capability
  the window, the policy and the panels are as at the start but for the host's
  settings, in the live state and in every checkpoint.
- `NoLineMissing` (`TextInLog`) from `TextInv`, said of the live window and of
  the window of every checkpoint: the lines shown are the last lines that the log
  holds. It rests on lemmas about `FlattenSeq`, `IsSuffix` and the lines that are
  not empty (`WrittenAppend`, `NonEmptyLines`, `TailMore`).
- `TicksMakeTheSame` (`StepsAddUp`, and `AnyStepsAddUp` with any numbers of steps)
  from `StoreInv`, said of the present and of every slot, in the live store and in
  every checkpoint: no progress is left between two ticks, rates are not negative,
  and resources are integers from the smallest on. A tick is a recursion over the
  jobs, each of which reads what those before it wrote; `TickIs` gives the store
  behind it in one go (`Later`), with what the jobs bring to a resource added up
  (`Gained`). To stop at the largest integer on the way makes no difference when
  nothing negative is added (`SaturatedTwice`), so the property needs no condition
  on the resources, and only one on the jobs: what one of them makes in a tick must be
  a number (`Unlimited`). Without that it is false: a resource of -1 and a job that makes more than the largest integer end one
  below it in one tick, and at it in two.

`ExecutionProofs`, for any programs, messages and wakes (`WorkerSpec`). The
behaviours of `Compilation` are among these: it chooses the messages.

- `VerifiedProgramsResolve` (`VerifiedResolves`) from `ResolvedInv`: the frame
  and each caller stand on an address that the verifier visited when it swept
  over the code from instruction to instruction. The verifier is a recursive
  function over addresses; `SweepsExist` shows that there is one, by a
  least-fixed-point construction over sets of addresses, and `SweepIs` that the
  function the model names is it.
- `OperandsStayOwned` (`OperandsOwned`, and that no operand is missing) from
  `OwnedInv`. A single stack is shared by all frames, so that the bound of one
  depends on all others: the stack is as high as the base of the frame plus the
  depth of its address, and each caller's operands end where its callee's begin.
  The hypothesis `Measured(program)` is what a compiler must provide: one depth
  per address. The `language` run shows it of all that the lowering makes
  (`LoweredBalances`). A function that ends without a value and is called
  does not meet it; that is the finding `language_void`.

`DeliveryProofs`, for any sections, packages, programs, keys and alignments of
powers of two, a fault of one of the three kinds anywhere in the file, and any
loads before it, and after it unless it is `Mislead`. All four rest on `DeliveryInv`
(`DeliveryHolds`):

- `BuildInv` says what the file is: that of the sections, package or program that
  were given, or that with its one fault (`Faulty`), with a manifest, if any,
  behind sections that have none. A cut or garbled file is `Near` the one that
  was written: its headers, table entries and the head of its manifest are as
  written, and the others as `Damaged` leaves them.
- `WhatIsWrittenIsRead` (`WrittenIsRead`). The sections in the order of their ids
  are those that were pushed (`ByIdIs`), each begins behind the one before it
  and where its alignment wants it (`StartsAre`), so that no two overlap
  (`LaidIs`) and what a reader takes is what was pushed (`FoundWhole`). A
  manifest is read back with or without the lists that came later
  (`ManifestWhole`). The readers of programs and packages walk a list of reads,
  each behind the one before it: `ReadAllWorks` says once what they return when
  the units are there and that they fail when the file ends before, and
  `ValueIsRead`, `ProgramIsRead` and `PackageIsRead` follow. Constants may be
  nested to any depth: `NestingInduction` goes by `Nesting`, which is larger of
  a value than of its parts.
- `NoDamageIsMissed` (`DamageIsNoticed`). The signature is of all units before it
  with the header's two fields left out (`SignatureFails`); so it fails when one
  of them was changed, whichever that is, as long as the header names the place
  where the signature was written. A file that ends before its last section is refused
  (`CutIsShort`).
- `LoadedIsWritten` (`OnlyWrittenIsLoaded`). A digest that was not damaged itself
  still has the section and the bytes that were pushed (`Vouched`), a damaged one
  never holds, and which sections have one no fault changes (`CoveredIs`). As the
  catalog keeps what earlier loads registered, the invariant is of every entry
  and not of the last load; `LoadInv` adds that nothing is loaded before there is
  a file.
- `UsedIsAlwaysRegistered` (`UsedIsRegistered`). What a load registered stays
  (`ReadyMore`), and a load that did not fail has registered every asset
  (`RegisteredIs`).

The assumptions on `Pushable`, `Packaged` and `Programs` give the types of the
source: ids are numbers, lists are lists, a function table is finite; and that a
section that is pushed is no manifest, for which there is `push_manifest`.

`ImagesAssumption` says that `Program` holds at each address of a function what
`decode_at` gives there; the instances compute it and TLC evaluates it.

**What is only model-checked.**

- Liveness: `EveryTurnComes`, `OthersMailResumesWaiter`, `RunEnds`, `ProgramEnds`.
- `DigestsVouch`, of files changed in their headers, table or manifest. The
  theorems about loads are of whole, cut and garbled files.
- What is said of trees: `ReadsAsWritten`, `RunsAsWritten`, `CheckedIsSafe`,
  `LoweredVerifies`, `LoweredBalances`. The parser, the lowering and the meaning
  of a tree are `RECURSIVE` operators, which the proof system does not reason
  about.

`WidthAssumption` of `Values` says that an integer of at least two bits has at least
two values that are not negative. It is so for every width; the provers know of powers
only that they are numbers, and TLC evaluates it.

The proof system has no definition of `@@`, `:>` and `SelectSeq`: what is proved
about writes such functions out, and joins sequences with `FlattenSeq`, of which the
lemmas `FlattenAppend` and `FlattenEmpty` say enough.

## 6. Abstractions and what is left out

- In `Scheduler` and `Runner` the operand stack and the values, so `Return` of a
  callee and type errors are `OpLocal` or `OpFault`; `Machine` has them.
- A float is the fraction it stands for: rounding, infinities, NaN, the sign of
  zero and the precision that a large integer loses when it is compared with a
  float are left out. What the VM refuses of floats, and what it does not, is in
  `Values`. The store of `Store` holds none, and handles are no operands. In `Parsing` spans, defaults of fields and the recovery behind an
  error.
- `GameSystem`s are arbitrary but change the world through `World`'s operations.
- An asset entry is its state in `Resources`: payload and `Ready` are set together,
  the catalog is filled before scripts load, and entries of ingested archives are
  not looked up again. `Delivery` has the payloads and the catalog.
- `SoundEnds` is the end of a player process, which the code notices at
  the next call for the handle, or never: playback states do not notice it.
- Of a style or panel, which of its fields were set; of a text, its lines.
- A file is a sequence of units, not bytes: a header, a table entry, a manifest
  entry or one piece of a payload. Digests and signatures are what they are
  computed from: hashes do not collide and keys are not guessed.
- Randomness, formatting, logging, layout and rendering.

Not modelled:

- the lexer of v2 (`v2/lexer.rs`) and the legacy compiler (`expr.rs`, `parser.rs`):
  functions of strings, character by character;
- `wms` projects and command line, the files that `wms build` and the toolchain
  read and copy: I/O without state of its own;
- `wmui`, `wmfrontend`: layout arithmetic and windows;
- registration of extensions one by one (`ExtensionRegistry`, `install_*`): the
  tables it ends with are in `Extensions`, those of `wmext` and of the runtime agree;
- `normalize_stream_signature_bytes`, which nothing calls; resource flags, memory accounting and eviction, which are
  written and never read.

## 7. Plan

Done, in this order: `Scheduler` with its abstract specification and proofs,
`World` with proofs, `Game`, `Runner`, `Resources`, `Media`; then the language
(`Values` to `Compilation`), the session (`Extensions` to `Session`) and the
archives (`Container` to `Delivery`); then the refinement of `Mailboxes` and the
proofs of `Game`, `Runner`, `Media`, `Session`, `Execution` and `Delivery`. Next:

1. The registration of extensions and hosts, from `install_*` to the ids scripts
   are compiled with.
2. A component registered again with another persistence in `World`.

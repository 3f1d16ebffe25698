--------------------------------- MODULE Session ---------------------------------
(***************************************************************************)
(* A Runtime from tick to tick: the calls a script makes inside a round,   *)
(* through the dispatcher and into the message window, the panels and the  *)
(* store; the host's calls between rounds; and the checkpoints, those that *)
(* the host asks for and those that a script does (ext.vm).                *)
(*                                                                         *)
(* The host's thread runs everything.  While a round runs the scheduler is *)
(* borrowed: a script's save waits for the end of the round, and its load  *)
(* cannot borrow the scheduler.  One script stands for all workers: the    *)
(* Scheduler module has them.  Images, sounds and resources are in Media.  *)
(***************************************************************************)
EXTENDS Extensions, Dialogue, Store

CONSTANTS
    Slot,          \* bound of the model: slots of checkpoints and of the store
    FirstSlot,     \* the one that every program may save to
    Texts,         \* texts of more than one line and of one
    Name,          \* ids of jobs and units, names of resources
    Masks,         \* capability masks of the configuration
    Programs,      \* groups of calls that some program makes
    MaxCalls       \* bound of the model: calls of a script

ASSUME SessionAssumption ==      \* slot 0 stands for none
    /\ 0 \notin Slot /\ FirstSlot \in Slot
    /\ Texts \subseteq Seq(STRING) \ {<<>>}
    /\ Programs \subseteq SUBSET {"text", "style", "panels", "store", "jobs",
                                  "units", "vm", "outside", "slots"}
    /\ MaxCalls \in Nat

VARIABLES
    makes,            \* the groups of calls that this program makes
    allowed,          \* capability mask of the configuration
    script,           \* the worker in the scheduler: its state and its calls
    inRound,          \* the scheduler is borrowed by run_round
    message_window,
    ui_policy,
    rpg_ui,
    state_manager,
    debug_log,        \* its length
    checkpoints,      \* slot -> checkpoint
    pending_vm_saves, \* slots to save to when the round ends
    panicked,         \* the process has ended
    asked,            \* history: the slots that the script asked to save to in this round
    asSaved,          \* history: the runtime as it was when a slot was to be saved
    loaded            \* history: the slot just loaded, none after a change

gui       == <<message_window, ui_policy, rpg_ui>>
parts     == <<script, gui, state_manager, debug_log>>
history   == <<asked, asSaved, loaded>>
config    == <<makes, allowed>>
vars      == <<config, parts, inRound, checkpoints, pending_vm_saves, panicked, history>>

NoSlot == 0

\* Bound of the model: who saves to more than one slot.
MaySaveTo(s) == s = FirstSlot \/ "slots" \in makes

Policy == [context_menu_enabled |-> FALSE, shift_fast_enabled |-> FALSE]
RpgUi  == [map_controls |-> <<>>, actions |-> <<>>, hud |-> FALSE]

SessionInit ==
    /\ makes \in Programs
    /\ allowed \in Masks
    /\ script = [state |-> "Ready", calls |-> 0]
    /\ inRound = FALSE
    /\ message_window = MessageWindow /\ ui_policy = Policy /\ rpg_ui = RpgUi
    /\ state_manager = StateManager /\ debug_log = 0
    /\ checkpoints = [s \in {} |-> {}] /\ pending_vm_saves = <<>>
    /\ panicked = FALSE
    /\ asked = {} /\ asSaved = [s \in {} |-> {}] /\ loaded = NoSlot

----------------------------------------------------------------------------
(***************************************************************************)
(* Rounds: tick runs the ready scripts, then makes the saves they asked    *)
(* for.                                                                    *)
(***************************************************************************)
BeginRound ==
    /\ ~inRound /\ ~panicked /\ script.state = "Ready"
    /\ inRound' = TRUE /\ script' = [script EXCEPT !.state = "Running"]
    /\ loaded' = NoSlot
    /\ UNCHANGED <<config, gui, state_manager, debug_log, checkpoints,
                   pending_vm_saves, panicked, asked, asSaved>>

Snapshot == [scheduler |-> script, message_window |-> message_window,
             ui_policy |-> ui_policy, rpg_ui |-> rpg_ui, debug_log |-> debug_log,
             state_manager |-> state_manager]

\* All slots of S are saved to, as the runtime is after the step.
Put(f, S, v) == [s \in S \cup DOMAIN f |-> IF s \in S THEN v ELSE f[s]]
SaveTo(S) == checkpoints' = Put(checkpoints, S, Snapshot')

\* Wrong on purpose: only the save that was asked for first.
flush_pending_vm_saves__First ==
    SaveTo({pending_vm_saves[i] : i \in DOMAIN pending_vm_saves \cap {1}})

flush_pending_vm_saves == SaveTo(ToSet(pending_vm_saves))

\* The frame is over - the script yields, waits or halts, or has failed - and
\* the saves are made, also those of a script that failed after it.
EndRound ==
    /\ inRound /\ ~panicked
    /\ inRound' = FALSE
    /\ \/ script.state = "Running"
          /\ \E s \in {"Ready", "Waiting", "Halted"} :
                script' = [script EXCEPT !.state = s]
       \/ script.state = "Failed" /\ UNCHANGED script
    /\ UNCHANGED <<config, gui, state_manager, debug_log, panicked, loaded>>
    /\ flush_pending_vm_saves
    /\ pending_vm_saves' = <<>>
    /\ asSaved' = Put(asSaved, asked, parts') /\ asked' = {}

----------------------------------------------------------------------------
(***************************************************************************)
(* Calls of the script.                                                    *)
(***************************************************************************)
Running == inRound /\ ~panicked /\ script.state = "Running"
Made    == script' = [script EXCEPT !.calls = @ + 1]
Fails   == script' = [script EXCEPT !.state = "Failed"]

\* f is called with n arguments and gets through to its function.
Call(group, f, n) ==
    /\ Running /\ script.calls < MaxCalls
    /\ group \in makes
    /\ call(f, n, allowed)
    /\ UNCHANGED <<config, inRound, panicked, checkpoints, history>>

OnWindow(w)  == /\ message_window' = w /\ Made
                /\ UNCHANGED <<ui_policy, rpg_ui, state_manager, debug_log, pending_vm_saves>>
FailsWith(w) == /\ message_window' = w /\ Fails
                /\ UNCHANGED <<ui_policy, rpg_ui, state_manager, debug_log, pending_vm_saves>>
OnStore(s)   == /\ state_manager' = s /\ Made
                /\ UNCHANGED <<gui, debug_log, pending_vm_saves>>

\* The script calls a function with too many arguments, without a capability or
\* with an argument that the function refuses before it changes anything.
Refused ==
    /\ Running /\ script.calls < MaxCalls
    /\ \E f \in DOMAIN HostFunctions :
            ~call(f, HostFunctions[f].max + 1, allowed)
    /\ Fails
    /\ UNCHANGED <<config, gui, state_manager, debug_log, inRound, checkpoints,
                   pending_vm_saves, panicked, history>>

(***************************************************************************)
(* ext.message                                                             *)
(***************************************************************************)
Show == \E speaker \in {Nobody, "S"}, text \in Texts :
    /\ Call("text", "show", IF speaker = Nobody THEN 1 ELSE 2)
    /\ OnWindow(Shown(message_window, speaker, text))
AppendLine == \E line \in Texts :
    Call("text", "append", 1) /\ OnWindow(Appended(message_window, line))
ShowChoices == \E labels \in {<<>>, <<"a">>, <<"a", "b">>} :
    Call("text", "choices", Len(labels)) /\ OnWindow(Chosen(message_window, labels))

Choice(id) == [id |-> id, label |-> id]

\* Wrong on purpose: the choices before the wrong one are shown.
ChoicesNamed__Partly == \E n \in 0 .. 3, wrong \in BOOLEAN :
    /\ Call("text", "choices_named", n)
    /\ IF n % 2 = 1 THEN FailsWith(message_window)
       ELSE LET pairs == [i \in 1 .. n \div 2 |-> Choice("b")]
            IN  IF wrong /\ n > 0 THEN FailsWith(ChosenByName(message_window, pairs))
                ELSE OnWindow(ChosenByName(message_window, pairs))

\* An odd number of arguments is refused at once; a pair that is not of
\* strings only after the window has been made visible.
ChoicesNamed == \E n \in 0 .. 3, wrong \in BOOLEAN :
    /\ Call("text", "choices_named", n)
    /\ IF n % 2 = 1 THEN FailsWith(message_window)
       ELSE IF wrong /\ n > 0
       THEN FailsWith([message_window EXCEPT !.visible = TRUE])
       ELSE OnWindow(ChosenByName(message_window,
                                  [i \in 1 .. n \div 2 |-> Choice("b")]))

\* Likewise for what is no prompt.
Prompt == \E prompt \in {NoPrompt, "p", "wrong"} :
    /\ Call("text", "prompt", IF prompt = NoPrompt THEN 0 ELSE 1)
    /\ IF prompt = "wrong" THEN FailsWith([message_window EXCEPT !.visible = TRUE])
                           ELSE OnWindow(Prompted(message_window, prompt))
Hide     == Call("text", "hide", 0) /\ OnWindow(Hidden(message_window))
Speed    == \E speed \in {-5, 24} :
    Call("style", "speed", 1) /\ OnWindow(Paced(message_window, speed))
AutoMode     == \E enabled \in BOOLEAN :
    Call("style", "auto", 1) /\ OnWindow([message_window EXCEPT !.auto_mode = enabled])
Skip     == \E enabled \in BOOLEAN :
    Call("style", "skip", 1) /\ OnWindow([message_window EXCEPT !.skip_mode = enabled])
LogClear == Call("text", "log_clear", 0) /\ OnWindow(LogCleared(message_window))
Clear    == Call("text", "clear", 0) /\ OnWindow(Cleared)
Style    == \E f \in Colors \cup Boxes \cup {"content_inset", "font_size"} :
    Call("style", f, HostFunctions[f].min) /\ OnWindow(Styled(message_window, f))
ResetStyle == Call("style", "reset_style", 0) /\ OnWindow(StyleReset(message_window))
Frame    == \E n \in 0 .. 1, wrong \in BOOLEAN :
    /\ Call("style", "frame", n)
    /\ IF n = 1 /\ wrong THEN FailsWith(message_window)
                         ELSE OnWindow(Framed(message_window, n = 1))
Locale   == \E n \in 0 .. 1, ja \in BOOLEAN :
    /\ Call("style", "locale", n)
    /\ OnWindow(IF n = 0 THEN message_window ELSE Localized(message_window, ja))

Message == \/ Show \/ AppendLine \/ ShowChoices \/ ChoicesNamed \/ Prompt \/ Hide
           \/ Speed \/ AutoMode \/ Skip \/ LogClear \/ Clear \/ Style \/ ResetStyle
           \/ Frame \/ Locale

(***************************************************************************)
(* ext.ui, ext.rpg and ext.debug                                           *)
(***************************************************************************)
OnRpg(r) == /\ rpg_ui' = r /\ Made
            /\ UNCHANGED <<message_window, ui_policy, state_manager, debug_log,
                           pending_vm_saves>>

SetPolicy == \E f \in {"context_menu", "shift_fast"}, enabled \in BOOLEAN :
    /\ Call("panels", f, 1)
    /\ ui_policy' = IF f = "context_menu"
                    THEN [ui_policy EXCEPT !.context_menu_enabled = enabled]
                    ELSE [ui_policy EXCEPT !.shift_fast_enabled = enabled]
    /\ Made
    /\ UNCHANGED <<message_window, rpg_ui, state_manager, debug_log, pending_vm_saves>>

\* Directions without a name are dropped.
MapControls == \E directions \in {<<>>, <<"up">>, <<"">>} :
    /\ Call("panels", "map_controls", 1 + Len(directions))
    /\ OnRpg([rpg_ui EXCEPT !.map_controls = SelectSeq(directions, LAMBDA d : d # "")])
Actions == \E n \in 0 .. 2 :
    /\ Call("panels", "actions", n)
    /\ IF n % 2 = 1 THEN FailsWith(message_window)
       ELSE OnRpg([rpg_ui EXCEPT !.actions = [i \in 1 .. n \div 2 |-> "act"]])
Hud      == Call("panels", "hud", 2) /\ OnRpg([rpg_ui EXCEPT !.hud = TRUE])
RpgClear == Call("panels", "rpg_clear", 0) /\ OnRpg(RpgUi)
Log      == /\ Call("panels", "log", 1) /\ debug_log' = debug_log + 1 /\ Made
            /\ UNCHANGED <<gui, state_manager, pending_vm_saves>>

Panels == SetPolicy \/ MapControls \/ Actions \/ Hud \/ RpgClear \/ Log

\* ext.fs, ext.net and ext.llm: their backends answer or fail.
Outside == \E f \in {"fs_write", "net_get", "llm_generate"} :
    /\ Call("outside", f, HostFunctions[f].min)
    /\ Made \/ Fails
    /\ UNCHANGED <<gui, state_manager, debug_log, pending_vm_saves>>

(***************************************************************************)
(* state, ext.automation and ext.rts                                       *)
(***************************************************************************)
Own(name) == <<"script", name>>

StateSet   == \E k \in Name, n \in 1 .. 2 :
    Call("store", "state_set", 2) /\ OnStore(set(state_manager, Own(k), Integer(n)))
StateErase == \E k \in Name :
    Call("store", "state_erase", 1) /\ OnStore(erase(state_manager, Own(k)))
StateSave  == \E s \in Slot :
    Call("store", "state_save", 1) /\ OnStore(save(state_manager, s))
StateLoad  == \E s \in Slot :
    Call("store", "state_load", 1) /\ OnStore(load(state_manager, s))

SetResource == \E r \in Name, n \in {-1, 2} :
    Call("jobs", "set_resource", 2) /\ OnStore(set_resource(state_manager, r, n))
AddResource == \E r \in Name, n \in {-1, 2} :
    Call("jobs", "add_resource", 2) /\ OnStore(add_resource(state_manager, r, n))
SetJob == \E j \in Name, enabled \in BOOLEAN, rate \in {-1, 2}, output \in Name \cup {""} :
    /\ Call("jobs", "set_job", 4)
    /\ OnStore(set_job(state_manager, j, enabled, rate, output))
EnableJob == \E j \in Name, enabled \in BOOLEAN :
    Call("jobs", "enable_job", 2) /\ OnStore(enable_job(state_manager, j, enabled))
TickJobs == \E steps \in {-1, 0, 3} :
    Call("jobs", "tick", 1) /\ OnStore(tick(state_manager, steps))

SetUnit == \E u \in Name, x \in 0 .. 1, hp \in {-1, 2} :
    Call("units", "set_unit", 5) /\ OnStore(set_unit(state_manager, u, "T", x, 0, hp))
MoveUnit == \E u \in Name, x \in 0 .. 1 :
    Call("units", "move_unit", 3) /\ OnStore(move_unit(state_manager, u, x, 1))
DamageUnit == \E u \in Name, damage \in {-1, 1, 3} :
    Call("units", "damage_unit", 2) /\ OnStore(damage_unit(state_manager, u, damage))

StoreCalls == \/ StateSet \/ StateErase \/ StateSave \/ StateLoad
              \/ SetResource \/ AddResource \/ SetJob \/ EnableJob \/ TickJobs
              \/ SetUnit \/ MoveUnit \/ DamageUnit

(***************************************************************************)
(* ext.vm                                                                  *)
(***************************************************************************)

AsksFor(s) ==
    /\ Running /\ script.calls < MaxCalls /\ "vm" \in makes
    /\ call("vm_save", 1, allowed)
    /\ asked' = asked \cup {s} /\ Made
    /\ UNCHANGED <<config, gui, state_manager, debug_log, inRound, panicked,
                   asSaved, loaded>>

\* Wrong on purpose: the save is made in the middle of the round.
VmSave__AtOnce == \E s \in Slot :
    MaySaveTo(s) /\ AsksFor(s) /\ SaveTo({s}) /\ UNCHANGED pending_vm_saves

\* The scheduler is borrowed by the round that the script runs in, so the save
\* waits for its end.
VmSave == \E s \in Slot :
    /\ MaySaveTo(s) /\ AsksFor(s)
    /\ pending_vm_saves' = Append(pending_vm_saves, s)
    /\ UNCHANGED checkpoints

\* Without such a checkpoint, false; with one, the scheduler is borrowed a
\* second time and the process panics.
VmLoad == \E s \in Slot :
    /\ Running /\ script.calls < MaxCalls /\ "vm" \in makes
    /\ call("vm_load", 1, allowed)
    /\ IF s \in DOMAIN checkpoints THEN panicked' = TRUE /\ UNCHANGED script
                                   ELSE Made /\ UNCHANGED panicked
    /\ UNCHANGED <<config, gui, state_manager, debug_log, inRound, checkpoints,
                   pending_vm_saves, history>>

----------------------------------------------------------------------------
(***************************************************************************)
(* The host, between rounds.                                               *)
(***************************************************************************)
AtRest == ~inRound /\ ~panicked

Wake ==
    /\ AtRest /\ script.state = "Waiting"
    /\ script' = [script EXCEPT !.state = "Ready"]
    /\ loaded' = NoSlot
    /\ UNCHANGED <<config, gui, state_manager, debug_log, inRound, checkpoints,
                   pending_vm_saves, panicked, asked, asSaved>>

HostSets ==
    /\ AtRest
    /\ \/ "style" \in makes /\ UNCHANGED state_manager
          /\ \/ \E speed \in {-5, 24} : message_window' = Paced(message_window, speed)
             \/ \E b \in BOOLEAN :
                   message_window' \in {[message_window EXCEPT !.auto_mode = b],
                                        [message_window EXCEPT !.skip_mode = b],
                                        Localized(message_window, b)}
       \/ "store" \in makes /\ UNCHANGED message_window
          /\ \E k \in Name :
                state_manager' = set(state_manager, Own(k), Bool(TRUE))
    /\ loaded' = NoSlot
    /\ UNCHANGED <<config, script, ui_policy, rpg_ui, debug_log, inRound, checkpoints,
                   pending_vm_saves, panicked, asked, asSaved>>

SaveCheckpoint == \E s \in Slot :
    /\ AtRest /\ "vm" \in makes /\ MaySaveTo(s)
    /\ UNCHANGED <<config, parts, inRound, pending_vm_saves, panicked, asked, loaded>>
    /\ SaveTo({s})
    /\ asSaved' = Put(asSaved, {s}, parts)

\* Wrong on purpose: the policy of the user interface is not taken back.
Restore__KeepsPolicy(checkpoint) ==
    /\ script' = checkpoint.scheduler
    /\ message_window' = checkpoint.message_window
    /\ UNCHANGED ui_policy
    /\ rpg_ui' = checkpoint.rpg_ui
    /\ debug_log' = checkpoint.debug_log
    /\ state_manager' = checkpoint.state_manager

Restore(checkpoint) ==
    /\ script' = checkpoint.scheduler
    /\ message_window' = checkpoint.message_window
    /\ ui_policy' = checkpoint.ui_policy
    /\ rpg_ui' = checkpoint.rpg_ui
    /\ debug_log' = checkpoint.debug_log
    /\ state_manager' = checkpoint.state_manager

LoadCheckpoint == \E s \in DOMAIN checkpoints :
    /\ AtRest
    /\ Restore(checkpoints[s])
    /\ loaded' = s
    /\ UNCHANGED <<config, inRound, checkpoints, pending_vm_saves, panicked,
                   asked, asSaved>>

ScriptNext == Message \/ Panels \/ Outside \/ StoreCalls \/ VmSave \/ VmLoad \/ Refused
HostNext   == Wake \/ HostSets \/ SaveCheckpoint \/ LoadCheckpoint
Next       == BeginRound \/ EndRound \/ ScriptNext \/ HostNext
SessionSpec == SessionInit /\ [][Next]_vars

----------------------------------------------------------------------------

\* The runtime that a checkpoint holds.
Held(c) == <<c.scheduler, <<c.message_window, c.ui_policy, c.rpg_ui>>,
             c.state_manager, c.debug_log>>

\* Every save that a script asks for is made when its round ends, of the whole
\* runtime as it is then - whatever the script did after it, or if it failed -
\* and is not made again later; a slot holds what was saved to it last, and a
\* load brings all of that back (vm_save, flush_pending_vm_saves,
\* save_checkpoint, load_checkpoint).
LoadedIsSaved ==
    /\ DOMAIN checkpoints = DOMAIN asSaved
    /\ \A s \in DOMAIN asSaved : Held(checkpoints[s]) = asSaved[s]
    /\ loaded # NoSlot => parts = asSaved[loaded]

\* The text in the window is the end of the log, so that no line is shown that
\* the log misses; or, once the log is cleared under a text, what is logged since
\* is the end of the text: whatever is shown, appended, cleared and loaded.
\* (Empty lines are not compared.)
Kept(line)     == IF line = EmptyLine THEN <<>> ELSE <<line>>
NonEmpty(text) == FlattenSeq([i \in DOMAIN text |-> Kept(text[i])])
Written(texts) == FlattenSeq([i \in DOMAIN texts |-> NonEmpty(texts[i])])
IsTail(a, b)   == IsSuffix(a, b) \/ IsSuffix(b, a)
TextInLog ==
    IsTail(NonEmpty(message_window.text), Written(message_window.backlog))

\* Without the capability no call of a script reaches the window or a panel,
\* not even through a checkpoint; the host still sets how texts are shown.
GuiNeedsCapability ==
    "gui" \notin allowed =>
        /\ ui_policy = Policy /\ rpg_ui = RpgUi
        /\ [message_window EXCEPT !.text_speed = 48, !.auto_mode = FALSE,
                                  !.skip_mode = FALSE, !.locale = "ja"]
               = MessageWindow

\* The jobs make as much in two ticks as in one of as many steps, as long as what
\* one of them makes in it is a number.
Unlimited(s, n) == \A j \in Name : n * state_integer(s, Job(j, "rate")) <= MaxInt
StepsAddUp ==
    \A a, b \in 1 .. 2 :
        Unlimited(state_manager, a + b) =>
            tick(tick(state_manager, a), b) = tick(state_manager, a + b)

\* A call that fails changes nothing but that the window may have come up, of
\* the calls that this module has: scene.layout and scene.z_index, which fail
\* after a part of their change, are outside it.
FailedCallsShowOnly ==
    [][script.state = "Running" /\ script'.state = "Failed" =>
        /\ UNCHANGED <<ui_policy, rpg_ui, state_manager, debug_log, checkpoints,
                       pending_vm_saves>>
        /\ message_window' \in {message_window,
                                 [message_window EXCEPT !.visible = TRUE]}]_vars
=============================================================================

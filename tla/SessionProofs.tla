----------------------------- MODULE SessionProofs -----------------------------
(***************************************************************************)
(* What a Runtime keeps from tick to tick, for any configuration, any      *)
(* programs, texts, names and slots and any number of calls.               *)
(***************************************************************************)
EXTENDS Session, Numbers, SequenceTheorems

(***************************************************************************)
(* The kinds of steps.                                                     *)
(***************************************************************************)

\* A call changes neither the configuration nor the checkpoints.
LEMMA CallsStay ==
    ASSUME ScriptNext
    PROVE  Running /\ UNCHANGED <<config, inRound, checkpoints, asSaved, loaded>>
<1>1. CASE Message
  BY <1>1 DEF Message, Show, AppendLine, ShowChoices, ChoicesNamed, Prompt, Hide, Speed,
              AutoMode, Skip, LogClear, Clear, Style, ResetStyle, Frame, Locale, Call,
              history
<1>2. CASE Panels \/ Outside
  BY <1>2 DEF Panels, SetPolicy, MapControls, Actions, Hud, RpgClear, Log, Outside, Call,
              history
<1>3. CASE StoreCalls
  BY <1>3 DEF StoreCalls, StateSet, StateErase, StateSave, StateLoad, SetResource,
              AddResource, SetJob, EnableJob, TickJobs, SetUnit, MoveUnit, DamageUnit,
              Call, history
<1>4. CASE VmSave \/ VmLoad \/ Refused
  BY <1>4 DEF VmSave, AsksFor, VmLoad, Refused, Call, history
<1>5. QED BY <1>1, <1>2, <1>3, <1>4 DEF ScriptNext

\* A save that is asked for is noted, and no other call notes one.
LEMMA CallsAsk ==
    ASSUME ScriptNext
    PROVE  \/ UNCHANGED <<asked, pending_vm_saves>>
           \/ \E s \in Slot : /\ asked' = asked \cup {s}
                              /\ pending_vm_saves' = Append(pending_vm_saves, s)
<1>1. CASE Message
  BY <1>1 DEF Message, Show, AppendLine, ShowChoices, ChoicesNamed, Prompt, Hide, Speed,
              AutoMode, Skip, LogClear, Clear, Style, ResetStyle, Frame, Locale, Call,
              OnWindow, FailsWith, history
<1>2. CASE Panels \/ Outside
  BY <1>2 DEF Panels, SetPolicy, MapControls, Actions, Hud, RpgClear, Log, Outside, Call,
              OnRpg, FailsWith, history
<1>3. CASE StoreCalls
  BY <1>3 DEF StoreCalls, StateSet, StateErase, StateSave, StateLoad, SetResource,
              AddResource, SetJob, EnableJob, TickJobs, SetUnit, MoveUnit, DamageUnit,
              Call, OnStore, history
<1>4. CASE VmSave
  BY <1>4 DEF VmSave, AsksFor
<1>5. CASE VmLoad \/ Refused
  BY <1>5 DEF VmLoad, Refused, Call, history
<1>6. QED BY <1>1, <1>2, <1>3, <1>4, <1>5 DEF ScriptNext

\* A call is made, fails having shown the window at most, or panics.
ShowsOnly ==
    /\ UNCHANGED <<ui_policy, rpg_ui, state_manager, debug_log, checkpoints,
                   pending_vm_saves>>
    /\ message_window' \in {message_window, [message_window EXCEPT !.visible = TRUE]}

LEMMA CallsOutcome ==
    ASSUME ScriptNext
    PROVE  Made \/ UNCHANGED script \/ (Fails /\ ShowsOnly)
<1>1. CASE Message
  BY <1>1, CallsStay
     DEF Message, Show, AppendLine, ShowChoices, ChoicesNamed, Prompt, Hide, Speed,
         AutoMode, Skip, LogClear, Clear, Style, ResetStyle, Frame, Locale, OnWindow,
         FailsWith, ShowsOnly
<1>2. CASE Panels
  BY <1>2, CallsStay
     DEF Panels, SetPolicy, MapControls, Actions, Hud, RpgClear, Log, OnRpg,
         FailsWith, ShowsOnly
<1>3. CASE StoreCalls
  BY <1>3
     DEF StoreCalls, StateSet, StateErase, StateSave, StateLoad, SetResource,
         AddResource, SetJob, EnableJob, TickJobs, SetUnit, MoveUnit, DamageUnit, OnStore
<1>4. CASE VmSave \/ VmLoad \/ Refused \/ Outside
  BY <1>4, CallsStay DEF VmSave, AsksFor, VmLoad, Refused, Outside, gui, ShowsOnly
<1>5. QED BY <1>1, <1>2, <1>3, <1>4 DEF ScriptNext

\* What a save puts into the slots of S.
LEMMA Saves ==
    ASSUME NEW S, SaveTo(S)
    PROVE  /\ DOMAIN checkpoints' = S \cup DOMAIN checkpoints
           /\ \A s \in S : checkpoints'[s] = Snapshot'
           /\ \A s \in DOMAIN checkpoints \ S : checkpoints'[s] = checkpoints[s]
BY DEF SaveTo, Put

(***************************************************************************)
(* A checkpoint is a moment between rounds.                                *)
(***************************************************************************)

Script == [state : {"Ready", "Running", "Waiting", "Halted", "Failed"}, calls : Nat]

\* Between rounds no script runs and no save waits, in a round those that were
\* asked for do, and what was loaded last is what is there.
RestInv ==
    /\ script \in Script
    /\ script.state = "Running" => inRound
    /\ ~inRound => pending_vm_saves = <<>>
    /\ pending_vm_saves \in Seq(Slot) /\ asked = ToSet(pending_vm_saves)
    /\ inRound => loaded = NoSlot
    /\ loaded # NoSlot => loaded \in DOMAIN asSaved /\ parts = asSaved[loaded]

\* Every checkpoint holds the runtime as it was, at rest, when it was saved.
SavedInv ==
    /\ DOMAIN checkpoints = DOMAIN asSaved
    /\ \A s \in DOMAIN checkpoints :
          /\ asSaved[s] = Held(checkpoints[s])
          /\ checkpoints[s].scheduler \in Script
          /\ checkpoints[s].scheduler.state # "Running"

LEMMA SnapshotHolds ==
    /\ Held(Snapshot) = parts
    /\ Snapshot.scheduler = script
    /\ Snapshot.message_window = message_window
    /\ Snapshot.ui_policy = ui_policy /\ Snapshot.rpg_ui = rpg_ui
BY DEF Held, Snapshot, parts, gui

\* So it is before and after every step.
LEMMA SnapshotHoldsNext ==
    /\ Held(Snapshot)' = parts'
    /\ Snapshot'.scheduler = script'
    /\ Snapshot'.message_window = message_window'
    /\ Snapshot'.ui_policy = ui_policy' /\ Snapshot'.rpg_ui = rpg_ui'
BY DEF Held, Snapshot, parts, gui

\* It still does when a save is made and the history has it.
LEMMA SavedAnew ==
    ASSUME SavedInv, NEW S, SaveTo(S), asSaved' = Put(asSaved, S, parts'),
           script' \in Script, script'.state # "Running"
    PROVE  SavedInv'
<1>1. /\ DOMAIN checkpoints' = S \cup DOMAIN checkpoints
      /\ \A s \in S : checkpoints'[s] = Snapshot'
      /\ \A s \in DOMAIN checkpoints \ S : checkpoints'[s] = checkpoints[s]
  BY Saves
<1> HIDE DEF parts
<1>2. /\ DOMAIN asSaved' = S \cup DOMAIN asSaved
      /\ \A s \in S : asSaved'[s] = parts'
      /\ \A s \in DOMAIN asSaved \ S : asSaved'[s] = asSaved[s]
  <2>1. DOMAIN asSaved' = S \cup DOMAIN asSaved
    BY DEF Put
  <2>2. \A s \in S : asSaved'[s] = parts'
    BY DEF Put
  <2>3. \A s \in DOMAIN asSaved \ S : asSaved'[s] = asSaved[s]
    BY DEF Put
  <2>4. QED BY <2>1, <2>2, <2>3
<1>3. QED BY <1>1, <1>2, SnapshotHoldsNext, ZenonT(30) DEF SavedInv

\* What is asked for and what waits, after one more.
LEMMA AskedWaits ==
    ASSUME pending_vm_saves \in Seq(Slot), asked = ToSet(pending_vm_saves), ScriptNext
    PROVE  pending_vm_saves' \in Seq(Slot) /\ asked' = ToSet(pending_vm_saves')
<1>1. CASE UNCHANGED <<asked, pending_vm_saves>>
  BY <1>1
<1>2. CASE \E s \in Slot : /\ asked' = asked \cup {s}
                           /\ pending_vm_saves' = Append(pending_vm_saves, s)
  <2>1. PICK s \in Slot : /\ asked' = asked \cup {s}
                          /\ pending_vm_saves' = Append(pending_vm_saves, s)
    BY <1>2
  <2> DEFINE p == pending_vm_saves
             q == Append(p, s)
  <2>2. /\ q \in Seq(Slot) /\ Len(q) = Len(p) + 1 /\ Len(p) \in Nat
        /\ \A i \in 1 .. Len(p) : q[i] = p[i]
        /\ q[Len(p) + 1] = s
    OBVIOUS
  <2>3. DOMAIN p = 1 .. Len(p) /\ DOMAIN q = 1 .. Len(q)
    BY <2>2
  <2>4. ToSet(p) = {p[i] : i \in 1 .. Len(p)} /\ ToSet(q) = {q[i] : i \in 1 .. Len(q)}
    BY <2>3 DEF ToSet
  <2> HIDE DEF q
  <2>5. {q[i] : i \in 1 .. Len(q)} = {p[i] : i \in 1 .. Len(p)} \cup {s}
    BY <2>2
  <2>6. QED BY <2>1, <2>2, <2>4, <2>5 DEF q
<1>3. QED BY <1>1, <1>2, CallsAsk

LEMMA RestKept ==
    ASSUME RestInv, SavedInv, [Next]_vars
    PROVE  RestInv' /\ SavedInv'
<1>1. CASE ScriptNext
  <2>1. Running /\ UNCHANGED <<config, inRound, checkpoints, asSaved, loaded>>
    BY <1>1, CallsStay
  <2>2. inRound /\ inRound' /\ loaded = NoSlot
    BY <2>1 DEF Running, RestInv
  <2>3. pending_vm_saves' \in Seq(Slot) /\ asked' = ToSet(pending_vm_saves')
    BY <1>1, AskedWaits DEF RestInv
  <2>4. script' \in Script
    <3>1. Made \/ Fails \/ UNCHANGED script
      BY <1>1, CallsOutcome
    <3>2. QED BY <3>1 DEF Made, Fails, RestInv, Script
  <2>5. QED BY <2>1, <2>2, <2>3, <2>4 DEF RestInv, SavedInv
<1>2. CASE BeginRound
  <2>1. script' \in Script
    BY <1>2 DEF BeginRound, RestInv, Script
  <2>2. QED BY <1>2, <2>1 DEF BeginRound, RestInv, SavedInv
<1>3. CASE EndRound
  <2>1. /\ SaveTo(ToSet(pending_vm_saves)) /\ inRound /\ inRound' = FALSE
        /\ asSaved' = Put(asSaved, asked, parts') /\ asked' = {}
        /\ pending_vm_saves' = <<>> /\ loaded' = loaded
    BY <1>3 DEF EndRound, flush_pending_vm_saves
  <2>2. script' \in Script /\ script'.state # "Running"
    <3>1. CASE script.state = "Failed" /\ UNCHANGED script
      BY <3>1 DEF RestInv
    <3>2. CASE /\ script.state = "Running"
               /\ \E s \in {"Ready", "Waiting", "Halted"} :
                     script' = [script EXCEPT !.state = s]
      <4>1. PICK s \in {"Ready", "Waiting", "Halted"} :
                     script' = [script EXCEPT !.state = s]
        BY <3>2
      <4>2. QED BY <4>1 DEF RestInv, Script
    <3>3. QED BY <1>3, <3>1, <3>2 DEF EndRound
  <2>3. RestInv'
    <3>1. <<>> \in Seq(Slot) /\ ToSet(<<>>) = {}
      BY DEF ToSet
    <3>2. QED BY <2>1, <2>2, <3>1 DEF RestInv
  <2>4. SavedInv'
    <3>1. asked = ToSet(pending_vm_saves)
      BY DEF RestInv
    <3>2. QED BY <2>1, <2>2, <3>1, SavedAnew
  <2>5. QED BY <2>3, <2>4
<1>4. CASE SaveCheckpoint
  <2>1. PICK s \in Slot :
            /\ AtRest /\ UNCHANGED <<parts, inRound, pending_vm_saves, asked, loaded>>
            /\ SaveTo({s}) /\ asSaved' = Put(asSaved, {s}, parts)
    BY <1>4 DEF SaveCheckpoint
  <2>2. script' \in Script /\ script'.state # "Running"
    <3>1. script' = script /\ script \in Script /\ script.state # "Running"
      BY <2>1 DEF parts, AtRest, RestInv
    <3>2. QED BY <3>1
  <2>3. SavedInv'
    <3>1. asSaved' = Put(asSaved, {s}, parts')
      BY <2>1
    <3>2. QED BY <2>1, <2>2, <3>1, SavedAnew
  <2>4. RestInv'
    <3> HIDE DEF parts
    <3>1. loaded' # NoSlot => loaded' \in DOMAIN asSaved' /\ parts' = asSaved'[loaded']
      BY <2>1 DEF RestInv, Put
    <3>2. QED BY <2>1, <2>2, <3>1 DEF RestInv
  <2>5. QED BY <2>3, <2>4
<1>5. CASE LoadCheckpoint
  <2>1. PICK s \in DOMAIN checkpoints :
            /\ AtRest /\ Restore(checkpoints[s]) /\ loaded' = s
            /\ UNCHANGED <<inRound, checkpoints, pending_vm_saves, asked, asSaved>>
    BY <1>5 DEF LoadCheckpoint
  <2>2. /\ parts' = Held(checkpoints[s])
        /\ script' \in Script /\ script'.state # "Running"
    BY <2>1 DEF Restore, parts, gui, Held, SavedInv
  <2>3. s \in DOMAIN asSaved /\ asSaved[s] = Held(checkpoints[s])
    BY <2>1 DEF SavedInv
  <2> HIDE DEF parts
  <2>4. RestInv'
    BY <2>1, <2>2, <2>3 DEF RestInv, AtRest
  <2>5. SavedInv'
    BY <2>1 DEF SavedInv
  <2>6. QED BY <2>4, <2>5
<1>6. CASE Wake \/ HostSets
  <2>1. /\ ~inRound /\ loaded' = NoSlot
        /\ UNCHANGED <<inRound, checkpoints, pending_vm_saves, asked, asSaved>>
    BY <1>6 DEF Wake, HostSets, AtRest
  <2>2. script' \in Script /\ script'.state # "Running"
    BY <1>6 DEF Wake, HostSets, AtRest, RestInv, Script
  <2>3. QED BY <2>1, <2>2 DEF RestInv, SavedInv
<1>7. CASE UNCHANGED vars
  <2>1. UNCHANGED <<parts, script, inRound, checkpoints, pending_vm_saves, history>>
    BY <1>7 DEF vars, parts, history
  <2> HIDE DEF parts
  <2>2. QED BY <2>1 DEF RestInv, SavedInv, history
<1>8. QED BY <1>1, <1>2, <1>3, <1>4, <1>5, <1>6, <1>7 DEF Next, HostNext

LEMMA RestHolds == SessionSpec => [](RestInv /\ SavedInv)
<1>1. SessionInit => RestInv /\ SavedInv
  BY DEF SessionInit, RestInv, SavedInv, Script, ToSet
<1>2. RestInv /\ SavedInv /\ [Next]_vars => RestInv' /\ SavedInv'
  BY RestKept
<1>3. QED BY <1>1, <1>2, PTL DEF SessionSpec

\* Every save that a script asks for is made when its round ends, of the whole
\* runtime as it is then and once, and what a load brings back is all of what was
\* last saved to its slot (vm_save, flush_pending_vm_saves, load_checkpoint).
THEOREM LoadsWhatWasSaved == SessionSpec => []LoadedIsSaved
<1>1. RestInv /\ SavedInv => LoadedIsSaved
  BY DEF RestInv, SavedInv, LoadedIsSaved
<1>2. QED BY <1>1, RestHolds, PTL

\* A call that fails, of those that Session has, changes nothing but that the
\* window may have come up.
THEOREM FailedCallsLeaveNoTrace == SessionSpec => FailedCallsShowOnly
<1>1. ASSUME RestInv, [Next]_vars,
             script.state = "Running", script'.state = "Failed"
      PROVE  ShowsOnly
  <2>1. inRound
    BY <1>1 DEF RestInv
  <2>2. CASE ScriptNext
    <3>1. ~Made
      BY <1>1 DEF Made, RestInv, Script
    <3>2. QED BY <1>1, <2>2, <3>1, CallsOutcome
  <2>3. CASE EndRound
    BY <1>1, <2>3 DEF EndRound, RestInv, Script
  <2>4. CASE BeginRound \/ HostNext
    BY <2>1, <2>4 DEF BeginRound, HostNext, Wake, HostSets, SaveCheckpoint,
                      LoadCheckpoint, AtRest
  <2>5. CASE UNCHANGED vars
    BY <1>1, <2>5 DEF vars, parts
  <2>6. QED BY <1>1, <2>2, <2>3, <2>4, <2>5 DEF Next
<1>2. RestInv /\ [Next]_vars =>
        [script.state = "Running" /\ script'.state = "Failed" =>
            /\ UNCHANGED <<ui_policy, rpg_ui, state_manager, debug_log, checkpoints,
                           pending_vm_saves>>
            /\ message_window' \in {message_window,
                                     [message_window EXCEPT !.visible = TRUE]}]_vars
  BY <1>1 DEF ShowsOnly
<1>3. QED BY <1>2, RestHolds, PTL DEF SessionSpec, FailedCallsShowOnly

(***************************************************************************)
(* The window and the panels, for a script that may not use them.          *)
(***************************************************************************)

\* Every function of theirs requires the capability.
LEMMA GuiFunctions ==
    ASSUME NEW f \in messageNames \cup uiNames \cup rpgNames
    PROVE  f \in DOMAIN HostFunctions /\ HostFunctions[f].caps = {"gui"}
<1>1. CASE f \in messageNames
  <2>1. f \notin uiNames \cup rpgNames \cup vmNames \cup stateNames
    BY <1>1 DEF messageNames, Colors, Boxes, uiNames, rpgNames, vmNames, stateNames
  <2>2. f \notin automationNames \cup rtsNames \cup outsideNames \cup {"log"}
    BY <1>1 DEF messageNames, Colors, Boxes, automationNames, rtsNames, outsideNames
  <2>3. HostFunctions[f] = message(f)
    BY <1>1, <2>1, <2>2 DEF HostFunctions
  <2>4. message(f).caps = {"gui"}
    BY <1>1 DEF message, messageNames, Function, Gui
  <2>5. QED BY <1>1, <2>3, <2>4 DEF HostFunctions
<1>2. CASE f \in uiNames
  <2>1. f \notin messageNames \cup rpgNames \cup vmNames \cup stateNames
    BY <1>2 DEF messageNames, Colors, Boxes, uiNames, rpgNames, vmNames, stateNames
  <2>2. f \notin automationNames \cup rtsNames \cup outsideNames \cup {"log"}
    BY <1>2 DEF uiNames, automationNames, rtsNames, outsideNames
  <2>3. HostFunctions[f] = ui(f)
    BY <1>2, <2>1, <2>2 DEF HostFunctions
  <2>4. QED BY <1>2, <2>3 DEF ui, Function, Gui, HostFunctions
<1>3. CASE f \in rpgNames
  <2>1. f \notin messageNames \cup uiNames \cup vmNames \cup stateNames
    BY <1>3 DEF messageNames, Colors, Boxes, uiNames, rpgNames, vmNames, stateNames
  <2>2. f \notin automationNames \cup rtsNames \cup outsideNames \cup {"log"}
    BY <1>3 DEF rpgNames, automationNames, rtsNames, outsideNames
  <2>3. HostFunctions[f] = rpg(f)
    BY <1>3, <2>1, <2>2 DEF HostFunctions
  <2>4. rpg(f).caps = {"gui"}
    BY <1>3 DEF rpg, rpgNames, Function, Gui
  <2>5. QED BY <1>3, <2>3, <2>4 DEF HostFunctions
<1>4. QED BY <1>1, <1>2, <1>3

LEMMA CallNeedsGui ==
    ASSUME NEW group, NEW f \in messageNames \cup uiNames \cup rpgNames, NEW n,
           Call(group, f, n)
    PROVE  "gui" \in allowed
<1>1. HostFunctions[f].caps \subseteq allowed
  BY DEF Call, call
<1>2. QED BY <1>1, GuiFunctions

LEMMA GuiCallsNeedGui ==
    ASSUME Message \/ Panels, "gui" \notin allowed
    PROVE  UNCHANGED gui
<1>1. \A group, f, n : Call(group, f, n) => f \notin messageNames \cup uiNames \cup rpgNames
  BY CallNeedsGui, Zenon
<1>2. ~Message
  BY <1>1, ZenonT(30)
  DEF Message, Show, AppendLine, ShowChoices, ChoicesNamed, Prompt, Hide, Speed, AutoMode,
      Skip, LogClear, Clear, Style, ResetStyle, Frame, Locale, messageNames
<1>3. Panels => Log
  BY <1>1 DEF Panels, SetPolicy, MapControls, Actions, Hud, RpgClear, rpgNames, uiNames
<1>4. QED BY <1>2, <1>3 DEF Log

\* As at the start, but for how the host has texts shown.
Untouched(w, policy, panels) ==
    /\ policy = Policy /\ panels = RpgUi
    /\ [w EXCEPT !.text_speed = 48, !.auto_mode = FALSE, !.skip_mode = FALSE,
                 !.locale = "ja"] = MessageWindow

GuiInv ==
    "gui" \notin allowed =>
        /\ Untouched(message_window, ui_policy, rpg_ui)
        /\ \A s \in DOMAIN checkpoints :
              Untouched(checkpoints[s].message_window, checkpoints[s].ui_policy,
                        checkpoints[s].rpg_ui)

\* The host's settings are those not looked at.
LEMMA HostSettings ==
    ASSUME NEW w, NEW p, NEW r, Untouched(w, p, r), NEW x
    PROVE  /\ Untouched([w EXCEPT !.text_speed = x], p, r)
           /\ Untouched([w EXCEPT !.auto_mode = x], p, r)
           /\ Untouched([w EXCEPT !.skip_mode = x], p, r)
           /\ Untouched([w EXCEPT !.locale = x], p, r)
BY DEF Untouched

\* A save of what is untouched is untouched.
LEMMA GuiSaved ==
    ASSUME NEW S, SaveTo(S), UNCHANGED gui,
           Untouched(message_window, ui_policy, rpg_ui),
           \A s \in DOMAIN checkpoints :
              Untouched(checkpoints[s].message_window, checkpoints[s].ui_policy,
                        checkpoints[s].rpg_ui)
    PROVE  GuiInv'
<1>1. /\ DOMAIN checkpoints' = S \cup DOMAIN checkpoints
      /\ \A s \in S : checkpoints'[s] = Snapshot'
      /\ \A s \in DOMAIN checkpoints \ S : checkpoints'[s] = checkpoints[s]
  BY Saves
<1>2. Untouched(message_window', ui_policy', rpg_ui')
  BY DEF gui
<1>3. ASSUME NEW s \in S
      PROVE  Untouched(checkpoints'[s].message_window, checkpoints'[s].ui_policy,
                       checkpoints'[s].rpg_ui)
  <2>1. /\ checkpoints'[s].message_window = message_window'
        /\ checkpoints'[s].ui_policy = ui_policy'
        /\ checkpoints'[s].rpg_ui = rpg_ui'
    BY <1>1 DEF Snapshot
  <2>2. QED BY <1>2, <2>1
<1>4. QED BY <1>1, <1>2, <1>3 DEF GuiInv

LEMMA GuiKept ==
    ASSUME GuiInv, [Next]_vars
    PROVE  GuiInv'
<1>1. CASE "gui" \in allowed
  <2>1. allowed' = allowed
    BY CallsStay DEF Next, BeginRound, EndRound, HostNext, Wake, HostSets, SaveCheckpoint,
                     LoadCheckpoint, vars, config
  <2>2. QED BY <1>1, <2>1 DEF GuiInv
<1>2. CASE "gui" \notin allowed
  <2>1. /\ Untouched(message_window, ui_policy, rpg_ui)
        /\ \A s \in DOMAIN checkpoints :
              Untouched(checkpoints[s].message_window, checkpoints[s].ui_policy,
                        checkpoints[s].rpg_ui)
    BY <1>2 DEF GuiInv
  <2> HIDE DEF Untouched
  <2>2. CASE \/ ScriptNext \/ BeginRound \/ Wake \/ UNCHANGED vars
    <3>1. UNCHANGED gui
      <4>1. CASE ScriptNext
        BY <1>2, <4>1, GuiCallsNeedGui
        DEF ScriptNext, Outside, StoreCalls, StateSet, StateErase, StateSave, StateLoad,
            SetResource, AddResource, SetJob, EnableJob, TickJobs, SetUnit, MoveUnit,
            DamageUnit, OnStore, VmSave, AsksFor, VmLoad, Refused
      <4>2. QED BY <2>2, <4>1 DEF BeginRound, Wake, vars, parts
    <3>2. UNCHANGED checkpoints
      BY <2>2, CallsStay DEF BeginRound, Wake, vars
    <3>3. QED BY <2>1, <3>1, <3>2 DEF GuiInv, gui
  <2>3. CASE EndRound
    <3> DEFINE S == ToSet(pending_vm_saves)
    <3> HIDE DEF S
    <3>1. SaveTo(S) /\ UNCHANGED gui
      BY <2>3 DEF S, EndRound, flush_pending_vm_saves
    <3>2. QED BY <2>1, <3>1, GuiSaved
  <2>4. CASE SaveCheckpoint
    <3>1. PICK s \in Slot : SaveTo({s}) /\ UNCHANGED gui
      BY <2>4 DEF SaveCheckpoint, parts
    <3>2. QED BY <2>1, <3>1, GuiSaved
  <2>5. CASE LoadCheckpoint
    BY <2>1, <2>5 DEF LoadCheckpoint, Restore, GuiInv
  <2>6. CASE HostSets
    <3>1. UNCHANGED <<ui_policy, rpg_ui, checkpoints>>
      BY <2>6 DEF HostSets
    <3>2. \/ message_window' = message_window
          \/ \E x : message_window' \in {[message_window EXCEPT !.text_speed = x],
                                         [message_window EXCEPT !.auto_mode = x],
                                         [message_window EXCEPT !.skip_mode = x],
                                         [message_window EXCEPT !.locale = x]}
      BY <2>6 DEF HostSets, Paced, Localized
    <3>3. Untouched(message_window', ui_policy, rpg_ui)
      <4>1. CASE message_window' = message_window
        BY <2>1, <4>1
      <4>2. ASSUME NEW x,
                   message_window' \in {[message_window EXCEPT !.text_speed = x],
                                        [message_window EXCEPT !.auto_mode = x],
                                        [message_window EXCEPT !.skip_mode = x],
                                        [message_window EXCEPT !.locale = x]}
            PROVE  Untouched(message_window', ui_policy, rpg_ui)
        <5>1. /\ Untouched([message_window EXCEPT !.text_speed = x], ui_policy, rpg_ui)
              /\ Untouched([message_window EXCEPT !.auto_mode = x], ui_policy, rpg_ui)
              /\ Untouched([message_window EXCEPT !.skip_mode = x], ui_policy, rpg_ui)
              /\ Untouched([message_window EXCEPT !.locale = x], ui_policy, rpg_ui)
          BY <2>1, HostSettings
        <5>2. QED BY <4>2, <5>1
      <4>3. QED BY <3>2, <4>1, <4>2
    <3>4. QED BY <2>1, <3>1, <3>3 DEF GuiInv
  <2>7. QED BY <2>2, <2>3, <2>4, <2>5, <2>6 DEF Next, HostNext
<1>3. QED BY <1>1, <1>2

\* Without the capability no call of a script reaches the window or a panel, whatever
\* it calls with whatever arguments, and none is brought back by a checkpoint.
THEOREM GuiIsKeptFrom == SessionSpec => []GuiNeedsCapability
<1>1. SessionInit => GuiInv
  <2>1. Untouched(MessageWindow, Policy, RpgUi)
    <3>1. MessageWindow = [x \in DOMAIN MessageWindow |-> MessageWindow[x]]
      BY DEF MessageWindow
    <3>2. /\ {"text_speed", "auto_mode", "skip_mode", "locale"} \subseteq DOMAIN MessageWindow
          /\ MessageWindow.text_speed = 48 /\ MessageWindow.auto_mode = FALSE
          /\ MessageWindow.skip_mode = FALSE /\ MessageWindow.locale = "ja"
      BY DEF MessageWindow
    <3>3. [MessageWindow EXCEPT !.text_speed = 48, !.auto_mode = FALSE,
                                !.skip_mode = FALSE, !.locale = "ja"] = MessageWindow
      BY <3>1, <3>2
    <3>4. QED BY <3>3 DEF Untouched
  <2> SUFFICES ASSUME SessionInit PROVE GuiInv
    OBVIOUS
  <2>2. /\ message_window = MessageWindow /\ ui_policy = Policy /\ rpg_ui = RpgUi
        /\ DOMAIN checkpoints = {}
    BY DEF SessionInit
  <2>3. QED BY <2>1, <2>2 DEF GuiInv
<1>2. GuiInv /\ [Next]_vars => GuiInv'
  BY GuiKept
<1>3. GuiInv => GuiNeedsCapability
  BY DEF GuiInv, Untouched, GuiNeedsCapability
<1>4. QED BY <1>1, <1>2, <1>3, PTL DEF SessionSpec

(***************************************************************************)
(* Sequences put together.                                                 *)
(***************************************************************************)

\* What holds of the empty sequence and is kept by one more element holds of all.
LEMMA BySequence ==
    ASSUME NEW T, NEW q \in Seq(T), NEW P, <<>> \in P,
           \A p \in Seq(T), x \in T : p \in P => Append(p, x) \in P
    PROVE  q \in P
<1> DEFINE S == {k \in 0..Len(q) : SubSeq(q, 1, k) \in P}
<1>1. Len(q) \in Nat
  OBVIOUS
<1>2. 0 \in S
  <2>1. SubSeq(q, 1, 0) = <<>>
    OBVIOUS
  <2>2. SubSeq(q, 1, 0) \in P
    BY <2>1, Zenon
  <2>3. QED BY <1>1, <2>2
<1>3. ASSUME NEW k \in 0..Len(q), k \in S, k < Len(q)
      PROVE  k + 1 \in S
  <2>1. /\ SubSeq(q, 1, k) \in Seq(T) /\ SubSeq(q, 1, k) \in P
        /\ q[k + 1] \in T /\ k + 1 \in 0..Len(q)
    BY <1>1, <1>3, SubSeqProperties, ElementOfSeq
  <2>2. SubSeq(q, 1, k + 1) = Append(SubSeq(q, 1, k), q[k + 1])
    BY <1>1, <1>3
  <2>3. QED BY <2>1, <2>2
<1>4. Len(q) \in S
  <2> HIDE DEF S
  <2>1. 0..Len(q) \subseteq S
    BY <1>1, <1>2, <1>3, Inductive
  <2>2. QED BY <1>1, <2>1
<1>5. SubSeq(q, 1, Len(q)) = q
  OBVIOUS
<1>6. QED BY <1>4, <1>5

\* g has in g[k] the first k of the sequences put together.
Joins(g, qs, T) ==
    /\ g \in [0..Len(qs) -> Seq(T)]
    /\ g[0] = <<>>
    /\ \A k \in 1..Len(qs) : g[k] = g[k - 1] \o qs[k]

LEMMA JoinsExist ==
    ASSUME NEW T, NEW qs \in Seq(Seq(T))
    PROVE  \E g : Joins(g, qs, T)
<1> DEFINE n    == Len(qs)
           V    == Seq(T)
           step == [k \in 1..n |-> [v \in V |-> v \o qs[k]]]
           none == <<>>
<1>1. n \in Nat /\ none \in V /\ \A k \in 1..n : qs[k] \in V
  OBVIOUS
<1>2. step \in [1..n -> [V -> V]]
  BY <1>1
<1>3. PICK g : Computes(g, n, V, none, step)
  <2> HIDE DEF n, V, step, none
  <2>1. QED BY <1>1, <1>2, Computed
<1>4. ASSUME NEW k \in 1..n PROVE g[k] = g[k - 1] \o qs[k]
  <2>1. k - 1 \in 0..n
    BY <1>1
  <2>2. g[k - 1] \in V
    BY <1>3, <2>1 DEF Computes
  <2>3. QED BY <1>3, <2>2 DEF Computes
<1>5. QED BY <1>3, <1>4 DEF Computes, Joins

LEMMA FlattenIs ==
    ASSUME NEW T, NEW qs \in Seq(Seq(T)), NEW g, Joins(g, qs, T)
    PROVE  FlattenSeq(qs) = g[Len(qs)]
<1> DEFINE n == Len(qs)
           Flattens(f) == f = [i \in 1..n |-> IF i = 1 THEN qs[i] ELSE f[i - 1] \o qs[i]]
           f == CHOOSE f : Flattens(f)
<1>1. n \in Nat /\ \A k \in 1..n : qs[k] \in Seq(T)
  OBVIOUS
<1>5. ASSUME n # 0 PROVE 1 \in 1..n /\ g[1] = <<>> \o qs[1]
  <2>1. 1 \in 1..n
    BY <1>1, <1>5
  <2>2. g[1] = g[1 - 1] \o qs[1]
    BY <2>1 DEF Joins
  <2>3. g[1 - 1] = <<>>
    BY DEF Joins
  <2>4. QED BY <2>1, <2>2, <2>3, Zenon
<1>2. CASE n = 0
  <2>1. FlattenSeq(qs) = qs /\ qs = <<>>
    BY <1>2 DEF FlattenSeq
  <2>2. QED BY <1>2, <2>1 DEF Joins
<1>3. CASE n # 0
  <2>1. FlattenSeq(qs) = f[n]
    BY <1>3 DEF FlattenSeq
  <2>2. Flattens([i \in 1..n |-> g[i]])
    <3>1. ASSUME NEW i \in 1..n
          PROVE  g[i] = IF i = 1 THEN qs[i] ELSE [j \in 1..n |-> g[j]][i - 1] \o qs[i]
      <4>1. CASE i = 1
        <5>1. g[i] = <<>> \o qs[i] /\ qs[i] \in Seq(T)
          BY <1>1, <1>3, <1>5, <4>1
        <5>2. QED BY <4>1, <5>1, ConcatEmptySeq
      <4>2. CASE i # 1
        <5>1. i - 1 \in 1..n
          BY <1>1, <4>2
        <5>2. QED BY <4>2, <5>1 DEF Joins
      <4>3. QED BY <4>1, <4>2
    <3>2. QED BY <3>1
  <2>3. Flattens(f)
    <3> HIDE DEF Flattens
    <3>1. QED BY <2>2
  <2>4. f[1] = g[1] /\ \A k \in 1..n : k + 1 \in 1..n => f[k + 1] = f[k] \o qs[k + 1]
    <3>1. \A i \in 1..n : f[i] = IF i = 1 THEN qs[i] ELSE f[i - 1] \o qs[i]
      BY <2>3
    <3> HIDE DEF f
    <3>2. g[1] = <<>> \o qs[1] /\ qs[1] \in Seq(T) /\ 1 \in 1..n
      BY <1>1, <1>3, <1>5
    <3>3. f[1] = g[1]
      BY <3>1, <3>2, ConcatEmptySeq
    <3>4. ASSUME NEW k \in 1..n, k + 1 \in 1..n PROVE f[k + 1] = f[k] \o qs[k + 1]
      <4>1. k + 1 # 1 /\ (k + 1) - 1 = k
        BY <1>1
      <4>2. QED BY <3>1, <3>4, <4>1
    <3>5. QED BY <3>3, <3>4
  <2> HIDE DEF f
  <2> DEFINE S == {k \in 0..n : k = 0 \/ f[k] = g[k]}
  <2>5. 0 \in S
    BY <1>1
  <2>6. ASSUME NEW k \in 0..n, k \in S, k < n
        PROVE  k + 1 \in S
    <3>1. CASE k = 0
      BY <1>1, <2>4, <2>6, <3>1
    <3>2. CASE k # 0
      <4>1. k \in 1..n /\ k + 1 \in 1..n /\ (k + 1) - 1 = k
        BY <1>1, <2>6, <3>2
      <4>2. g[k + 1] = g[k] \o qs[k + 1]
        BY <4>1 DEF Joins
      <4>3. f[k + 1] = f[k] \o qs[k + 1] /\ f[k] = g[k]
        BY <2>4, <2>6, <3>2, <4>1
      <4>4. f[k + 1] = g[k + 1] /\ k + 1 \in 0..n
        BY <1>1, <4>1, <4>2, <4>3
      <4>5. QED BY <4>4
    <3>3. QED BY <3>1, <3>2
  <2>7. n \in S
    <3> HIDE DEF S, n
    <3>1. 0..n \subseteq S
      BY <1>1, <2>5, <2>6, Inductive
    <3>2. QED BY <1>1, <3>1
  <2>8. QED BY <1>3, <2>1, <2>7
<1>4. QED BY <1>2, <1>3

LEMMA FlattenType ==
    ASSUME NEW T, NEW qs \in Seq(Seq(T))
    PROVE  FlattenSeq(qs) \in Seq(T)
<1>1. PICK g : Joins(g, qs, T)
  BY JoinsExist
<1>2. Len(qs) \in 0..Len(qs)
  OBVIOUS
<1>3. FlattenSeq(qs) = g[Len(qs)]
  BY <1>1, FlattenIs
<1>4. QED BY <1>1, <1>2, <1>3 DEF Joins

LEMMA FlattenEmpty == FlattenSeq(<<>>) = <<>>
BY DEF FlattenSeq

LEMMA FlattenAppend ==
    ASSUME NEW T, NEW qs \in Seq(Seq(T)), NEW q \in Seq(T)
    PROVE  FlattenSeq(Append(qs, q)) = FlattenSeq(qs) \o q
<1> DEFINE n  == Len(qs)
           ps == Append(qs, q)
<1>1. /\ n \in Nat /\ ps \in Seq(Seq(T)) /\ Len(ps) = n + 1
      /\ ps[n + 1] = q /\ \A k \in 1..n : ps[k] = qs[k]
  BY AppendProperties
<1> HIDE DEF ps
<1>2. PICK g : Joins(g, ps, T)
  BY <1>1, JoinsExist
<1>3. FlattenSeq(ps) = g[n] \o q
  <2>1. FlattenSeq(ps) = g[n + 1]
    BY <1>1, <1>2, FlattenIs
  <2>2. n + 1 \in 1..Len(ps) /\ (n + 1) - 1 = n
    BY <1>1
  <2>3. g[n + 1] = g[n] \o ps[n + 1]
    BY <1>2, <2>2 DEF Joins
  <2>4. QED BY <1>1, <2>1, <2>3
<1>4. Joins([k \in 0..n |-> g[k]], qs, T)
  <2>1. 0..n \subseteq 0..Len(ps) /\ 0 \in 0..n
    BY <1>1
  <2>2. ASSUME NEW k \in 1..n PROVE g[k] = g[k - 1] \o qs[k] /\ k - 1 \in 0..n /\ k \in 0..n
    <3>1. k \in 1..Len(ps) /\ k - 1 \in 0..n /\ k \in 0..n
      BY <1>1
    <3>2. QED BY <1>1, <1>2, <3>1 DEF Joins
  <2>3. QED BY <1>2, <2>1, <2>2 DEF Joins
<1>5. FlattenSeq(qs) = g[n]
  <2>1. n \in 0..n
    BY <1>1
  <2>2. FlattenSeq(qs) = [k \in 0..n |-> g[k]][n]
    BY <1>4, FlattenIs
  <2>3. QED BY <2>1, <2>2
<1>6. QED BY <1>3, <1>5 DEF ps

Associates(T) == \A a, b, c \in Seq(T) : (a \o b) \o c = a \o (b \o c)

LEMMA Associative == ASSUME NEW T PROVE Associates(T)
<1>1. ASSUME NEW a \in Seq(T), NEW b \in Seq(T), NEW c \in Seq(T)
      PROVE  (a \o b) \o c = a \o (b \o c)
  BY ConcatAssociative
<1>2. QED BY <1>1 DEF Associates

\* What is appended is appended behind.
LEMMA AppendBehind ==
    ASSUME NEW T
    PROVE  \A a, b \in Seq(T), x \in T : a \o Append(b, x) = Append(a \o b, x)
<1>1. ASSUME NEW a \in Seq(T), NEW b \in Seq(T), NEW x \in T
      PROVE  a \o Append(b, x) = Append(a \o b, x)
  <2>1. Append(b, x) = b \o <<x>> /\ Append(a \o b, x) = (a \o b) \o <<x>>
    BY AppendIsConcat, ConcatProperties
  <2>2. <<x>> \in Seq(T)
    OBVIOUS
  <2>3. QED BY <2>1, <2>2, Associative DEF Associates
<1>2. QED BY <1>1

\* What is made of the elements of a sequence.
Makes(m, T, S) == m \in [T -> Seq(S)]
MadeOf(m, q)   == [i \in DOMAIN q |-> m[q[i]]]

LEMMA MadeType ==
    ASSUME NEW T, NEW S, NEW m, Makes(m, T, S), NEW q \in Seq(T)
    PROVE  /\ MadeOf(m, q) \in Seq(Seq(S)) /\ Len(MadeOf(m, q)) = Len(q)
           /\ FlattenSeq(MadeOf(m, q)) \in Seq(S)
<1> DEFINE n == Len(q)
<1>1. n \in Nat /\ DOMAIN q = 1..n /\ \A i \in 1..n : q[i] \in T
  OBVIOUS
<1>2. MadeOf(m, q) \in [1..n -> Seq(S)]
  BY <1>1 DEF MadeOf, Makes
<1> HIDE DEF n
<1>3. MadeOf(m, q) \in Seq(Seq(S)) /\ Len(MadeOf(m, q)) = n
  BY <1>1, <1>2
<1>4. QED BY <1>3, FlattenType DEF n

\* What is made of one more element is put behind what was made of the others.
LEMMA MadeBehind ==
    ASSUME NEW T, NEW S, NEW m, Makes(m, T, S), NEW q \in Seq(T), NEW x \in T
    PROVE  MadeOf(m, Append(q, x)) = Append(MadeOf(m, q), m[x])
<1> DEFINE n  == Len(q)
           p  == Append(q, x)
           ks == MadeOf(m, q)
           js == MadeOf(m, p)
<1>1. n \in Nat /\ DOMAIN q = 1..n /\ \A i \in 1..n : q[i] \in T
  OBVIOUS
<1>2. /\ DOMAIN p = 1..(n + 1) /\ p[n + 1] = x
      /\ \A i \in 1..n : p[i] = q[i]
  BY AppendProperties
<1> HIDE DEF p
<1>3. ks \in Seq(Seq(S)) /\ Len(ks) = n
  <2> HIDE DEF n
  <2>1. MadeOf(m, q) \in Seq(Seq(S)) /\ Len(MadeOf(m, q)) = Len(q)
    BY MadeType
  <2>2. QED BY <2>1 DEF n
<1>4. js = Append(ks, m[x])
  <2>1. m[x] \in Seq(S)
    BY DEF Makes
  <2>2. /\ Append(ks, m[x]) \in Seq(Seq(S))
        /\ Len(Append(ks, m[x])) = n + 1
        /\ Append(ks, m[x])[n + 1] = m[x]
        /\ \A i \in 1..n : Append(ks, m[x])[i] = ks[i]
    <3> HIDE DEF ks
    <3>1. QED BY <1>3, <2>1, AppendProperties
  <2>3. js \in Seq(Seq(S)) /\ Len(js) = n + 1
    <3>1. p \in Seq(T) /\ Len(p) = n + 1
      BY <1>1, AppendProperties DEF p
    <3> HIDE DEF n
    <3>2. MadeOf(m, p) \in Seq(Seq(S)) /\ Len(MadeOf(m, p)) = Len(p)
      BY <3>1, MadeType
    <3>3. QED BY <3>1, <3>2
  <2>4. ASSUME NEW i \in 1..(n + 1) PROVE js[i] = Append(ks, m[x])[i]
    <3>1. CASE i = n + 1
      BY <1>2, <2>2, <3>1 DEF MadeOf
    <3>2. CASE i # n + 1
      <4>1. i \in 1..n
        BY <1>1, <3>2
      <4>2. js[i] = m[q[i]] /\ ks[i] = m[q[i]]
        BY <1>1, <1>2, <4>1 DEF MadeOf
      <4>3. QED BY <2>2, <4>1, <4>2
    <3>3. QED BY <3>1, <3>2
  <2> HIDE DEF js, ks, n
  <2>5. QED BY <2>2, <2>3, <2>4, SeqEqual
<1> HIDE DEF ks, js, n
<1>5. QED BY <1>4 DEF js, ks, p

LEMMA MadeAppend ==
    ASSUME NEW T, NEW S, NEW m, Makes(m, T, S), NEW q \in Seq(T), NEW x \in T
    PROVE  FlattenSeq(MadeOf(m, Append(q, x))) = FlattenSeq(MadeOf(m, q)) \o m[x]
<1>1. MadeOf(m, q) \in Seq(Seq(S))
  BY MadeType
<1>2. m[x] \in Seq(S)
  BY DEF Makes
<1>3. MadeOf(m, Append(q, x)) = Append(MadeOf(m, q), m[x])
  BY MadeBehind
<1>4. QED BY <1>1, <1>2, <1>3, FlattenAppend

(***************************************************************************)
(* The lines of a text, and of a log.                                      *)
(***************************************************************************)

LEMMA KeptType ==
    ASSUME NEW L, NEW l \in L
    PROVE  Kept(l) \in Seq(L)
<1>1. <<>> \in Seq(L) /\ <<l>> \in Seq(L)
  OBVIOUS
<1>2. CASE l = EmptyLine
  BY <1>1, <1>2 DEF Kept
<1>3. CASE l # EmptyLine
  BY <1>1, <1>3 DEF Kept
<1>4. QED BY <1>2, <1>3

LEMMA NonEmptyIs ==
    ASSUME NEW L, NEW q \in Seq(L)
    PROVE  NonEmpty(q) = FlattenSeq(MadeOf([l \in L |-> Kept(l)], q))
<1>1. [i \in DOMAIN q |-> Kept(q[i])] = MadeOf([l \in L |-> Kept(l)], q)
  BY ElementOfSeq DEF MadeOf
<1>2. QED BY <1>1 DEF NonEmpty

LEMMA NonEmptyType ==
    ASSUME NEW L, NEW q \in Seq(L)
    PROVE  NonEmpty(q) \in Seq(L)
<1> DEFINE m == [l \in L |-> Kept(l)]
<1>1. Makes(m, L, L)
  BY KeptType DEF Makes
<1>2. NonEmpty(q) = FlattenSeq(MadeOf(m, q))
  BY NonEmptyIs
<1> HIDE DEF m
<1>3. QED BY <1>1, <1>2, MadeType

LEMMA NonEmptyAppend ==
    ASSUME NEW L, NEW q \in Seq(L), NEW l \in L
    PROVE  NonEmpty(Append(q, l)) = NonEmpty(q) \o Kept(l)
<1> DEFINE m == [x \in L |-> Kept(x)]
<1>1. Makes(m, L, L) /\ m[l] = Kept(l)
  BY KeptType DEF Makes
<1>2. Append(q, l) \in Seq(L)
  BY AppendProperties
<1>3. /\ NonEmpty(Append(q, l)) = FlattenSeq(MadeOf(m, Append(q, l)))
      /\ NonEmpty(q) = FlattenSeq(MadeOf(m, q))
  BY <1>2, NonEmptyIs
<1> HIDE DEF m
<1>4. FlattenSeq(MadeOf(m, Append(q, l))) = FlattenSeq(MadeOf(m, q)) \o m[l]
  BY <1>1, MadeAppend, Zenon
<1>5. QED BY <1>1, <1>3, <1>4

LEMMA WrittenIs ==
    ASSUME NEW L, NEW ts \in Seq(Seq(L))
    PROVE  Written(ts) = FlattenSeq(MadeOf([t \in Seq(L) |-> NonEmpty(t)], ts))
<1>1. [i \in DOMAIN ts |-> NonEmpty(ts[i])] = MadeOf([t \in Seq(L) |-> NonEmpty(t)], ts)
  BY ElementOfSeq DEF MadeOf
<1>2. QED BY <1>1 DEF Written

LEMMA WrittenType ==
    ASSUME NEW L, NEW ts \in Seq(Seq(L))
    PROVE  Written(ts) \in Seq(L)
<1> DEFINE m == [t \in Seq(L) |-> NonEmpty(t)]
<1>1. Makes(m, Seq(L), L)
  BY NonEmptyType DEF Makes
<1>2. Written(ts) = FlattenSeq(MadeOf(m, ts))
  BY WrittenIs
<1> HIDE DEF m
<1>3. QED BY <1>1, <1>2, MadeType

LEMMA WrittenAppend ==
    ASSUME NEW L, NEW ts \in Seq(Seq(L)), NEW t \in Seq(L)
    PROVE  Written(Append(ts, t)) = Written(ts) \o NonEmpty(t)
<1> DEFINE m == [x \in Seq(L) |-> NonEmpty(x)]
<1>1. Makes(m, Seq(L), L) /\ m[t] = NonEmpty(t)
  BY NonEmptyType DEF Makes
<1>2. Append(ts, t) \in Seq(Seq(L))
  BY AppendProperties
<1>3. /\ Written(Append(ts, t)) = FlattenSeq(MadeOf(m, Append(ts, t)))
      /\ Written(ts) = FlattenSeq(MadeOf(m, ts))
  BY <1>2, WrittenIs
<1> HIDE DEF m
<1>4. FlattenSeq(MadeOf(m, Append(ts, t))) = FlattenSeq(MadeOf(m, ts)) \o m[t]
  BY <1>1, MadeAppend, ZenonT(30)
<1>5. QED BY <1>1, <1>3, <1>4

LEMMA NothingWritten == NonEmpty(<<>>) = <<>> /\ Written(<<>>) = <<>>
<1>1. \A f : [i \in DOMAIN <<>> |-> f[i]] = <<>>
  OBVIOUS
<1>2. QED BY FlattenEmpty DEF NonEmpty, Written

\* Of two texts, one behind the other, there are the lines of both.
LEMMA NonEmptyConcat ==
    ASSUME NEW L, NEW a \in Seq(L), NEW b \in Seq(L)
    PROVE  NonEmpty(a \o b) = NonEmpty(a) \o NonEmpty(b)
<1>a. Associates(L)
  BY Associative
<1>b. \A u, v \in Seq(L), x \in L : u \o Append(v, x) = Append(u \o v, x)
  BY AppendBehind
<1> DEFINE P == {p \in Seq(L) : NonEmpty(a \o p) = NonEmpty(a) \o NonEmpty(p)}
<1>1. <<>> \in P
  <2>1. a \o <<>> = a /\ NonEmpty(a) \o <<>> = NonEmpty(a)
    BY ConcatEmptySeq, NonEmptyType
  <2>2. <<>> \in Seq(L)
    OBVIOUS
  <2>3. NonEmpty(a \o <<>>) = NonEmpty(a) \o NonEmpty(<<>>)
    BY <2>1, NothingWritten, Zenon
  <2>4. QED BY <2>2, <2>3, Zenon
<1>2. ASSUME NEW p \in Seq(L), NEW x \in L, p \in P PROVE Append(p, x) \in P
  <2>1. a \o p \in Seq(L) /\ Append(p, x) \in Seq(L)
    BY ConcatProperties, AppendProperties
  <2>2. NonEmpty(a \o Append(p, x)) = NonEmpty(Append(a \o p, x))
    BY <1>b
  <2>3. NonEmpty(Append(a \o p, x)) = NonEmpty(a \o p) \o Kept(x)
    BY <2>1, NonEmptyAppend
  <2>4. NonEmpty(a \o p) = NonEmpty(a) \o NonEmpty(p)
    BY <1>2
  <2>5. (NonEmpty(a) \o NonEmpty(p)) \o Kept(x) = NonEmpty(a) \o (NonEmpty(p) \o Kept(x))
    <3>1. NonEmpty(a) \in Seq(L) /\ NonEmpty(p) \in Seq(L) /\ Kept(x) \in Seq(L)
      BY NonEmptyType, KeptType
    <3>2. \A r, s, t \in Seq(L) : (r \o s) \o t = r \o (s \o t)
      BY <1>a DEF Associates
    <3>3. QED BY <3>1, <3>2, SMTT(30)
  <2>6. NonEmpty(Append(p, x)) = NonEmpty(p) \o Kept(x)
    BY NonEmptyAppend
  <2>7. NonEmpty(a \o Append(p, x)) = NonEmpty(a) \o NonEmpty(Append(p, x))
    BY <2>2, <2>3, <2>4, <2>5, <2>6, Zenon
  <2>8. QED BY <2>1, <2>7
<1> HIDE DEF P
<1>3. b \in P
  BY <1>1, <1>2, BySequence
<1>4. QED BY <1>3 DEF P

\* The empty line that ends a text or not makes no difference.
LEMMA NonEmptyLines ==
    ASSUME NEW L, NEW text \in Seq(L), text # <<>>
    PROVE  lines(text) \in Seq(L) /\ NonEmpty(lines(text)) = NonEmpty(text)
<1>1. Len(text) \in Nat \ {0}
  BY EmptySeq
<1>2. /\ Front(text) \in Seq(L) /\ Last(text) \in L
      /\ text = Append(Front(text), Last(text))
  BY <1>1 DEF Front, Last
<1>3. NonEmpty(text) = NonEmpty(Front(text)) \o Kept(Last(text))
  BY <1>2, NonEmptyAppend
<1>4. CASE Last(text) = EmptyLine
  <2>1. Kept(Last(text)) = <<>>
    BY <1>4 DEF Kept
  <2>2. NonEmpty(Front(text)) \o <<>> = NonEmpty(Front(text))
    BY <1>2, NonEmptyType, ConcatEmptySeq
  <2>3. QED BY <1>2, <1>3, <1>4, <2>1, <2>2 DEF lines
<1>5. CASE Last(text) # EmptyLine
  BY <1>5 DEF lines
<1>6. QED BY <1>4, <1>5

\* Logging a text line by line is logging its lines.
LEMMA WrittenLines ==
    ASSUME NEW L, NEW log \in Seq(Seq(L)), NEW ls \in Seq(L)
    PROVE  /\ log \o [i \in DOMAIN ls |-> <<ls[i]>>] \in Seq(Seq(L))
           /\ Written(log \o [i \in DOMAIN ls |-> <<ls[i]>>]) = Written(log) \o NonEmpty(ls)
<1> DEFINE m == [x \in L |-> <<x>>]
           P == {p \in Seq(L) : Written(log \o MadeOf(m, p)) = Written(log) \o NonEmpty(p)}
<1>1. Makes(m, L, L) /\ \A x \in L : m[x] = <<x>>
  BY DEF Makes
<1>2. [i \in DOMAIN ls |-> <<ls[i]>>] = MadeOf(m, ls)
  BY ElementOfSeq DEF MadeOf
<1> HIDE DEF m
<1>a. Associates(L)
  BY Associative
<1>3. <<>> \in P
  <2>1. MadeOf(m, <<>>) = <<>>
    BY DEF MadeOf
  <2>2. log \o <<>> = log /\ Written(log) \o <<>> = Written(log)
    BY ConcatEmptySeq, WrittenType
  <2>3. <<>> \in Seq(L)
    OBVIOUS
  <2>4. Written(log \o MadeOf(m, <<>>)) = Written(log) \o NonEmpty(<<>>)
    BY <2>1, <2>2, NothingWritten, Zenon
  <2>5. QED BY <2>3, <2>4, Zenon
<1>4. ASSUME NEW p \in Seq(L), NEW x \in L, p \in P PROVE Append(p, x) \in P
  <2>1. /\ MadeOf(m, p) \in Seq(Seq(L)) /\ m[x] = <<x>> /\ m[x] \in Seq(L)
        /\ MadeOf(m, Append(p, x)) = Append(MadeOf(m, p), m[x])
    <3>1. <<x>> \in Seq(L)
      OBVIOUS
    <3>2. MadeOf(m, p) \in Seq(Seq(L))
      BY <1>1, MadeType
    <3>3. MadeOf(m, Append(p, x)) = Append(MadeOf(m, p), m[x])
      BY <1>1, MadeBehind
    <3>4. QED BY <1>1, <3>1, <3>2, <3>3
  <2>2. log \o Append(MadeOf(m, p), m[x]) = Append(log \o MadeOf(m, p), m[x])
    BY <2>1, AppendBehind, SMTT(30)
  <2>3. log \o MadeOf(m, p) \in Seq(Seq(L))
    BY <2>1, ConcatProperties
  <2>4. Written(Append(log \o MadeOf(m, p), m[x]))
          = Written(log \o MadeOf(m, p)) \o NonEmpty(m[x])
    BY <2>1, <2>3, WrittenAppend
  <2>5. NonEmpty(m[x]) = Kept(x)
    <3>1. <<>> \in Seq(L) /\ Append(<<>>, x) = <<x>>
      OBVIOUS
    <3>2. NonEmpty(Append(<<>>, x)) = NonEmpty(<<>>) \o Kept(x)
      BY <3>1, NonEmptyAppend
    <3>3. <<>> \o Kept(x) = Kept(x)
      BY KeptType, ConcatEmptySeq
    <3>4. QED BY <2>1, <3>1, <3>2, <3>3, NothingWritten, Zenon
  <2>6. Written(log \o MadeOf(m, p)) = Written(log) \o NonEmpty(p)
    BY <1>4
  <2>7. (Written(log) \o NonEmpty(p)) \o Kept(x) = Written(log) \o (NonEmpty(p) \o Kept(x))
    <3>1. Written(log) \in Seq(L) /\ NonEmpty(p) \in Seq(L) /\ Kept(x) \in Seq(L)
      BY WrittenType, NonEmptyType, KeptType
    <3>2. \A r, s, t \in Seq(L) : (r \o s) \o t = r \o (s \o t)
      BY <1>a DEF Associates
    <3>3. QED BY <3>1, <3>2, ZenonT(30)
  <2>8. NonEmpty(Append(p, x)) = NonEmpty(p) \o Kept(x)
    BY NonEmptyAppend
  <2>9. Written(log \o MadeOf(m, Append(p, x))) = Written(log) \o NonEmpty(Append(p, x))
    BY <2>1, <2>2, <2>4, <2>5, <2>6, <2>7, <2>8, Zenon
  <2>10. Append(p, x) \in Seq(L)
    BY AppendProperties
  <2>11. QED BY <2>9, <2>10
<1> HIDE DEF P
<1>5. ls \in P
  BY <1>3, <1>4, BySequence
<1>6. Written(log \o MadeOf(m, ls)) = Written(log) \o NonEmpty(ls)
  BY <1>5 DEF P
<1>7. log \o MadeOf(m, ls) \in Seq(Seq(L))
  BY <1>1, MadeType, ConcatProperties
<1>8. QED BY <1>2, <1>6, <1>7, Zenon

LEMMA PrefixIs ==
    ASSUME NEW T, NEW s \in Seq(T), NEW t \in Seq(T)
    PROVE  IsPrefix(s, t) <=> Len(s) <= Len(t) /\ \A i \in 1..Len(s) : s[i] = t[i]
<1>1. Len(s) \in Nat /\ Len(t) \in Nat /\ SubSeq(s, 1, Len(s)) = s
  OBVIOUS
<1>2. ASSUME Len(s) <= Len(t)
      PROVE  /\ SubSeq(t, 1, Len(s)) \in Seq(T)
             /\ Len(SubSeq(t, 1, Len(s))) = Len(s)
             /\ \A i \in 1..Len(s) : SubSeq(t, 1, Len(s))[i] = t[i]
  BY <1>1, <1>2
<1>3. ASSUME Len(s) <= Len(t), \A i \in 1..Len(s) : s[i] = t[i]
      PROVE  SubSeq(t, 1, Len(s)) = s
  <2> DEFINE u == SubSeq(t, 1, Len(s))
  <2>1. u \in Seq(T) /\ Len(u) = Len(s) /\ \A i \in 1..Len(s) : u[i] = s[i]
    BY <1>2, <1>3
  <2> HIDE DEF u
  <2>2. u = s
    BY <2>1, SeqEqual
  <2>3. QED BY <2>2 DEF u
<1>4. QED BY <1>1, <1>2, <1>3 DEF IsPrefix

\* A suffix is what is left behind some beginning.
LEMMA SuffixIs ==
    ASSUME NEW T, NEW a \in Seq(T), NEW b \in Seq(T)
    PROVE  IsSuffix(a, b) <=> \E p \in Seq(T) : b = p \o a
<1>1. /\ Len(a) \in Nat /\ Len(b) \in Nat
      /\ Reverse(a) \in Seq(T) /\ Len(Reverse(a)) = Len(a)
      /\ Reverse(b) \in Seq(T) /\ Len(Reverse(b)) = Len(b)
      /\ \A i \in 1..Len(a) : Reverse(a)[i] = a[(Len(a) - i) + 1]
      /\ \A i \in 1..Len(b) : Reverse(b)[i] = b[(Len(b) - i) + 1]
  BY DEF Reverse
<1>2. IsSuffix(a, b) <=>
        /\ Len(a) <= Len(b)
        /\ \A i \in 1..Len(a) : a[(Len(a) - i) + 1] = b[(Len(b) - i) + 1]
  <2>1. IsSuffix(a, b) <=>
          Len(a) <= Len(b) /\ \A i \in 1..Len(a) : Reverse(a)[i] = Reverse(b)[i]
    BY <1>1, PrefixIs DEF IsSuffix
  <2>2. Len(a) <= Len(b) =>
          \A i \in 1..Len(a) : Reverse(b)[i] = b[(Len(b) - i) + 1]
    BY <1>1
  <2>3. QED BY <1>1, <2>1, <2>2
<1>3. ASSUME NEW p \in Seq(T), b = p \o a PROVE IsSuffix(a, b)
  BY <1>2, <1>3
<1>4. ASSUME IsSuffix(a, b) PROVE \E p \in Seq(T) : b = p \o a
  <2> DEFINE p == SubSeq(b, 1, Len(b) - Len(a))
             d == Len(b) - Len(a)
  <2>1. /\ p \in Seq(T) /\ Len(p) = d /\ d \in Nat
        /\ \A i \in 1..d : p[i] = b[i]
    BY <1>1, <1>2, <1>4
  <2>2. \A j \in 1..Len(a) : a[j] = b[d + j]
    <3>1. ASSUME NEW j \in 1..Len(a) PROVE a[j] = b[d + j]
      <4>1. Len(a) - j + 1 \in 1..Len(a)
        BY <1>1
      <4>2. a[(Len(a) - (Len(a) - j + 1)) + 1] = b[(Len(b) - (Len(a) - j + 1)) + 1]
        BY <1>2, <1>4, <4>1
      <4>3. /\ (Len(a) - (Len(a) - j + 1)) + 1 = j
            /\ (Len(b) - (Len(a) - j + 1)) + 1 = d + j
        BY <1>1
      <4>4. QED BY <4>2, <4>3
    <3>2. QED BY <3>1
  <2>3. Len(b) = d + Len(a)
    BY <1>1
  <2> HIDE DEF p, d
  <2>4. /\ p \o a \in Seq(T) /\ Len(p \o a) = d + Len(a)
        /\ \A i \in 1..(d + Len(a)) : (p \o a)[i] = IF i <= d THEN p[i] ELSE a[i - d]
    BY <2>1, ConcatProperties
  <2>5. ASSUME NEW i \in 1..Len(b) PROVE b[i] = (p \o a)[i]
    <3>1. CASE i <= d
      BY <1>1, <2>1, <2>3, <2>4, <3>1
    <3>2. CASE ~(i <= d)
      <4>1. i - d \in 1..Len(a) /\ d + (i - d) = i
        BY <1>1, <2>1, <2>3, <3>2
      <4>2. a[i - d] = b[d + (i - d)]
        BY <2>2, <4>1
      <4>3. QED BY <2>3, <2>4, <3>2, <4>1, <4>2
    <3>3. QED BY <3>1, <3>2
  <2>6. b = p \o a
    BY <2>3, <2>4, <2>5, SeqEqual
  <2>7. QED BY <2>1, <2>6
<1>5. QED BY <1>3, <1>4

\* One of two texts is the end of the other: also with the same line behind both.
LEMMA TailMore ==
    ASSUME NEW T, NEW a \in Seq(T), NEW b \in Seq(T), NEW c \in Seq(T), IsTail(a, b)
    PROVE  IsTail(a \o c, b \o c)
<1>1. a \o c \in Seq(T) /\ b \o c \in Seq(T)
  BY ConcatProperties
<1>2. ASSUME NEW x \in Seq(T), NEW y \in Seq(T), IsSuffix(x, y)
      PROVE  IsSuffix(x \o c, y \o c)
  <2>1. PICK p \in Seq(T) : y = p \o x
    BY <1>2, SuffixIs
  <2>2. Associates(T)
    BY Associative
  <2>3. y \o c = p \o (x \o c)
    <3>1. \A r, s, t \in Seq(T) : (r \o s) \o t = r \o (s \o t)
      BY <2>2 DEF Associates
    <3>2. QED BY <2>1, <3>1, ZenonT(30)
  <2>4. x \o c \in Seq(T) /\ y \o c \in Seq(T)
    BY ConcatProperties
  <2>5. QED BY <2>3, <2>4, SuffixIs
<1>3. QED BY <1>1, <1>2 DEF IsTail

LEMMA TailNew ==
    ASSUME NEW T, NEW a \in Seq(T), NEW b \in Seq(T)
    PROVE  IsTail(a, b \o a)
<1>1. b \o a \in Seq(T)
  BY ConcatProperties
<1>2. IsSuffix(a, b \o a)
  BY <1>1, SuffixIs
<1>3. QED BY <1>2 DEF IsTail

\* Nothing is the end of everything.
LEMMA TailNothing ==
    ASSUME NEW T, NEW a \in Seq(T)
    PROVE  IsTail(a, <<>>)
<1>1. <<>> \in Seq(T) /\ a \o <<>> = a
  BY ConcatEmptySeq
<1>2. IsSuffix(<<>>, a)
  BY <1>1, SuffixIs
<1>3. QED BY <1>2 DEF IsTail

(***************************************************************************)
(* The text in the window and the log.                                     *)
(***************************************************************************)

Line == STRING \cup {EmptyLine}

\* What it shows is in its log.
Logged(w) ==
    /\ {"text", "backlog"} \subseteq DOMAIN w
    /\ w.text \in Seq(Line)
    /\ w.backlog \in Seq(Seq(Line))
    /\ IsTail(NonEmpty(w.text), Written(w.backlog))

TextInv ==
    /\ Logged(message_window)
    /\ \A s \in DOMAIN checkpoints : Logged(checkpoints[s].message_window)

LEMMA TextsAreLines == \A text \in Texts : text \in Seq(Line) /\ text # <<>>
<1>1. ASSUME NEW text \in Texts PROVE text \in Seq(Line) /\ text # <<>>
  <2>1. text \in Seq(STRING) /\ text # <<>>
    BY SessionAssumption
  <2> DEFINE S == STRING
  <2>2. text \in Seq(S) /\ S \subseteq Line
    BY <2>1 DEF Line
  <2> HIDE DEF S
  <2>3. text \in Seq(Line)
    BY <2>2
  <2>4. QED BY <2>1, <2>3
<1>2. QED BY <1>1

LEMMA SameText ==
    ASSUME NEW w, NEW v, Logged(w),
           DOMAIN v = DOMAIN w, v.text = w.text, v.backlog = w.backlog
    PROVE  Logged(v)
BY DEF Logged

LEMMA ShownLogged ==
    ASSUME NEW w, Logged(w), NEW speaker, NEW text \in Texts
    PROVE  Logged(Shown(w, speaker, text))
<1> DEFINE v  == Shown(w, speaker, text)
           ls == lines(text)
<1>1. text \in Seq(Line) /\ text # <<>> /\ w.backlog \in Seq(Seq(Line))
  BY TextsAreLines DEF Logged
<1>2. ls \in Seq(Line) /\ NonEmpty(ls) = NonEmpty(text)
  BY <1>1, NonEmptyLines
<1>3. /\ DOMAIN v = DOMAIN w /\ v.text = text
      /\ v.backlog = w.backlog \o [i \in DOMAIN ls |-> <<ls[i]>>]
  BY DEF Shown, Logged
<1> HIDE DEF v, ls
<1>4. v.backlog \in Seq(Seq(Line)) /\ Written(v.backlog) = Written(w.backlog) \o NonEmpty(ls)
  BY <1>1, <1>2, <1>3, WrittenLines
<1>5. NonEmpty(text) \in Seq(Line) /\ Written(w.backlog) \in Seq(Line)
  BY <1>1, NonEmptyType, WrittenType
<1>6. IsTail(NonEmpty(text), Written(w.backlog) \o NonEmpty(text))
  BY <1>5, TailNew
<1>7. QED BY <1>1, <1>2, <1>3, <1>4, <1>6 DEF Logged, v

LEMMA AppendedLogged ==
    ASSUME NEW w, Logged(w), NEW text \in Texts
    PROVE  Logged(Appended(w, text))
<1> DEFINE v == Appended(w, text)
<1>1. text \in Seq(Line) /\ w.text \in Seq(Line) /\ w.backlog \in Seq(Seq(Line))
  BY TextsAreLines DEF Logged
<1>2. /\ DOMAIN v = DOMAIN w /\ v.backlog = Append(w.backlog, text)
      /\ v.text = IF w.text = EmptyText THEN text ELSE w.text \o text
  BY DEF Appended, Logged
<1> HIDE DEF v
<1>3. /\ v.backlog \in Seq(Seq(Line))
      /\ Written(v.backlog) = Written(w.backlog) \o NonEmpty(text)
  <2>1. Append(w.backlog, text) \in Seq(Seq(Line))
    BY <1>1, AppendProperties
  <2>2. Written(Append(w.backlog, text)) = Written(w.backlog) \o NonEmpty(text)
    BY <1>1, WrittenAppend
  <2>3. QED BY <1>2, <2>1, <2>2
<1>4. /\ NonEmpty(text) \in Seq(Line) /\ Written(w.backlog) \in Seq(Line)
      /\ NonEmpty(w.text) \in Seq(Line)
  BY <1>1, NonEmptyType, WrittenType
<1>5. v.text \in Seq(Line) /\ NonEmpty(v.text) = NonEmpty(w.text) \o NonEmpty(text)
  <2>1. CASE w.text = EmptyText
    <3>1. NonEmpty(w.text) = <<>>
      <4>1. EmptyText = Append(<<>>, EmptyLine) /\ <<>> \in Seq({EmptyLine})
        BY DEF EmptyText
      <4>2. NonEmpty(EmptyText) = NonEmpty(<<>>) \o Kept(EmptyLine)
        BY <4>1, NonEmptyAppend
      <4>3. Kept(EmptyLine) = <<>> /\ <<>> \o <<>> = <<>>
        BY ConcatEmptySeq DEF Kept
      <4>4. QED BY <2>1, <4>2, <4>3, NothingWritten
    <3>2. <<>> \o NonEmpty(text) = NonEmpty(text)
      BY <1>4, ConcatEmptySeq
    <3>3. QED BY <1>1, <1>2, <2>1, <3>1, <3>2
  <2>2. CASE w.text # EmptyText
    BY <1>1, <1>2, <2>2, ConcatProperties, NonEmptyConcat
  <2>3. QED BY <2>1, <2>2
<1>6. IsTail(NonEmpty(w.text), Written(w.backlog))
  BY DEF Logged
<1>7. IsTail(NonEmpty(w.text) \o NonEmpty(text), Written(w.backlog) \o NonEmpty(text))
  BY <1>4, <1>6, TailMore
<1>8. QED BY <1>2, <1>3, <1>5, <1>7 DEF Logged, v

LEMMA EmptiedLogged ==
    /\ Logged(MessageWindow)
    /\ \A w : Logged(w) => Logged(LogCleared(w))
<1>1. /\ "text" \in DOMAIN MessageWindow /\ "backlog" \in DOMAIN MessageWindow
      /\ MessageWindow.text = EmptyText /\ MessageWindow.backlog = <<>>
  BY DEF MessageWindow
<1>2. EmptyText \in Seq(Line) /\ <<>> \in Seq(Seq(Line))
  <2>1. EmptyLine \in Line
    BY DEF Line
  <2>2. <<EmptyLine>> \in Seq(Line)
    BY <2>1
  <2>3. QED BY <2>2 DEF EmptyText
<1>3. \A q \in Seq(Line) : IsTail(NonEmpty(q), Written(<<>>))
  BY NonEmptyType, NothingWritten, TailNothing
<1>4. Logged(MessageWindow)
  BY <1>1, <1>2, <1>3 DEF Logged
<1>5. ASSUME NEW w, Logged(w) PROVE Logged(LogCleared(w))
  <2>1. /\ DOMAIN LogCleared(w) = DOMAIN w
        /\ LogCleared(w).text = w.text /\ LogCleared(w).backlog = <<>>
    BY <1>5 DEF LogCleared, Logged
  <2>2. QED BY <1>2, <1>3, <1>5, <2>1 DEF Logged
<1>6. QED BY <1>4, <1>5

LEMMA MessagesLogged ==
    ASSUME Logged(message_window), Message
    PROVE  Logged(message_window')
<1> DEFINE w == message_window
           Same(v) == DOMAIN v = DOMAIN w /\ v.text = w.text /\ v.backlog = w.backlog
<1>1. ASSUME Same(message_window') PROVE Logged(message_window')
  BY <1>1, SameText
<1>2. CASE Show
  BY <1>2, ShownLogged DEF Show, OnWindow
<1>3. CASE AppendLine
  BY <1>3, AppendedLogged DEF AppendLine, OnWindow
<1>4. CASE LogClear \/ Clear
  BY <1>4, EmptiedLogged DEF LogClear, Clear, OnWindow, Cleared
<1>5. "text" \in DOMAIN w /\ "backlog" \in DOMAIN w
  BY DEF Logged
<1> HIDE DEF w
<1>6. CASE ShowChoices
  <2>1. PICK labels : message_window' = Chosen(w, labels)
    BY <1>6 DEF ShowChoices, OnWindow, w
  <2>2. QED BY <1>1, <1>5, <2>1 DEF Chosen
<1>7. CASE ChoicesNamed
  <2>1. \/ message_window' = w
        \/ message_window' = [w EXCEPT !.visible = TRUE]
        \/ \E pairs : message_window' = ChosenByName(w, pairs)
    BY <1>7 DEF ChoicesNamed, OnWindow, FailsWith, w
  <2>2. QED BY <1>1, <1>5, <2>1 DEF ChosenByName
<1>8. CASE Prompt
  <2>1. \/ message_window' = [w EXCEPT !.visible = TRUE]
        \/ \E prompt : message_window' = Prompted(w, prompt)
    BY <1>8 DEF Prompt, OnWindow, FailsWith, w
  <2>2. QED BY <1>1, <1>5, <2>1 DEF Prompted
<1>9. CASE Hide \/ ResetStyle
  <2>1. message_window' = Hidden(w) \/ message_window' = StyleReset(w)
    BY <1>9 DEF Hide, ResetStyle, OnWindow, w
  <2>2. QED BY <1>1, <1>5, <2>1 DEF Hidden, StyleReset
<1>10. CASE Speed \/ AutoMode \/ Skip
  <2>1. \E x : message_window' \in {[w EXCEPT !.text_speed = x],
                                    [w EXCEPT !.auto_mode = x],
                                    [w EXCEPT !.skip_mode = x]}
    BY <1>10 DEF Speed, AutoMode, Skip, OnWindow, Paced, w
  <2>2. QED BY <1>1, <1>5, <2>1
<1>11. CASE Style \/ Frame
  <2>1. message_window' = w \/ \E x : message_window' = [w EXCEPT !.style = x]
    BY <1>11 DEF Style, Frame, OnWindow, FailsWith, Styled, Framed, w
  <2>2. QED BY <1>1, <1>5, <2>1
<1>12. CASE Locale
  <2>1. message_window' = w \/ \E x : message_window' = [w EXCEPT !.locale = x]
    BY <1>12 DEF Locale, OnWindow, Localized, w
  <2>2. QED BY <1>1, <1>5, <2>1
<1>13. QED BY <1>2, <1>3, <1>4, <1>6, <1>7, <1>8, <1>9, <1>10, <1>11, <1>12 DEF Message

\* A save of what is logged is logged.
LEMMA TextSaved ==
    ASSUME NEW S, SaveTo(S), message_window' = message_window, TextInv
    PROVE  TextInv'
<1>1. /\ DOMAIN checkpoints' = S \cup DOMAIN checkpoints
      /\ \A s \in S : checkpoints'[s] = Snapshot'
      /\ \A s \in DOMAIN checkpoints \ S : checkpoints'[s] = checkpoints[s]
  BY Saves
<1>2. Logged(message_window')
  BY DEF TextInv
<1>3. ASSUME NEW s \in S PROVE Logged(checkpoints'[s].message_window)
  <2>1. checkpoints'[s].message_window = message_window'
    BY <1>1 DEF Snapshot
  <2>2. QED BY <1>2, <2>1
<1>4. QED BY <1>1, <1>2, <1>3 DEF TextInv

LEMMA TextKept ==
    ASSUME TextInv, [Next]_vars
    PROVE  TextInv'
<1>1. CASE Message
  <2>1. UNCHANGED checkpoints
    BY <1>1, CallsStay DEF ScriptNext
  <2>2. QED BY <1>1, <2>1, MessagesLogged DEF TextInv
<1>2. CASE EndRound
  <2> DEFINE S == ToSet(pending_vm_saves)
  <2> HIDE DEF S
  <2>1. SaveTo(S) /\ message_window' = message_window
    BY <1>2 DEF S, EndRound, flush_pending_vm_saves, gui
  <2>2. QED BY <2>1, TextSaved
<1>3. CASE SaveCheckpoint
  <2>1. PICK s \in Slot : SaveTo({s}) /\ message_window' = message_window
    BY <1>3 DEF SaveCheckpoint, parts, gui
  <2>2. QED BY <2>1, TextSaved
<1>4. CASE LoadCheckpoint
  BY <1>4 DEF LoadCheckpoint, Restore, TextInv
<1>5. CASE HostSets
  <2>1. /\ UNCHANGED checkpoints
        /\ \/ message_window' = message_window
           \/ \E x : message_window' \in {[message_window EXCEPT !.text_speed = x],
                                          [message_window EXCEPT !.auto_mode = x],
                                          [message_window EXCEPT !.skip_mode = x],
                                          [message_window EXCEPT !.locale = x]}
    BY <1>5 DEF HostSets, Paced, Localized
  <2>2. "text" \in DOMAIN message_window /\ "backlog" \in DOMAIN message_window
    BY DEF TextInv, Logged
  <2>3. /\ DOMAIN message_window' = DOMAIN message_window
        /\ message_window'.text = message_window.text
        /\ message_window'.backlog = message_window.backlog
    BY <2>1, <2>2
  <2>4. Logged(message_window')
    BY <2>3, SameText DEF TextInv
  <2>5. QED BY <2>1, <2>4 DEF TextInv
<1>6. CASE ScriptNext /\ ~Message
  <2>1. UNCHANGED checkpoints
    BY <1>6, CallsStay
  <2>2. \/ message_window' = message_window
        \/ message_window' = [message_window EXCEPT !.visible = TRUE]
    BY <1>6
    DEF ScriptNext, Panels, SetPolicy, MapControls, Actions, Hud, RpgClear, Log, OnRpg,
        FailsWith, Outside, StoreCalls, StateSet, StateErase, StateSave, StateLoad,
        SetResource, AddResource, SetJob, EnableJob, TickJobs, SetUnit, MoveUnit,
        DamageUnit, OnStore, VmSave, AsksFor, VmLoad, Refused, gui
  <2>3. "text" \in DOMAIN message_window /\ "backlog" \in DOMAIN message_window
    BY DEF TextInv, Logged
  <2>4. Logged(message_window')
    BY <2>2, <2>3, SameText DEF TextInv
  <2>5. QED BY <2>1, <2>4 DEF TextInv
<1>7. CASE BeginRound \/ Wake \/ UNCHANGED vars
  <2>1. UNCHANGED <<message_window, checkpoints>>
    BY <1>7 DEF BeginRound, Wake, vars, parts, gui
  <2>2. QED BY <2>1 DEF TextInv
<1>8. QED BY <1>1, <1>2, <1>3, <1>4, <1>5, <1>6, <1>7 DEF Next, HostNext

\* The lines in the window are the end of the log, or the log is the end of them:
\* whatever is shown, appended, cleared, saved and loaded, in any order.
THEOREM NoLineMissing == SessionSpec => []TextInLog
<1>1. SessionInit => TextInv
  <2> SUFFICES ASSUME SessionInit PROVE TextInv
    OBVIOUS
  <2>1. message_window = MessageWindow /\ DOMAIN checkpoints = {}
    BY DEF SessionInit
  <2>2. QED BY <2>1, EmptiedLogged DEF TextInv
<1>2. TextInv /\ [Next]_vars => TextInv'
  BY TextKept
<1>3. TextInv => TextInLog
  BY DEF TextInv, Logged, TextInLog
<1>4. QED BY <1>1, <1>2, <1>3, PTL DEF SessionSpec

(***************************************************************************)
(* What the store holds.                                                   *)
(***************************************************************************)

\* Resources and the time are integers, no job has anything made left, its rate is
\* not negative, and the list of jobs is one of names.
Fits(k, v) ==
    /\ k[1] \in {"resource", "game"} =>
          v.tag = "integer" /\ v.integer \in Int /\ v.integer >= MinInt
    /\ k[1] = "job" =>
          /\ k[3] = "progress" => v = Integer(0)
          /\ k[3] = "rate" => v.tag = "integer" /\ v.integer \in Nat
    /\ k = Jobs => v.tag = "array" /\ v.items \in Seq(Name)

Fitting(c) == \A k \in DOMAIN c : Fits(k, c[k])

IsStore(s) == s = [current |-> s.current, slots |-> s.slots]

\* So it is now and in every slot, in the runtime and in every checkpoint.
StoreFits(s) ==
    /\ IsStore(s)
    /\ Fitting(s.current)
    /\ \A x \in DOMAIN s.slots : Fitting(s.slots[x])

StoreInv ==
    /\ StoreFits(state_manager)
    /\ \A s \in DOMAIN checkpoints : StoreFits(checkpoints[s].state_manager)

LEMMA Limits == /\ MinInt \in Int /\ MinInt <= -1
                /\ MaxInt \in Int /\ MaxInt >= 0
BY WidthAssumption, IntBitsAssumption DEF MinInt, MaxInt

LEMMA SaturatedIs ==
    ASSUME NEW n \in Int
    PROVE  /\ Saturated(n) \in Int /\ Saturated(n) >= MinInt /\ Saturated(n) <= MaxInt
           /\ n >= MinInt => Saturated(n) = IF n > MaxInt THEN MaxInt ELSE n
<1>1. n < MinInt \/ n > MaxInt \/ n \in MinInt .. MaxInt
  BY Limits
<1>2. CASE n < MinInt
  <2>1. Saturated(n) = MinInt
    <3>1. ~(n > MaxInt) /\ n \notin MinInt .. MaxInt
      BY <1>2, Limits
    <3>2. QED BY <1>2, <3>1, Zenon DEF Saturated
  <2>2. QED BY <1>2, <2>1, Limits
<1>3. CASE n > MaxInt
  <2>1. Saturated(n) = MaxInt
    <3>1. ~(n < MinInt) /\ n \notin MinInt .. MaxInt
      BY <1>3, Limits
    <3>2. QED BY <1>3, <3>1, Zenon DEF Saturated
  <2>2. QED BY <1>3, <2>1, Limits
<1>4. CASE n \in MinInt .. MaxInt
  <2>1. Saturated(n) = n
    <3>1. ~(n < MinInt) /\ ~(n > MaxInt)
      BY <1>4, Limits
    <3>2. QED BY <1>4, <3>1, Zenon DEF Saturated
  <2>2. QED BY <1>4, <2>1, Limits
<1>5. QED BY <1>1, <1>2, <1>3, <1>4

\* To saturate on the way makes no difference when all that is added is positive.
LEMMA SaturatedTwice ==
    \A x \in Int, a, b \in Nat : x >= MinInt =>
        Saturated(Saturated(x + a) + b) = Saturated(x + (a + b))
<1> SUFFICES ASSUME NEW x \in Int, x >= MinInt, NEW a \in Nat, NEW b \in Nat
             PROVE  Saturated(Saturated(x + a) + b) = Saturated(x + (a + b))
  OBVIOUS
<1>1. Saturated(x + a) = IF x + a > MaxInt THEN MaxInt ELSE x + a
  BY SaturatedIs, Limits
<1>2. Saturated(x + (a + b)) = IF x + (a + b) > MaxInt THEN MaxInt ELSE x + (a + b)
  BY SaturatedIs, Limits
<1>3. Saturated(Saturated(x + a) + b) =
          IF Saturated(x + a) + b > MaxInt THEN MaxInt ELSE Saturated(x + a) + b
  BY <1>1, SaturatedIs, Limits
<1>4. QED BY <1>1, <1>2, <1>3, Limits

LEMMA IntegerOf ==
    ASSUME NEW s, NEW key, get(s, key).tag = "integer"
    PROVE  state_integer(s, key) = get(s, key).integer
BY Zenon DEF state_integer

LEMMA IntegerOfNil ==
    ASSUME NEW s, NEW key, key \notin DOMAIN s.current
    PROVE  get(s, key) = Nil /\ state_integer(s, key) = 0
<1>1. get(s, key) = Nil
  BY DEF get
<1>2. get(s, key).tag # "integer" /\ get(s, key).tag # "bool"
  BY <1>1 DEF Nil
<1>3. state_integer(s, key) = 0
  BY <1>2, Zenon DEF state_integer
<1>4. QED BY <1>1, <1>3

LEMMA IntegerOfInteger ==
    ASSUME NEW s, NEW key, NEW n, get(s, key) = Integer(n)
    PROVE  state_integer(s, key) = n
<1>1. get(s, key).tag = "integer" /\ get(s, key).integer = n
  BY DEF Integer
<1>2. QED BY <1>1, IntegerOf

\* What is read of a store that fits.
LEMMA FitsRead ==
    ASSUME NEW s, Fitting(s.current)
    PROVE  /\ \A k : k[1] \in {"resource", "game"} =>
                 state_integer(s, k) \in Int /\ state_integer(s, k) >= MinInt
           /\ \A id : state_integer(s, Job(id, "progress")) = 0
           /\ \A id : state_integer(s, Job(id, "rate")) \in Nat
           /\ state_list_value(s, Jobs) \in Seq(Name)
<1>1. ASSUME NEW k, k \in DOMAIN s.current PROVE Fits(k, get(s, k))
  BY <1>1 DEF Fitting, get
<1>2. ASSUME NEW k, k[1] \in {"resource", "game"}
      PROVE  state_integer(s, k) \in Int /\ state_integer(s, k) >= MinInt
  <2>1. CASE k \in DOMAIN s.current
    <3>1. /\ get(s, k).tag = "integer" /\ get(s, k).integer \in Int
          /\ get(s, k).integer >= MinInt
      BY <1>1, <1>2, <2>1 DEF Fits
    <3>2. QED BY <3>1, IntegerOf
  <2>2. CASE k \notin DOMAIN s.current
    BY <2>2, IntegerOfNil, Limits
  <2>3. QED BY <2>1, <2>2
<1>3. ASSUME NEW id PROVE state_integer(s, Job(id, "progress")) = 0
  <2> DEFINE k == Job(id, "progress")
  <2>1. k[1] = "job" /\ k[3] = "progress"
    BY DEF Job
  <2> HIDE DEF k
  <2>2. CASE k \in DOMAIN s.current
    <3>1. get(s, k) = Integer(0)
      BY <1>1, <2>1, <2>2 DEF Fits
    <3>2. QED BY <3>1, IntegerOfInteger DEF k
  <2>3. CASE k \notin DOMAIN s.current
    BY <2>3, IntegerOfNil DEF k
  <2>4. QED BY <2>2, <2>3
<1>4. ASSUME NEW id PROVE state_integer(s, Job(id, "rate")) \in Nat
  <2> DEFINE k == Job(id, "rate")
  <2>1. k[1] = "job" /\ k[3] = "rate"
    BY DEF Job
  <2> HIDE DEF k
  <2>2. CASE k \in DOMAIN s.current
    <3>1. get(s, k).tag = "integer" /\ get(s, k).integer \in Nat
      BY <1>1, <2>1, <2>2 DEF Fits
    <3>2. QED BY <3>1, IntegerOf DEF k
  <2>3. CASE k \notin DOMAIN s.current
    BY <2>3, IntegerOfNil DEF k
  <2>4. QED BY <2>2, <2>3
<1>5. state_list_value(s, Jobs) \in Seq(Name)
  <2>1. CASE Jobs \in DOMAIN s.current
    <3>1. get(s, Jobs).tag = "array" /\ get(s, Jobs).items \in Seq(Name)
      BY <1>1, <2>1 DEF Fits
    <3>2. QED BY <3>1 DEF state_list_value
  <2>2. CASE Jobs \notin DOMAIN s.current
    <3>1. get(s, Jobs).tag = "nil"
      BY <2>2, IntegerOfNil DEF Nil
    <3>2. QED BY <3>1 DEF state_list_value
  <2>3. QED BY <2>1, <2>2
<1>6. QED BY <1>2, <1>3, <1>4, <1>5

(***************************************************************************)
(* What is written fits.                                                   *)
(***************************************************************************)

IsMap(s) == s.current = [k \in DOMAIN s.current |-> get(s, k)]

\* What a write leaves of the store.
LEMMA SetIs ==
    ASSUME NEW s, IsStore(s), NEW key, NEW value
    PROVE  /\ IsStore(set(s, key, value)) /\ set(s, key, value).slots = s.slots
           /\ DOMAIN set(s, key, value).current = DOMAIN s.current \cup {key}
           /\ get(set(s, key, value), key) = value
           /\ \A k : k # key => get(set(s, key, value), k) = get(s, k)
           /\ IsMap(set(s, key, value))
<1> DEFINE t == set(s, key, value)
           c == Over(s.current, [k \in {key} |-> value])
<1>1. t = [current |-> c, slots |-> s.slots]
  BY DEF IsStore, set
<1>2. /\ DOMAIN c = DOMAIN s.current \cup {key}
      /\ c = [k \in DOMAIN c |-> c[k]]
      /\ c[key] = value
      /\ \A k \in DOMAIN s.current : k # key => c[k] = s.current[k]
  BY DEF Over
<1> HIDE DEF c, t
<1>3. IsStore(t) /\ t.slots = s.slots /\ t.current = c
  BY <1>1 DEF IsStore
<1>4. get(t, key) = value /\ \A k : k # key => get(t, k) = get(s, k)
  BY <1>2, <1>3 DEF get
<1>5. IsMap(t)
  BY <1>2, <1>3 DEF get, IsMap
<1>6. QED BY <1>2, <1>3, <1>4, <1>5 DEF t

\* A store that fits in its slots, and in each key of the present.
LEMMA FitsByKey ==
    ASSUME NEW s, NEW t, StoreFits(s), IsStore(t), t.slots = s.slots,
           \A k \in DOMAIN t.current : Fits(k, get(t, k))
    PROVE  StoreFits(t)
BY DEF StoreFits, Fitting, get

LEMMA FitsKey ==
    ASSUME NEW s, StoreFits(s), NEW k \in DOMAIN s.current
    PROVE  Fits(k, get(s, k))
BY DEF StoreFits, Fitting, get

LEMMA SetFits ==
    ASSUME NEW s, StoreFits(s), NEW key, NEW value, Fits(key, value)
    PROVE  StoreFits(set(s, key, value))
<1> DEFINE t == set(s, key, value)
<1>1. /\ IsStore(t) /\ t.slots = s.slots
      /\ DOMAIN t.current = DOMAIN s.current \cup {key}
      /\ get(t, key) = value
      /\ \A k : k # key => get(t, k) = get(s, k)
  <2>1. IsStore(s)
    BY DEF StoreFits
  <2>2. QED BY <2>1, SetIs
<1> HIDE DEF t
<1>2. ASSUME NEW k \in DOMAIN t.current PROVE Fits(k, get(t, k))
  <2>1. CASE k = key
    BY <1>1, <2>1
  <2>2. CASE k # key
    <3>1. k \in DOMAIN s.current /\ get(t, k) = get(s, k)
      BY <1>1, <2>2
    <3>2. QED BY <3>1, FitsKey
  <2>3. QED BY <2>1, <2>2
<1>3. QED BY <1>1, <1>2, FitsByKey DEF t

LEMMA FieldsFit ==
    ASSUME NEW s, StoreFits(s), NEW kind, NEW id, NEW fields,
           \A f \in DOMAIN fields : Fits(<<kind, id, f>>, fields[f])
    PROVE  StoreFits(SetFields(s, kind, id, fields))
<1> DEFINE t    == SetFields(s, kind, id, fields)
           keys == {<<kind, id, f>> : f \in DOMAIN fields}
           g    == [k \in keys |-> fields[k[3]]]
           c    == Over(s.current, g)
<1>1. t = [current |-> c, slots |-> s.slots]
  BY DEF StoreFits, IsStore, SetFields
<1>2. ASSUME NEW k \in keys PROVE Fits(k, g[k])
  <2>1. PICK f \in DOMAIN fields : k = <<kind, id, f>>
    OBVIOUS
  <2>2. g[k] = fields[f]
    BY <2>1
  <2>3. QED BY <2>1, <2>2
<1>3. DOMAIN g = keys
  OBVIOUS
<1> HIDE DEF g, keys
<1>4. /\ DOMAIN c = DOMAIN s.current \cup keys
      /\ \A k \in keys : c[k] = g[k]
      /\ \A k \in DOMAIN s.current : k \notin keys => c[k] = s.current[k]
  BY <1>3 DEF Over
<1> HIDE DEF c, t
<1>5. IsStore(t) /\ t.slots = s.slots /\ t.current = c
  BY <1>1 DEF IsStore
<1>6. Fitting(c)
  BY <1>2, <1>4 DEF StoreFits, Fitting
<1>7. StoreFits(t)
  BY <1>5, <1>6 DEF StoreFits
<1>8. QED BY <1>7 DEF t

\* Keys of which nothing is asked.
LEMMA FreeKeys ==
    ASSUME NEW k, NEW v, k[1] \notin {"resource", "game", "job", "automation"}
    PROVE  Fits(k, v)
BY DEF Fits, Jobs

LEMMA FreeFields ==
    ASSUME NEW id, NEW f, f \notin {"progress", "rate"}, NEW v
    PROVE  Fits(Job(id, f), v)
<1>1. /\ Job(id, f)[1] = "job" /\ Job(id, f)[3] = f /\ Job(id, f) # Jobs
  BY DEF Job, Jobs
<1>2. QED BY <1>1 DEF Fits

LEMMA AmountFits ==
    ASSUME NEW n \in Int, n >= MinInt
    PROVE  /\ \A name : Fits(automation_resource_key(name), Integer(n))
           /\ Fits(GameTick, Integer(n))
<1>1. ASSUME NEW k, k[1] \in {"resource", "game"} PROVE Fits(k, Integer(n))
  <2>1. k # Jobs /\ k[1] # "job"
    BY <1>1 DEF Jobs
  <2>2. QED BY <2>1 DEF Fits, Integer
<1>2. GameTick[1] = "game" /\ \A name : automation_resource_key(name)[1] = "resource"
  BY DEF GameTick, automation_resource_key
<1>3. QED BY <1>1, <1>2

LEMMA AppendFits ==
    ASSUME NEW s, StoreFits(s), NEW key \in {Jobs, Units}, NEW id \in Name
    PROVE  StoreFits(append_state_list_value(s, key, id))
<1> DEFINE ids == state_list_value(s, key)
<1>1. Fits(key, Array(Append(ids, id)))
  <2>1. CASE key = Jobs
    <3>1. ids \in Seq(Name)
      BY <2>1, FitsRead DEF StoreFits
    <3>2. Append(ids, id) \in Seq(Name)
      BY <3>1
    <3>3. key[1] \notin {"resource", "game", "job"}
      BY <2>1 DEF Jobs
    <3>4. QED BY <3>2, <3>3 DEF Fits, Array
  <2>2. CASE key = Units
    <3>1. key[1] \notin {"resource", "game", "job", "automation"}
      BY <2>2 DEF Units
    <3>2. QED BY <3>1, FreeKeys
  <2>3. QED BY <2>1, <2>2
<1>2. StoreFits(set(s, key, Array(Append(ids, id))))
  BY <1>1, SetFits
<1>3. QED BY <1>2 DEF append_state_list_value

LEMMA SetJobFits ==
    ASSUME NEW s, StoreFits(s), NEW id \in Name, NEW enabled, NEW rate \in Int, NEW output
    PROVE  StoreFits(set_job(s, id, enabled, rate, output))
<1> DEFINE fields  == [enabled |-> Bool(enabled), rate |-> Integer(NonNegative(rate))]
           listed  == append_state_list_value(s, Jobs, id)
           rated   == SetFields(listed, "job", id, fields)
           started == IF Job(id, "progress") \in DOMAIN rated.current THEN rated
                      ELSE set(rated, Job(id, "progress"), Integer(0))
<1>1. set_job(s, id, enabled, rate, output) = set(started, Job(id, "output"), String(output))
  BY DEF set_job
<1>2. StoreFits(listed)
  BY AppendFits
<1>3. ASSUME NEW f \in DOMAIN fields PROVE Fits(<<"job", id, f>>, fields[f])
  <2>1. CASE f = "enabled"
    BY <2>1, FreeFields DEF Job
  <2>2. CASE f = "rate"
    <3> DEFINE k == <<"job", id, "rate">>
               v == Integer(NonNegative(rate))
    <3>1. k[1] = "job" /\ k[3] = "rate" /\ k # Jobs
      BY DEF Jobs
    <3>2. v.tag = "integer" /\ v.integer \in Nat
      BY DEF Integer, NonNegative
    <3> HIDE DEF k, v
    <3>3. Fits(k, v)
      BY <3>1, <3>2 DEF Fits
    <3>4. QED BY <2>2, <3>3 DEF k, v
  <2>3. QED BY <2>1, <2>2
<1> HIDE DEF fields, listed
<1>4. StoreFits(rated)
  BY <1>2, <1>3, FieldsFit
<1> HIDE DEF rated
<1>5. StoreFits(started)
  <2>1. Fits(Job(id, "progress"), Integer(0))
    BY DEF Fits, Job, Jobs
  <2>2. QED BY <1>4, <2>1, SetFits
<1> HIDE DEF started
<1>6. Fits(Job(id, "output"), String(output))
  BY FreeFields
<1>7. QED BY <1>1, <1>5, <1>6, SetFits

LEMMA SlotsFit ==
    ASSUME NEW s, StoreFits(s), NEW x
    PROVE  StoreFits(save(s, x)) /\ StoreFits(load(s, x))
<1>1. StoreFits(save(s, x))
  <2> DEFINE c == Over(s.slots, [y \in {x} |-> s.current])
  <2>1. save(s, x) = [current |-> s.current, slots |-> c]
    BY DEF save, StoreFits, IsStore
  <2>2. /\ DOMAIN c = DOMAIN s.slots \cup {x}
        /\ \A y \in DOMAIN c : c[y] = IF y = x THEN s.current ELSE s.slots[y]
    BY DEF Over
  <2> HIDE DEF c
  <2>3. \A y \in DOMAIN c : Fitting(c[y])
    BY <2>2 DEF StoreFits
  <2>4. QED BY <2>1, <2>3 DEF StoreFits, IsStore
<1>2. StoreFits(load(s, x))
  <2>1. CASE x \in DOMAIN s.slots
    <3>1. load(s, x) = [current |-> s.slots[x], slots |-> s.slots]
      BY <2>1 DEF load, StoreFits, IsStore
    <3>2. QED BY <2>1, <3>1 DEF StoreFits, IsStore
  <2>2. CASE x \notin DOMAIN s.slots
    BY <2>2 DEF load
  <2>3. QED BY <2>1, <2>2
<1>3. QED BY <1>1, <1>2

LEMMA EraseFits ==
    ASSUME NEW s, StoreFits(s), NEW key
    PROVE  StoreFits(erase(s, key))
<1> DEFINE c == [k \in DOMAIN s.current \ {key} |-> s.current[k]]
<1>1. erase(s, key) = [current |-> c, slots |-> s.slots]
  BY DEF erase, StoreFits, IsStore
<1>2. Fitting(c)
  BY DEF StoreFits, Fitting
<1> HIDE DEF c
<1>3. QED BY <1>1, <1>2 DEF StoreFits, IsStore

(***************************************************************************)
(* A tick, in one go: what the jobs bring to a resource adds up.           *)
(***************************************************************************)

Rate(s, id)   == NonNegative(state_integer(s, Job(id, "rate")))
Target(s, id) == automation_resource_key(get(s, Job(id, "output")).text)

\* Of each job listed: whether it works, what it makes in n steps, and of what.
Yield(s, n) ==
    LET ids == state_list_value(s, Jobs)
    IN  [i \in 1 .. Len(ids) |-> [works |-> ~Idle(s, ids[i]), job |-> ids[i],
                                  made |-> Saturated(Rate(s, ids[i]) * n),
                                  key |-> Target(s, ids[i])]]

Gain(job, key) == IF job.works /\ job.key = key THEN job.made ELSE 0

\* g[k] is what the first k of the N jobs bring to the resource with this key.
Gains(g, y, N, key) ==
    /\ g \in [0 .. N -> Nat]
    /\ g[0] = 0
    /\ \A k \in 1 .. N : g[k] = g[k - 1] + Gain(y[k], key)
Gained(y, N, key) == CHOOSE g : Gains(g, y, N, key)

Resets(y, k)     == {<<"job", y[i].job, "progress">> : i \in {i \in 1 .. k : y[i].works}}
Gainers(y, N, k) == {key \in {y[i].key : i \in 1 .. N} : Gained(y, N, key)[k] > 0}

\* What the store holds after n steps of the first k jobs.
Later(s, n, y, N, k) ==
    [key \in DOMAIN s.current \cup {GameTick} \cup Resets(y, k) \cup Gainers(y, N, k) |->
        IF key = GameTick THEN Integer(Saturated(state_integer(s, GameTick) + n))
        ELSE IF key \in Resets(y, k) THEN Integer(0)
        ELSE IF key \in Gainers(y, N, k)
             THEN Integer(Saturated(state_integer(s, key) + Gained(y, N, key)[k]))
        ELSE s.current[key]]

\* The jobs as Yield has them.
IsYield(y, N) ==
    /\ N \in Nat
    /\ \A i \in 1 .. N : y[i].made \in Nat /\ y[i].key[1] = "resource"

LEMMA GainsExist ==
    ASSUME NEW y, NEW N, IsYield(y, N), NEW key
    PROVE  Gains(Gained(y, N, key), y, N, key)
<1> DEFINE step == [k \in 1 .. N |-> [v \in Nat |-> v + Gain(y[k], key)]]
           V    == Nat
           none == 0
<1>1. \A k \in 1 .. N : Gain(y[k], key) \in Nat
  BY DEF IsYield, Gain
<1>2. step \in [1 .. N -> [V -> V]] /\ none \in V /\ N \in Nat
  BY <1>1 DEF IsYield
<1>3. PICK g : Computes(g, N, V, none, step)
  <2> HIDE DEF step, V, none
  <2>1. QED BY <1>2, Computed
<1>4. ASSUME NEW k \in 1 .. N PROVE g[k] = g[k - 1] + Gain(y[k], key)
  <2>1. g[k - 1] \in Nat
    BY <1>2, <1>3 DEF Computes
  <2>2. g[k] = step[k][g[k - 1]]
    BY <1>3 DEF Computes
  <2>3. QED BY <2>1, <2>2
<1>5. Gains(g, y, N, key)
  BY <1>3, <1>4 DEF Computes, Gains
<1>6. QED BY <1>5, Zenon DEF Gained

\* One job more.
LEMMA GainedNext ==
    ASSUME NEW y, NEW N, IsYield(y, N), NEW key, NEW k \in 1 .. N
    PROVE  /\ k - 1 \in 0 .. N /\ k \in 0 .. N
           /\ Gained(y, N, key)[k] \in Nat /\ Gained(y, N, key)[k - 1] \in Nat
           /\ Gained(y, N, key)[k] = Gained(y, N, key)[k - 1] + Gain(y[k], key)
<1>1. N \in Nat
  BY DEF IsYield
<1>2. k - 1 \in 0 .. N /\ k \in 0 .. N
  BY <1>1
<1> DEFINE g == Gained(y, N, key)
<1>3. Gains(g, y, N, key)
  BY GainsExist
<1> HIDE DEF g
<1>4. QED BY <1>2, <1>3 DEF Gains, g

LEMMA YieldIs ==
    ASSUME NEW s, Fitting(s.current), NEW n \in Nat
    PROVE  LET ids == state_list_value(s, Jobs)
           IN  /\ IsYield(Yield(s, n), Len(ids))
               /\ \A i \in 1 .. Len(ids) :
                     /\ Yield(s, n)[i].works = ~Idle(s, ids[i])
                     /\ Yield(s, n)[i].job = ids[i]
                     /\ Yield(s, n)[i].made = Saturated(Rate(s, ids[i]) * n)
                     /\ Yield(s, n)[i].key = Target(s, ids[i])
                     /\ Rate(s, ids[i]) \in Nat
<1> DEFINE ids == state_list_value(s, Jobs)
           y   == Yield(s, n)
<1>1. ids \in Seq(Name)
  BY FitsRead
<1>2. Len(ids) \in Nat
  BY <1>1
<1>3. ASSUME NEW i \in 1 .. Len(ids)
      PROVE  /\ y[i].works = ~Idle(s, ids[i])
             /\ y[i].job = ids[i]
             /\ y[i].made = Saturated(Rate(s, ids[i]) * n)
             /\ y[i].key = Target(s, ids[i])
  BY DEF Yield
<1>4. ASSUME NEW i \in 1 .. Len(ids)
      PROVE  Rate(s, ids[i]) \in Nat
  <2>1. state_integer(s, Job(ids[i], "rate")) \in Nat
    BY FitsRead
  <2>2. QED BY <2>1 DEF Rate, NonNegative
<1> HIDE DEF y
<1>5. ASSUME NEW i \in 1 .. Len(ids)
      PROVE  y[i].made \in Nat /\ y[i].key[1] = "resource"
  <2>1. Rate(s, ids[i]) * n \in Nat
    BY <1>4
  <2>2. Saturated(Rate(s, ids[i]) * n) \in Nat
    BY <2>1, SaturatedIs, Limits
  <2>3. Target(s, ids[i])[1] = "resource"
    BY DEF Target, automation_resource_key
  <2>4. QED BY <1>3, <2>2, <2>3
<1>6. QED BY <1>2, <1>3, <1>4, <1>5 DEF IsYield, y

\* What is read of the store in the middle of a tick.
Reads(s, t, n, y, N, k) ==
    /\ \A id, f : f # "progress" => get(t, Job(id, f)) = get(s, Job(id, f))
    /\ get(t, Jobs) = get(s, Jobs)
    /\ get(t, GameTick) = Integer(Saturated(state_integer(s, GameTick) + n))
    /\ \A key \in Resets(y, k) : get(t, key) = Integer(0)
    /\ \A key : key # GameTick /\ key \notin Resets(y, k)
                /\ key \notin Gainers(y, N, k) => get(t, key) = get(s, key)
    /\ \A key \in Gainers(y, N, k) :
          get(t, key) =
             Integer(Saturated(state_integer(s, key) + Gained(y, N, key)[k]))
    /\ \A key \in Gainers(y, N, k) : key[1] = "resource"
    /\ \A key \in Resets(y, k) : key[1] = "job" /\ key[3] = "progress"

LEMMA LaterReads ==
    ASSUME NEW s, NEW t, NEW n, NEW y, NEW N, IsYield(y, N), NEW k \in 0 .. N,
           t.current = Later(s, n, y, N, k)
    PROVE  Reads(s, t, n, y, N, k)
<1>1. \A key \in Gainers(y, N, k) : key[1] = "resource"
  BY DEF Gainers, IsYield
<1>2. \A key \in Resets(y, k) : key[1] = "job" /\ key[3] = "progress"
  BY DEF Resets
<1>3. GameTick[1] = "game"
  BY DEF GameTick
<1>4. /\ GameTick \notin Resets(y, k) /\ GameTick \notin Gainers(y, N, k)
      /\ \A key \in Gainers(y, N, k) : key \notin Resets(y, k)
  BY <1>1, <1>2, <1>3
<1>5. get(t, GameTick) = Integer(Saturated(state_integer(s, GameTick) + n))
  BY <1>4 DEF get, Later
<1>6. \A key \in Resets(y, k) : get(t, key) = Integer(0)
  BY <1>4 DEF get, Later
<1>7. ASSUME NEW key, key # GameTick, key \notin Resets(y, k), key \notin Gainers(y, N, k)
      PROVE  get(t, key) = get(s, key)
  BY <1>7 DEF get, Later
<1>8. ASSUME NEW key \in Gainers(y, N, k)
      PROVE  get(t, key) = Integer(Saturated(state_integer(s, key) + Gained(y, N, key)[k]))
  <2>1. key # GameTick /\ key \notin Resets(y, k)
    BY <1>4
  <2>2. QED BY <2>1 DEF get, Later
<1>9. ASSUME NEW id, NEW f, f # "progress" PROVE get(t, Job(id, f)) = get(s, Job(id, f))
  <2>1. Job(id, f)[1] = "job" /\ Job(id, f)[3] = f
    BY DEF Job
  <2>2. QED BY <1>1, <1>2, <1>3, <1>7, <1>9, <2>1
<1>10. get(t, Jobs) = get(s, Jobs)
  <2>1. Jobs[1] = "automation"
    BY DEF Jobs
  <2>2. QED BY <1>1, <1>2, <1>3, <1>7, <2>1
<1>11. QED BY <1>1, <1>2, <1>5, <1>6, <1>7, <1>8, <1>9, <1>10 DEF Reads

\* So the jobs are the same all through it.
LEMMA SameJobs ==
    ASSUME NEW s, NEW t, \A id, f : f # "progress" => get(t, Job(id, f)) = get(s, Job(id, f)),
           get(t, Jobs) = get(s, Jobs)
    PROVE  /\ state_list_value(t, Jobs) = state_list_value(s, Jobs)
           /\ \A id : /\ Idle(t, id) <=> Idle(s, id)
                      /\ Rate(t, id) = Rate(s, id) /\ Target(t, id) = Target(s, id)
                      /\ get(t, Job(id, "output")) = get(s, Job(id, "output"))
                      /\ state_integer(t, Job(id, "rate")) = state_integer(s, Job(id, "rate"))
<1>1. state_list_value(t, Jobs) = state_list_value(s, Jobs)
  BY DEF state_list_value
<1>2. ASSUME NEW id
      PROVE  /\ get(t, Job(id, "output")) = get(s, Job(id, "output"))
             /\ get(t, Job(id, "enabled")) = get(s, Job(id, "enabled"))
             /\ get(t, Job(id, "rate")) = get(s, Job(id, "rate"))
  OBVIOUS
<1>3. ASSUME NEW id
      PROVE  state_integer(t, Job(id, "rate")) = state_integer(s, Job(id, "rate"))
  BY <1>2 DEF state_integer
<1>4. ASSUME NEW id PROVE Idle(t, id) <=> Idle(s, id)
  BY <1>2, Zenon DEF Idle, state_bool
<1>5. QED BY <1>1, <1>2, <1>3, <1>4 DEF Rate, Target

LEMMA LaterIs ==
    ASSUME NEW s, NEW u, NEW n, NEW y, NEW N, NEW k,
           IsMap(u),
           DOMAIN u.current =
               DOMAIN s.current \cup {GameTick} \cup Resets(y, k) \cup Gainers(y, N, k),
           get(u, GameTick) = Integer(Saturated(state_integer(s, GameTick) + n)),
           \A key \in Resets(y, k) : key # GameTick => get(u, key) = Integer(0),
           \A key \in Gainers(y, N, k) : key # GameTick /\ key \notin Resets(y, k) =>
              get(u, key) = Integer(Saturated(state_integer(s, key) + Gained(y, N, key)[k])),
           \A key \in DOMAIN s.current :
              key # GameTick /\ key \notin Resets(y, k) /\ key \notin Gainers(y, N, k)
                  => get(u, key) = get(s, key)
    PROVE  u.current = Later(s, n, y, N, k)
<1> DEFINE D == DOMAIN s.current \cup {GameTick} \cup Resets(y, k) \cup Gainers(y, N, k)
           Value(key) ==
              IF key = GameTick THEN Integer(Saturated(state_integer(s, GameTick) + n))
              ELSE IF key \in Resets(y, k) THEN Integer(0)
              ELSE IF key \in Gainers(y, N, k)
                   THEN Integer(Saturated(state_integer(s, key) + Gained(y, N, key)[k]))
              ELSE s.current[key]
<1>1. Later(s, n, y, N, k) = [key \in D |-> Value(key)]
  BY DEF Later
<1>2. ASSUME NEW key \in D PROVE get(u, key) = Value(key)
  <2>1. CASE key = GameTick
    BY <2>1
  <2>2. CASE key # GameTick /\ key \in Resets(y, k)
    BY <2>2
  <2>3. CASE key # GameTick /\ key \notin Resets(y, k) /\ key \in Gainers(y, N, k)
    BY <2>3
  <2>4. CASE key # GameTick /\ key \notin Resets(y, k) /\ key \notin Gainers(y, N, k)
    <3>1. key \in DOMAIN s.current /\ get(u, key) = get(s, key)
      BY <2>4
    <3>2. QED BY <2>4, <3>1 DEF get
  <2>5. QED BY <2>1, <2>2, <2>3, <2>4
<1>3. DOMAIN u.current = D
  OBVIOUS
<1>4. u.current = [key \in DOMAIN u.current |-> get(u, key)]
  BY DEF IsMap
<1> HIDE DEF D, Value
<1>5. QED BY <1>1, <1>2, <1>3, <1>4

LEMMA ResetsNext ==
    ASSUME NEW y, NEW N \in Nat, NEW k \in 1 .. N
    PROVE  Resets(y, k) = Resets(y, k - 1) \cup
               IF y[k].works THEN {<<"job", y[k].job, "progress">>} ELSE {}
<1>1. 1 .. k = (1 .. (k - 1)) \cup {k}
  OBVIOUS
<1> DEFINE W(j) == {i \in 1 .. j : y[i].works}
<1>2. W(k) = W(k - 1) \cup IF y[k].works THEN {k} ELSE {}
  BY <1>1
<1>3. \A j : Resets(y, j) = {<<"job", y[i].job, "progress">> : i \in W(j)}
  BY DEF Resets
<1> HIDE DEF W
<1>4. QED BY <1>2, <1>3

LEMMA GainersNext ==
    ASSUME NEW y, NEW N, IsYield(y, N), NEW k \in 1 .. N
    PROVE  /\ Gainers(y, N, k) = Gainers(y, N, k - 1) \cup
                 IF y[k].works /\ y[k].made > 0 THEN {y[k].key} ELSE {}
           /\ \A key : ~(y[k].works /\ y[k].made > 0 /\ y[k].key = key) =>
                 Gained(y, N, key)[k] = Gained(y, N, key)[k - 1]
           /\ y[k].works => Gained(y, N, y[k].key)[k] =
                              Gained(y, N, y[k].key)[k - 1] + y[k].made
<1>1. ASSUME NEW key
      PROVE  /\ Gained(y, N, key)[k] \in Nat /\ Gained(y, N, key)[k - 1] \in Nat
             /\ Gained(y, N, key)[k] = Gained(y, N, key)[k - 1] + Gain(y[k], key)
  BY GainedNext
<1>2. y[k].made \in Nat
  BY DEF IsYield
<1>3. ASSUME NEW key, ~(y[k].works /\ y[k].made > 0 /\ y[k].key = key)
      PROVE  Gained(y, N, key)[k] = Gained(y, N, key)[k - 1]
  <2>1. Gain(y[k], key) = 0
    BY <1>2, <1>3 DEF Gain
  <2>2. QED BY <1>1, <2>1
<1>4. y[k].works => Gained(y, N, y[k].key)[k] = Gained(y, N, y[k].key)[k - 1] + y[k].made
  <2>1. y[k].works => Gain(y[k], y[k].key) = y[k].made
    BY DEF Gain
  <2>2. QED BY <1>1, <2>1
<1> DEFINE X == IF y[k].works /\ y[k].made > 0 THEN {y[k].key} ELSE {}
<1>5. ASSUME NEW key \in {y[i].key : i \in 1 .. N}
      PROVE  Gained(y, N, key)[k] > 0 <=> Gained(y, N, key)[k - 1] > 0 \/ key \in X
  <2>1. CASE key \in X
    BY <1>1, <1>2, <1>4, <2>1
  <2>2. CASE key \notin X
    BY <1>3, <2>2
  <2>3. QED BY <2>1, <2>2
<1>6. X \subseteq {y[i].key : i \in 1 .. N}
  OBVIOUS
<1> HIDE DEF X
<1>7. Gainers(y, N, k) = Gainers(y, N, k - 1) \cup X
  BY <1>5, <1>6 DEF Gainers
<1>8. QED BY <1>3, <1>4, <1>7 DEF X

\* The next job of a tick.
LEMMA WorkedIs ==
    ASSUME NEW s, StoreFits(s), NEW n \in Nat, NEW k \in 1 .. Len(state_list_value(s, Jobs)),
           NEW t, IsStore(t), t.slots = s.slots,
           t.current = Later(s, n, Yield(s, n), Len(state_list_value(s, Jobs)), k - 1)
    PROVE  LET u == Worked(t, state_list_value(s, Jobs)[k], n)
           IN  /\ IsStore(u) /\ u.slots = s.slots
               /\ u.current = Later(s, n, Yield(s, n), Len(state_list_value(s, Jobs)), k)
<1> DEFINE ids == state_list_value(s, Jobs)
           N   == Len(ids)
           y   == Yield(s, n)
           id  == ids[k]
           u   == Worked(t, id, n)
           p   == Job(id, "progress")
           reset == set(t, p, Integer(0))
           R0 == Resets(y, k - 1)   R == Resets(y, k)
           G0 == Gainers(y, N, k - 1)   G == Gainers(y, N, k)
           sum(key) == state_integer(s, key) + Gained(y, N, key)[k]
<1>1. Fitting(s.current) /\ ids \in Seq(Name) /\ N \in Nat /\ k \in 0 .. N /\ k - 1 \in 0 .. N
  <2>1. Fitting(s.current)
    BY DEF StoreFits
  <2>2. ids \in Seq(Name)
    BY <2>1, FitsRead
  <2>3. QED BY <2>1, <2>2
<1>2. /\ IsYield(y, N)
      /\ y[k].works <=> ~Idle(s, id)
      /\ y[k].job = id /\ y[k].made = Saturated(Rate(s, id) * n)
      /\ y[k].key = Target(s, id) /\ Rate(s, id) \in Nat
  BY <1>1, YieldIs
<1>3. y[k].made \in Nat /\ y[k].key[1] = "resource"
  BY <1>2 DEF IsYield
<1>4. /\ \A i, f : f # "progress" => get(t, Job(i, f)) = get(s, Job(i, f))
      /\ get(t, Jobs) = get(s, Jobs)
      /\ get(t, GameTick) = Integer(Saturated(state_integer(s, GameTick) + n))
      /\ \A key \in R0 : get(t, key) = Integer(0)
      /\ \A key : key # GameTick /\ key \notin R0 /\ key \notin G0 => get(t, key) = get(s, key)
      /\ \A key \in G0 : get(t, key) =
            Integer(Saturated(state_integer(s, key) + Gained(y, N, key)[k - 1]))
      /\ \A key \in G0 : key[1] = "resource"
      /\ \A key \in R0 : key[1] = "job" /\ key[3] = "progress"
  <2>1. t.current = Later(s, n, y, N, k - 1)
    OBVIOUS
  <2>2. IsYield(y, N) /\ k - 1 \in 0 .. N
    BY <1>1, <1>2
  <2> HIDE DEF y, N
  <2>3. Reads(s, t, n, y, N, k - 1)
    BY <2>1, <2>2, LaterReads
  <2>4. QED BY <2>3 DEF Reads
<1>5. /\ Idle(t, id) <=> Idle(s, id)
      /\ get(t, Job(id, "output")) = get(s, Job(id, "output"))
      /\ state_integer(t, Job(id, "rate")) = state_integer(s, Job(id, "rate"))
  BY <1>4, SameJobs
<1>6. /\ G = G0 \cup IF y[k].works /\ y[k].made > 0 THEN {y[k].key} ELSE {}
      /\ \A key : ~(y[k].works /\ y[k].made > 0 /\ y[k].key = key) =>
            Gained(y, N, key)[k] = Gained(y, N, key)[k - 1]
      /\ y[k].works => Gained(y, N, y[k].key)[k] = Gained(y, N, y[k].key)[k - 1] + y[k].made
  <2>1. k \in 1 .. N
    OBVIOUS
  <2>2. IsYield(y, N)
    BY <1>2
  <2> HIDE DEF y, N
  <2>3. QED BY <2>1, <2>2, GainersNext
<1>7. R = R0 \cup IF y[k].works THEN {p} ELSE {}
  <2>1. R = R0 \cup IF y[k].works THEN {<<"job", y[k].job, "progress">>} ELSE {}
    <3> HIDE DEF y, N
    <3>1. k \in 1 .. N
      BY DEF N
    <3>2. QED BY <1>1, <3>1, ResetsNext
  <2>2. QED BY <1>2, <2>1 DEF Job
<1>8. state_integer(t, p) = 0
  <2>1. CASE p \in R0
    BY <1>4, <2>1, IntegerOfInteger
  <2>2. CASE p \notin R0
    <3>1. p[1] = "job" /\ GameTick[1] = "game"
      BY DEF Job, GameTick
    <3>2. get(t, p) = get(s, p)
      BY <1>4, <2>2, <3>1
    <3>3. state_integer(s, p) = 0
      BY <1>1, FitsRead
    <3>4. QED BY <3>2, <3>3 DEF state_integer
  <2>3. QED BY <2>1, <2>2
<1>9. IsMap(t) /\ DOMAIN t.current = DOMAIN s.current \cup {GameTick} \cup R0 \cup G0
  BY DEF Later, get, IsMap
<1>10. /\ p # GameTick /\ p \notin G0 /\ y[k].key # GameTick /\ y[k].key # p
       /\ y[k].key \notin R0
  <2>1. p[1] = "job" /\ GameTick[1] = "game"
    BY DEF Job, GameTick
  <2>2. QED BY <1>3, <1>4, <2>1
<1>11. NonNegative(Saturated(state_integer(t, p) +
            Saturated(NonNegative(state_integer(t, Job(id, "rate"))) * n))) = y[k].made
  <2>1. NonNegative(state_integer(t, Job(id, "rate"))) = Rate(s, id)
    BY <1>5 DEF Rate
  <2>2. Rate(s, id) * n \in Nat
    BY <1>2
  <2>3. Saturated(0 + y[k].made) = y[k].made
    BY <1>2, <1>3, <2>2, SaturatedIs, Limits
  <2>4. QED BY <1>2, <1>3, <1>8, <2>1, <2>3 DEF NonNegative
<1>12. u = IF Idle(t, id) THEN t
           ELSE IF y[k].made > 0
                THEN add_resource(reset, get(t, Job(id, "output")).text, y[k].made)
           ELSE reset
  BY <1>11 DEF Worked
<1>13. t.current = Later(s, n, y, N, k - 1)
  OBVIOUS
<1> HIDE DEF ids, N, y, id, u, p, reset, R0, R, G0, G
<1>14. CASE Idle(t, id)
  <2>1. u = t /\ R = R0 /\ G = G0
    BY <1>2, <1>5, <1>6, <1>7, <1>12, <1>14
  <2>2. \A key : Gained(y, N, key)[k] = Gained(y, N, key)[k - 1]
    BY <1>2, <1>5, <1>6, <1>14
  <2>3. t.current = Later(s, n, y, N, k)
    BY <1>4, <1>9, <2>1, <2>2, LaterIs DEF R, G, R0, G0
  <2>4. QED BY <2>1, <2>3 DEF u, y, N, ids, id
<1>15. CASE ~Idle(t, id) /\ ~(y[k].made > 0)
  <2>1. u = reset /\ R = R0 \cup {p} /\ G = G0
    BY <1>2, <1>5, <1>6, <1>7, <1>12, <1>15
  <2>2. \A key : Gained(y, N, key)[k] = Gained(y, N, key)[k - 1]
    BY <1>6, <1>15
  <2>3. /\ IsStore(u) /\ u.slots = s.slots
        /\ IsMap(u)
        /\ DOMAIN u.current = DOMAIN t.current \cup {p}
        /\ get(u, p) = Integer(0)
        /\ \A key : key # p => get(u, key) = get(t, key)
    BY <2>1, SetIs DEF reset
  <2>4. DOMAIN u.current = DOMAIN s.current \cup {GameTick} \cup R \cup G
    BY <1>9, <2>1, <2>3
  <2>5. u.current = Later(s, n, y, N, k)
    <3>1. get(u, GameTick) = Integer(Saturated(state_integer(s, GameTick) + n))
      BY <1>4, <1>10, <2>3
    <3>2. \A key \in R : get(u, key) = Integer(0)
      BY <1>4, <2>1, <2>3
    <3>3. \A key \in G : get(u, key) = Integer(Saturated(sum(key)))
      BY <1>4, <1>10, <2>1, <2>2, <2>3
    <3>4. \A key : key # GameTick /\ key \notin R /\ key \notin G => get(u, key) = get(s, key)
      BY <1>4, <2>1, <2>3
    <3>5. QED BY <2>3, <2>4, <3>1, <3>2, <3>3, <3>4, LaterIs DEF R, G
  <2>6. QED BY <2>3, <2>5 DEF u, y, N, ids, id
<1>16. CASE ~Idle(t, id) /\ y[k].made > 0
  <2> DEFINE x == y[k].key
  <2>1. R = R0 \cup {p} /\ G = G0 \cup {x}
    BY <1>2, <1>5, <1>6, <1>7, <1>16
  <2>2. /\ \A key : key # x => Gained(y, N, key)[k] = Gained(y, N, key)[k - 1]
        /\ Gained(y, N, x)[k] = Gained(y, N, x)[k - 1] + y[k].made
    BY <1>2, <1>5, <1>6, <1>16
  <2>3. x = automation_resource_key(get(t, Job(id, "output")).text)
    BY <1>2, <1>5 DEF Target
  <2>4. u = set(reset, x, Integer(Saturated(state_integer(reset, x) + y[k].made)))
    BY <1>12, <1>16, <2>3 DEF add_resource
  <2> HIDE DEF x
  <2>5. /\ IsStore(reset) /\ reset.slots = s.slots
        /\ DOMAIN reset.current = DOMAIN t.current \cup {p}
        /\ get(reset, p) = Integer(0)
        /\ \A key : key # p => get(reset, key) = get(t, key)
    BY SetIs DEF reset
  <2>6. /\ IsStore(u) /\ u.slots = s.slots
        /\ IsMap(u)
        /\ DOMAIN u.current = DOMAIN reset.current \cup {x}
        /\ get(u, x) = Integer(Saturated(state_integer(reset, x) + y[k].made))
        /\ \A key : key # x => get(u, key) = get(reset, key)
    BY <2>4, <2>5, SetIs
  <2>7. x # p /\ x # GameTick /\ x \notin R0
    BY <1>10 DEF x
  <2>8. state_integer(s, x) \in Int /\ state_integer(s, x) >= MinInt
    BY <1>1, <1>3, FitsRead DEF x
  <2>9. Gained(y, N, x)[k - 1] \in Nat
    <3>1. k \in 1 .. N
      BY DEF N, ids
    <3>2. QED BY <1>2, <3>1, GainedNext
  <2>10. Saturated(state_integer(reset, x) + y[k].made) = Saturated(sum(x))
    <3>1. state_integer(reset, x) = state_integer(t, x)
      BY <2>5, <2>7 DEF state_integer
    <3>2. CASE x \in G0
      <4>1. state_integer(t, x) = Saturated(state_integer(s, x) + Gained(y, N, x)[k - 1])
        BY <1>4, <3>2, IntegerOfInteger
      <4> DEFINE v == state_integer(s, x)
                 g == Gained(y, N, x)[k - 1]
                 m == y[k].made
      <4>2. v \in Int /\ v >= MinInt /\ g \in Nat /\ m \in Nat
        BY <1>3, <2>8, <2>9
      <4>3. state_integer(reset, x) = Saturated(v + g) /\ sum(x) = v + (g + m)
        BY <2>2, <3>1, <4>1
      <4> HIDE DEF v, g, m, sum
      <4>4. Saturated(Saturated(v + g) + m) = Saturated(v + (g + m))
        BY <4>2, SaturatedTwice
      <4>5. Saturated(state_integer(reset, x) + m) = Saturated(sum(x))
        BY <4>3, <4>4, Zenon
      <4>6. QED BY <4>5 DEF m
    <3>3. CASE x \notin G0
      <4>1. state_integer(t, x) = state_integer(s, x)
        <5>1. get(t, x) = get(s, x)
          BY <1>4, <2>7, <3>3
        <5>2. QED BY <5>1 DEF state_integer
      <4>2. Gained(y, N, x)[k - 1] = 0
        <5>1. x \in {y[i].key : i \in 1 .. N}
          BY DEF x, N, ids
        <5>2. ~(Gained(y, N, x)[k - 1] > 0)
          BY <3>3, <5>1 DEF G0, Gainers
        <5>3. QED BY <2>9, <5>2
      <4>3. QED BY <1>3, <2>2, <2>8, <3>1, <4>1, <4>2
    <3>4. QED BY <3>2, <3>3
  <2>11. DOMAIN u.current = DOMAIN s.current \cup {GameTick} \cup R \cup G
    BY <1>9, <2>1, <2>5, <2>6
  <2>12. u.current = Later(s, n, y, N, k)
    <3>1. get(u, GameTick) = Integer(Saturated(state_integer(s, GameTick) + n))
      BY <1>4, <1>10, <2>5, <2>6, <2>7
    <3>2. \A key \in R : get(u, key) = Integer(0)
      BY <1>4, <2>1, <2>5, <2>6, <2>7
    <3>3. \A key \in G : get(u, key) = Integer(Saturated(sum(key)))
      <4>1. get(u, x) = Integer(Saturated(sum(x)))
        BY <2>6, <2>10
      <4>2. \A key \in G0 : key # x => get(u, key) = Integer(Saturated(sum(key)))
        BY <1>4, <1>10, <2>2, <2>5, <2>6
      <4>3. QED BY <2>1, <4>1, <4>2
    <3>4. \A key : key # GameTick /\ key \notin R /\ key \notin G => get(u, key) = get(s, key)
      BY <1>4, <2>1, <2>5, <2>6
    <3>5. QED BY <2>6, <2>11, <3>1, <3>2, <3>3, <3>4, LaterIs DEF R, G
  <2>13. QED BY <2>6, <2>12 DEF u, y, N, ids, id
<1>17. QED BY <1>14, <1>15, <1>16

\* A tick: the time goes on, and all jobs have worked.
LEMMA TickIs ==
    ASSUME NEW s, StoreFits(s), NEW arg \in Int
    PROVE  LET n == NonNegative(arg)
               N == Len(state_list_value(s, Jobs))
           IN  tick(s, arg) = [current |-> Later(s, n, Yield(s, n), N, N), slots |-> s.slots]
<1> DEFINE n     == NonNegative(arg)
           ids   == state_list_value(s, Jobs)
           N     == Len(ids)
           y     == Yield(s, n)
           timed == set(s, GameTick, Integer(Saturated(state_integer(s, GameTick) + n)))
           Is(w) == w = [k \in 0 .. N |-> IF k = 0 THEN timed ELSE Worked(w[k - 1], ids[k], n)]
           at(k) == [current |-> Later(s, n, y, N, k), slots |-> s.slots]
           worked == CHOOSE w : Is(w)
<1>1. Fitting(s.current) /\ ids \in Seq(Name) /\ N \in Nat /\ n \in Nat
  <2>1. Fitting(s.current)
    BY DEF StoreFits
  <2>2. ids \in Seq(Name)
    BY <2>1, FitsRead
  <2>3. QED BY <2>1, <2>2 DEF NonNegative
<1>2. IsYield(y, N)
  BY <1>1, YieldIs
<1>3. /\ IsStore(timed) /\ timed.slots = s.slots /\ IsMap(timed)
      /\ DOMAIN timed.current = DOMAIN s.current \cup {GameTick}
      /\ get(timed, GameTick) = Integer(Saturated(state_integer(s, GameTick) + n))
      /\ \A k : k # GameTick => get(timed, k) = get(s, k)
  BY SetIs DEF StoreFits
<1>4. timed = at(0)
  <2>1. Resets(y, 0) = {}
    BY DEF Resets
  <2>2. Gainers(y, N, 0) = {}
    <3>1. \A key : Gained(y, N, key)[0] = 0
      BY <1>2, GainsExist DEF Gains
    <3>2. QED BY <3>1 DEF Gainers
  <2> HIDE DEF timed, y, N, n
  <2>3. timed.current = Later(s, n, y, N, 0)
    BY <1>3, <2>1, <2>2, LaterIs
  <2>4. QED BY <1>3, <2>3 DEF IsStore
<1>5. ASSUME NEW k \in 1 .. N PROVE Worked(at(k - 1), ids[k], n) = at(k)
  <2> DEFINE t == at(k - 1)
             v == Worked(t, ids[k], n)
  <2>1. IsStore(t) /\ t.slots = s.slots /\ t.current = Later(s, n, y, N, k - 1)
    BY DEF IsStore
  <2> HIDE DEF t
  <2>2. IsStore(v) /\ v.slots = s.slots /\ v.current = Later(s, n, y, N, k)
    BY <1>1, <2>1, WorkedIs
  <2> HIDE DEF v
  <2>3. v = at(k)
    BY <2>2 DEF IsStore
  <2>4. QED BY <2>3 DEF v, t
<1>6. state_list_value(timed, Jobs) = ids
  <2>1. Jobs # GameTick
    BY DEF Jobs, GameTick
  <2>2. get(timed, Jobs) = get(s, Jobs)
    BY <1>3, <2>1
  <2>3. QED BY <2>2 DEF state_list_value
<1>7. tick(s, arg) = worked[N]
  BY <1>6 DEF tick
<1> HIDE DEF timed, at, ids, n, y
<1>8. Is([k \in 0 .. N |-> at(k)])
  <2> DEFINE h == [k \in 0 .. N |-> at(k)]
  <2>1. ASSUME NEW k \in 0 .. N
        PROVE  at(k) = IF k = 0 THEN timed ELSE Worked(h[k - 1], ids[k], n)
    <3>1. CASE k = 0
      BY <1>4, <3>1
    <3>2. CASE k # 0
      <4>1. k \in 1 .. N /\ k - 1 \in 0 .. N
        BY <1>1, <3>2
      <4>2. h[k - 1] = at(k - 1)
        BY <4>1
      <4>3. QED BY <1>5, <3>2, <4>1, <4>2
    <3>3. QED BY <3>1, <3>2
  <2>2. QED BY <2>1
<1>9. Is(worked)
  <2> HIDE DEF Is
  <2>1. QED BY <1>8, Zenon
<1>10. /\ worked[0] = timed
       /\ \A k \in 1 .. N : worked[k] = Worked(worked[k - 1], ids[k], n)
  <2>1. \A k \in 0 .. N :
            worked[k] = IF k = 0 THEN timed ELSE Worked(worked[k - 1], ids[k], n)
    BY <1>9
  <2> HIDE DEF worked
  <2>2. QED BY <1>1, <2>1
<1> HIDE DEF worked, N
<1> DEFINE S == {k \in 0 .. N : worked[k] = at(k)}
<1>11. 0 \in S
  BY <1>1, <1>4, <1>10
<1>12. ASSUME NEW k \in 0 .. N, k \in S, k < N PROVE k + 1 \in S
  <2>1. k + 1 \in 1 .. N /\ (k + 1) - 1 = k /\ k + 1 \in 0 .. N
    BY <1>1, <1>12
  <2>2. worked[k + 1] = Worked(at(k), ids[k + 1], n)
    BY <1>10, <1>12, <2>1
  <2>3. Worked(at(k), ids[k + 1], n) = at(k + 1)
    BY <1>5, <2>1
  <2>4. QED BY <2>1, <2>2, <2>3
<1>13. N \in S
  <2> HIDE DEF S
  <2>1. 0 .. N \subseteq S
    BY <1>1, <1>11, <1>12, Inductive
  <2>2. QED BY <1>1, <2>1
<1>14. worked[N] = at(N)
  BY <1>13
<1>15. QED BY <1>7, <1>14 DEF at, ids, N, n, y

LEMMA TickFits ==
    ASSUME NEW s, StoreFits(s), NEW arg \in Int
    PROVE  StoreFits(tick(s, arg))
<1> DEFINE n == NonNegative(arg)
           N == Len(state_list_value(s, Jobs))
           y == Yield(s, n)
           t == tick(s, arg)
<1>1. t = [current |-> Later(s, n, y, N, N), slots |-> s.slots]
  BY TickIs
<1>2. Fitting(s.current) /\ n \in Nat /\ N \in 0 .. N /\ IsYield(y, N)
  <2>1. Fitting(s.current)
    BY DEF StoreFits
  <2>2. state_list_value(s, Jobs) \in Seq(Name)
    BY <2>1, FitsRead
  <2>3. n \in Nat /\ N \in 0 .. N
    BY <2>2 DEF NonNegative
  <2>4. IsYield(y, N)
    BY <2>1, <2>3, YieldIs
  <2>5. QED BY <2>1, <2>3, <2>4
<1> HIDE DEF t, y, N, n
<1>3. /\ get(t, GameTick) = Integer(Saturated(state_integer(s, GameTick) + n))
      /\ \A key \in Resets(y, N) : get(t, key) = Integer(0)
      /\ \A key : key # GameTick /\ key \notin Resets(y, N)
                  /\ key \notin Gainers(y, N, N) => get(t, key) = get(s, key)
      /\ \A key \in Gainers(y, N, N) :
            get(t, key) = Integer(Saturated(state_integer(s, key) + Gained(y, N, key)[N]))
      /\ \A key \in Gainers(y, N, N) : key[1] = "resource"
      /\ \A key \in Resets(y, N) : key[1] = "job" /\ key[3] = "progress"
  <2>1. t.current = Later(s, n, y, N, N)
    BY <1>1
  <2>2. Reads(s, t, n, y, N, N)
    BY <1>2, <2>1, LaterReads
  <2>3. QED BY <2>2 DEF Reads
<1>4. DOMAIN t.current =
          DOMAIN s.current \cup {GameTick} \cup Resets(y, N) \cup Gainers(y, N, N)
  BY <1>1 DEF Later
<1>5. GameTick[1] = "game"
  BY DEF GameTick
<1>6. ASSUME NEW key, key[1] \in {"resource", "game"}, NEW a \in Nat
      PROVE  Fits(key, Integer(Saturated(state_integer(s, key) + a)))
  <2>1. Saturated(state_integer(s, key) + a) \in Int
        /\ Saturated(state_integer(s, key) + a) >= MinInt
    <3>1. state_integer(s, key) \in Int
      BY <1>2, <1>6, FitsRead
    <3> DEFINE v == state_integer(s, key) + a
    <3>2. v \in Int
      BY <3>1
    <3> HIDE DEF v
    <3>3. Saturated(v) \in Int /\ Saturated(v) >= MinInt
      BY <3>2, SaturatedIs
    <3>4. QED BY <3>3 DEF v
  <2>2. key # Jobs /\ key[1] # "job"
    BY <1>6 DEF Jobs
  <2>3. QED BY <2>1, <2>2 DEF Fits, Integer
<1>7. ASSUME NEW key \in DOMAIN t.current PROVE Fits(key, get(t, key))
  <2>1. CASE key = GameTick
    BY <1>2, <1>3, <1>5, <1>6, <2>1
  <2>2. CASE key \in Gainers(y, N, N)
    <3>1. Gained(y, N, key)[N] \in Nat
      BY <1>2, GainsExist DEF Gains
    <3>2. QED BY <1>3, <1>6, <2>2, <3>1
  <2>3. CASE key \in Resets(y, N)
    <3>1. key[1] = "job" /\ key[3] = "progress" /\ key # Jobs
      BY <1>3, <2>3 DEF Jobs
    <3>2. get(t, key) = Integer(0)
      BY <1>3, <2>3
    <3>3. QED BY <3>1, <3>2 DEF Fits
  <2>4. CASE key # GameTick /\ key \notin Resets(y, N) /\ key \notin Gainers(y, N, N)
    <3>1. key \in DOMAIN s.current /\ get(t, key) = get(s, key)
      BY <1>3, <1>4, <2>4
    <3>2. QED BY <3>1, FitsKey
  <2>5. QED BY <2>1, <2>2, <2>3, <2>4
<1>8. IsStore(t) /\ t.slots = s.slots
  BY <1>1 DEF IsStore
<1>9. QED BY <1>7, <1>8, FitsByKey DEF t

\* What is brought in a tick of a + b steps is brought in the two of a and of b, if
\* so it is for each job.
LEMMA GainsAddUp ==
    ASSUME NEW x, NEW y, NEW z, NEW N, IsYield(x, N), IsYield(y, N), IsYield(z, N),
           \A i \in 1 .. N : /\ x[i].works <=> z[i].works
                             /\ y[i].works <=> z[i].works
                             /\ x[i].key = z[i].key /\ y[i].key = z[i].key
                             /\ z[i].made = x[i].made + y[i].made,
           NEW key
    PROVE  Gained(z, N, key)[N] = Gained(x, N, key)[N] + Gained(y, N, key)[N]
<1> DEFINE f == Gained(x, N, key)
           g == Gained(y, N, key)
           h == Gained(z, N, key)
<1>1. Gains(f, x, N, key) /\ Gains(g, y, N, key) /\ Gains(h, z, N, key)
  BY GainsExist
<1>2. N \in Nat
  BY DEF IsYield
<1>3. ASSUME NEW i \in 1 .. N PROVE Gain(z[i], key) = Gain(x[i], key) + Gain(y[i], key)
  BY DEF IsYield, Gain
<1>4. ASSUME NEW i \in 1 .. N PROVE Gain(x[i], key) \in Nat /\ Gain(y[i], key) \in Nat
  BY DEF IsYield, Gain
<1> HIDE DEF f, g, h
<1> DEFINE S == {k \in 0 .. N : h[k] = f[k] + g[k]}
<1>5. 0 \in S
  BY <1>1, <1>2 DEF Gains
<1>6. ASSUME NEW k \in 0 .. N, k \in S, k < N PROVE k + 1 \in S
  <2>1. k + 1 \in 1 .. N /\ (k + 1) - 1 = k /\ k + 1 \in 0 .. N
    BY <1>2, <1>6
  <2>2. /\ f[k + 1] = f[k] + Gain(x[k + 1], key)
        /\ g[k + 1] = g[k] + Gain(y[k + 1], key)
        /\ h[k + 1] = h[k] + Gain(z[k + 1], key)
    BY <1>1, <2>1 DEF Gains
  <2>3. f[k] \in Nat /\ g[k] \in Nat /\ h[k] = f[k] + g[k]
    BY <1>1, <1>6 DEF Gains
  <2>4. h[k + 1] = f[k + 1] + g[k + 1]
    BY <1>3, <1>4, <2>1, <2>2, <2>3
  <2>5. QED BY <2>1, <2>4
<1>7. N \in S
  <2> HIDE DEF S
  <2>1. 0 .. N \subseteq S
    BY <1>2, <1>5, <1>6, Inductive
  <2>2. QED BY <1>2, <2>1
<1>8. QED BY <1>7 DEF f, g, h

\* Two ticks are one of as many steps.
LEMMA TicksAddUp ==
    ASSUME NEW s, StoreFits(s), NEW a \in Nat, NEW b \in Nat, Unlimited(s, a + b)
    PROVE  tick(tick(s, a), b) = tick(s, a + b)
<1> DEFINE ids == state_list_value(s, Jobs)
           N   == Len(ids)
           x   == Yield(s, a)
           y   == Yield(s, b)
           z   == Yield(s, a + b)
           t   == tick(s, a)
           u   == tick(t, b)
<1>1. Fitting(s.current) /\ ids \in Seq(Name) /\ N \in Nat /\ N \in 0 .. N /\ a + b \in Nat
  <2>1. Fitting(s.current)
    BY DEF StoreFits
  <2>2. ids \in Seq(Name)
    BY <2>1, FitsRead
  <2>3. QED BY <2>1, <2>2
<1>2. \A n \in Nat : NonNegative(n) = n
  BY DEF NonNegative
<1>3. t = [current |-> Later(s, a, x, N, N), slots |-> s.slots]
  BY <1>2, TickIs
<1>4. tick(s, a + b) = [current |-> Later(s, a + b, z, N, N), slots |-> s.slots]
  BY <1>1, <1>2, TickIs
<1>5. /\ IsYield(x, N) /\ IsYield(y, N) /\ IsYield(z, N)
      /\ \A i \in 1 .. N :
            /\ x[i].works = ~Idle(s, ids[i]) /\ y[i].works = ~Idle(s, ids[i])
            /\ z[i].works = ~Idle(s, ids[i])
            /\ x[i].job = ids[i] /\ y[i].job = ids[i] /\ z[i].job = ids[i]
            /\ x[i].key = Target(s, ids[i]) /\ y[i].key = Target(s, ids[i])
            /\ z[i].key = Target(s, ids[i])
            /\ x[i].made = Saturated(Rate(s, ids[i]) * a)
            /\ y[i].made = Saturated(Rate(s, ids[i]) * b)
            /\ z[i].made = Saturated(Rate(s, ids[i]) * (a + b))
            /\ Rate(s, ids[i]) \in Nat
  <2> DEFINE Is(v, n) ==
                /\ IsYield(v, N)
                /\ \A i \in 1 .. N :
                      /\ v[i].works = ~Idle(s, ids[i])
                      /\ v[i].job = ids[i]
                      /\ v[i].made = Saturated(Rate(s, ids[i]) * n)
                      /\ v[i].key = Target(s, ids[i])
                      /\ Rate(s, ids[i]) \in Nat
  <2>1. \A n \in Nat : Is(Yield(s, n), n)
    BY <1>1, YieldIs
  <2> HIDE DEF Is
  <2>2. Is(x, a) /\ Is(y, b) /\ Is(z, a + b)
    BY <1>1, <2>1
  <2> USE DEF Is
  <2> HIDE DEF x, y, z, ids, N
  <2>3. QED BY <2>2
<1>6. ASSUME NEW i \in 1 .. N PROVE z[i].made = x[i].made + y[i].made
  <2> DEFINE r == Rate(s, ids[i])
  <2>1. ids[i] \in Name
    BY <1>1
  <2>2. r = state_integer(s, Job(ids[i], "rate")) /\ r \in Nat
    <3>1. state_integer(s, Job(ids[i], "rate")) \in Nat
      BY <1>1, FitsRead
    <3>2. QED BY <3>1 DEF Rate, NonNegative
  <2>3. (a + b) * r <= MaxInt
    BY <2>1, <2>2 DEF Unlimited
  <2> HIDE DEF r
  <2>4. /\ r * a \in Nat /\ r * b \in Nat /\ r * (a + b) \in Nat
        /\ r * (a + b) = r * a + r * b /\ r * (a + b) = (a + b) * r
    BY <2>2
  <2> DEFINE p == r * a
             q == r * b
  <2>5. p \in Nat /\ q \in Nat /\ p + q <= MaxInt /\ r * (a + b) = p + q
    BY <2>3, <2>4
  <2>6. x[i].made = Saturated(p) /\ y[i].made = Saturated(q) /\ z[i].made = Saturated(p + q)
    BY <1>5, <2>5 DEF r
  <2> HIDE DEF p, q
  <2>7. Saturated(p) = p /\ Saturated(q) = q /\ Saturated(p + q) = p + q
    BY <2>5, SaturatedIs, Limits
  <2>8. QED BY <2>6, <2>7
<1>7. StoreFits(t)
  BY TickFits
<1> HIDE DEF x, y, z, t
<1>8. /\ \A id, f : f # "progress" => get(t, Job(id, f)) = get(s, Job(id, f))
      /\ get(t, Jobs) = get(s, Jobs)
      /\ get(t, GameTick) = Integer(Saturated(state_integer(s, GameTick) + a))
      /\ \A key \in Resets(x, N) : get(t, key) = Integer(0)
      /\ \A key : key # GameTick /\ key \notin Resets(x, N)
                  /\ key \notin Gainers(x, N, N) => get(t, key) = get(s, key)
      /\ \A key \in Gainers(x, N, N) :
            get(t, key) = Integer(Saturated(state_integer(s, key) + Gained(x, N, key)[N]))
      /\ \A key \in Gainers(x, N, N) : key[1] = "resource"
      /\ \A key \in Resets(x, N) : key[1] = "job" /\ key[3] = "progress"
  <2>1. t.current = Later(s, a, x, N, N)
    BY <1>3
  <2>2. IsYield(x, N) /\ N \in 0 .. N
    BY <1>1, <1>5
  <2> HIDE DEF N
  <2>3. Reads(s, t, a, x, N, N)
    BY <2>1, <2>2, LaterReads
  <2>4. QED BY <2>3 DEF Reads
<1>9. state_list_value(t, Jobs) = ids /\ Yield(t, b) = y
  <2>1. /\ state_list_value(t, Jobs) = ids
        /\ \A id : /\ Idle(t, id) <=> Idle(s, id)
                   /\ Rate(t, id) = Rate(s, id) /\ Target(t, id) = Target(s, id)
    BY <1>8, SameJobs
  <2>2. \A id : (~Idle(t, id)) = (~Idle(s, id))
    BY <2>1
  <2>3. QED BY <2>1, <2>2 DEF Yield, y
<1>10. u = [current |-> Later(t, b, y, N, N), slots |-> s.slots]
  <2>1. t.slots = s.slots
    BY <1>3
  <2>2. QED BY <1>2, <1>7, <1>9, <2>1, TickIs
<1> HIDE DEF N, u
<1>11. /\ Resets(x, N) = Resets(z, N) /\ Resets(y, N) = Resets(z, N)
  BY <1>5 DEF Resets
<1>12. ASSUME NEW key
       PROVE  /\ Gained(z, N, key)[N] = Gained(x, N, key)[N] + Gained(y, N, key)[N]
              /\ Gained(x, N, key)[N] \in Nat /\ Gained(y, N, key)[N] \in Nat
  <2>1. Gained(z, N, key)[N] = Gained(x, N, key)[N] + Gained(y, N, key)[N]
    BY <1>5, <1>6, GainsAddUp
  <2>2. Gained(x, N, key)[N] \in Nat /\ Gained(y, N, key)[N] \in Nat
    BY <1>1, <1>5, GainsExist DEF Gains
  <2>3. QED BY <2>1, <2>2
<1> DEFINE K == {Target(s, ids[i]) : i \in 1 .. N}
<1>13. /\ {x[i].key : i \in 1 .. N} = K /\ {y[i].key : i \in 1 .. N} = K
       /\ {z[i].key : i \in 1 .. N} = K
  BY <1>5
<1> HIDE DEF K
<1>14. /\ \A key : key \in Gainers(x, N, N) <=> key \in K /\ Gained(x, N, key)[N] > 0
       /\ \A key : key \in Gainers(y, N, N) <=> key \in K /\ Gained(y, N, key)[N] > 0
       /\ \A key : key \in Gainers(z, N, N) <=> key \in K /\ Gained(z, N, key)[N] > 0
  BY <1>13 DEF Gainers
<1>15. Gainers(z, N, N) = Gainers(x, N, N) \cup Gainers(y, N, N)
  BY <1>12, <1>14
<1>16. u.current = Later(t, b, y, N, N)
  BY <1>10
<1>17. DOMAIN t.current =
          DOMAIN s.current \cup {GameTick} \cup Resets(x, N) \cup Gainers(x, N, N)
  BY <1>3 DEF Later
<1>18. IsMap(u) /\ DOMAIN u.current =
          DOMAIN s.current \cup {GameTick} \cup Resets(z, N) \cup Gainers(z, N, N)
  <2>1. IsMap(u)
    BY <1>16 DEF IsMap, Later, get
  <2>2. DOMAIN u.current =
          DOMAIN t.current \cup {GameTick} \cup Resets(y, N) \cup Gainers(y, N, N)
    BY <1>16 DEF Later
  <2>3. QED BY <1>11, <1>15, <1>17, <2>1, <2>2
<1>19. /\ get(u, GameTick) = Integer(Saturated(state_integer(t, GameTick) + b))
       /\ \A key \in Resets(y, N) : get(u, key) = Integer(0)
       /\ \A key : key # GameTick /\ key \notin Resets(y, N)
                   /\ key \notin Gainers(y, N, N) => get(u, key) = get(t, key)
       /\ \A key \in Gainers(y, N, N) :
             get(u, key) = Integer(Saturated(state_integer(t, key) + Gained(y, N, key)[N]))
       /\ \A key \in Gainers(y, N, N) : key[1] = "resource"
  <2>1. IsYield(y, N) /\ N \in 0 .. N
    BY <1>1, <1>5
  <2>2. Reads(t, u, b, y, N, N)
    BY <1>16, <2>1, LaterReads
  <2>3. QED BY <2>2 DEF Reads
<1>20. GameTick[1] = "game"
  BY DEF GameTick
<1>21. get(u, GameTick) = Integer(Saturated(state_integer(s, GameTick) + (a + b)))
  <2>1. state_integer(t, GameTick) = Saturated(state_integer(s, GameTick) + a)
    BY <1>8, IntegerOfInteger
  <2>2. state_integer(s, GameTick) \in Int /\ state_integer(s, GameTick) >= MinInt
    BY <1>1, <1>20, FitsRead
  <2>3. Saturated(Saturated(state_integer(s, GameTick) + a) + b) =
            Saturated(state_integer(s, GameTick) + (a + b))
    BY <2>2, SaturatedTwice
  <2>4. QED BY <1>19, <2>1, <2>3
<1>22. ASSUME NEW key \in Gainers(z, N, N)
       PROVE  get(u, key) =
                 Integer(Saturated(state_integer(s, key) + Gained(z, N, key)[N]))
  <2> DEFINE v == state_integer(s, key)
             f == Gained(x, N, key)[N]
             g == Gained(y, N, key)[N]
  <2>1. key[1] = "resource" /\ key # GameTick /\ key \notin Resets(x, N)
    BY <1>8, <1>15, <1>19, <1>20
  <2>2. /\ v \in Int /\ v >= MinInt /\ f \in Nat /\ g \in Nat
        /\ Gained(z, N, key)[N] = f + g
    BY <1>1, <1>12, <2>1, FitsRead
  <2>3. CASE key \in Gainers(x, N, N) /\ key \in Gainers(y, N, N)
    <3>1. state_integer(t, key) = Saturated(v + f)
      BY <1>8, <2>3, IntegerOfInteger
    <3>2. get(u, key) = Integer(Saturated(Saturated(v + f) + g))
      BY <1>19, <2>3, <3>1
    <3> HIDE DEF v, f, g
    <3>3. Saturated(Saturated(v + f) + g) = Saturated(v + (f + g))
      BY <2>2, SaturatedTwice
    <3>4. get(u, key) = Integer(Saturated(v + (f + g)))
      BY <3>2, <3>3
    <3>5. QED BY <2>2, <3>4 DEF v
  <2>4. CASE key \in Gainers(x, N, N) /\ key \notin Gainers(y, N, N)
    <3>1. get(u, key) = Integer(Saturated(v + f))
      BY <1>8, <1>11, <1>19, <2>1, <2>4
    <3>2. g = 0
      BY <1>14, <2>2, <2>4
    <3>3. QED BY <2>2, <3>1, <3>2
  <2>5. CASE key \notin Gainers(x, N, N) /\ key \in Gainers(y, N, N)
    <3>1. f = 0
      BY <1>14, <2>2, <2>5
    <3>2. state_integer(t, key) = v
      <4>1. get(t, key) = get(s, key)
        BY <1>8, <2>1, <2>5
      <4>2. QED BY <4>1 DEF state_integer
    <3>3. get(u, key) = Integer(Saturated(v + g))
      BY <1>19, <2>5, <3>2
    <3>4. QED BY <2>2, <3>1, <3>3
  <2>6. QED BY <1>15, <2>3, <2>4, <2>5
<1>23. u.current = Later(s, a + b, z, N, N)
  <2>1. \A key \in Resets(z, N) : get(u, key) = Integer(0)
    BY <1>11, <1>19
  <2>2. \A key : key # GameTick /\ key \notin Resets(z, N) /\ key \notin Gainers(z, N, N)
            => get(u, key) = get(s, key)
    BY <1>8, <1>11, <1>15, <1>19
  <2>3. QED BY <1>18, <1>21, <1>22, <2>1, <2>2, LaterIs
<1>24. u = tick(s, a + b)
  BY <1>4, <1>10, <1>16, <1>23
<1>25. QED BY <1>24 DEF u, t

(***************************************************************************)
(* The store from call to call.                                            *)
(***************************************************************************)

LEMMA JobCallsFit ==
    ASSUME NEW s, StoreFits(s), NEW name \in Name, NEW n \in {-1, 2}
    PROVE  StoreFits(set_resource(s, name, n)) /\ StoreFits(add_resource(s, name, n))
<1> DEFINE k == automation_resource_key(name)
           v == Saturated(state_integer(s, k) + n)
<1>1. StoreFits(set_resource(s, name, n))
  <2>1. n \in Int /\ n >= MinInt
    BY Limits
  <2>2. QED BY <2>1, AmountFits, SetFits DEF set_resource
<1>2. StoreFits(add_resource(s, name, n))
  <2>1. k[1] = "resource"
    BY DEF automation_resource_key
  <2>2. state_integer(s, k) \in Int
    <3>1. Fitting(s.current)
      BY DEF StoreFits
    <3> HIDE DEF k
    <3>2. QED BY <2>1, <3>1, FitsRead
  <2>3. state_integer(s, k) + n \in Int
    BY <2>2
  <2>4. v \in Int /\ v >= MinInt
    BY <2>3, SaturatedIs
  <2>5. add_resource(s, name, n) = set(s, k, Integer(v))
    BY DEF add_resource
  <2> HIDE DEF v
  <2>6. QED BY <2>4, <2>5, AmountFits, SetFits
<1>3. QED BY <1>1, <1>2

LEMMA UnitsFit ==
    ASSUME NEW s, StoreFits(s), NEW id \in Name, NEW team, NEW x, NEW y, NEW n, NEW order
    PROVE  /\ StoreFits(Placed(s, id, x, y, order))
           /\ StoreFits(set_unit(s, id, team, x, y, n))
           /\ StoreFits(damage_unit(s, id, n))
<1>1. ASSUME NEW f, NEW v PROVE Fits(<<"unit", id, f>>, v)
  <2>1. <<"unit", id, f>>[1] = "unit"
    OBVIOUS
  <2>2. QED BY <2>1, FreeKeys
<1>2. ASSUME NEW t, StoreFits(t), NEW o PROVE StoreFits(Placed(t, id, x, y, o))
  BY <1>1, <1>2, FieldsFit DEF Placed
<1>3. StoreFits(set_unit(s, id, team, x, y, n))
  <2> DEFINE listed == append_state_list_value(s, Units, id)
             t      == SetFields(listed, "unit", id, [team |-> String(team),
                                                      hp |-> Integer(NonNegative(n))])
  <2>1. StoreFits(listed)
    BY AppendFits
  <2> HIDE DEF listed
  <2>2. StoreFits(t)
    BY <1>1, <2>1, FieldsFit
  <2>3. set_unit(s, id, team, x, y, n) = Placed(t, id, x, y, "spawn")
    BY DEF set_unit, listed
  <2> HIDE DEF t
  <2>4. QED BY <1>2, <2>2, <2>3
<1>4. StoreFits(damage_unit(s, id, n))
  BY <1>1, SetFits DEF damage_unit, Unit
<1>5. QED BY <1>2, <1>3, <1>4

LEMMA RatesAreNumbers == \A rate \in {-1, 2} : rate \in Int
OBVIOUS

LEMMA StoreCallsFit ==
    ASSUME StoreFits(state_manager), StoreCalls
    PROVE  StoreFits(state_manager')
<1>1. ASSUME NEW k, NEW v PROVE Fits(Own(k), v)
  <2>1. Own(k)[1] = "script"
    BY DEF Own
  <2>2. QED BY <2>1, FreeKeys
<1>2. CASE StateSet \/ StateErase
  BY <1>1, <1>2, SetFits, EraseFits DEF StateSet, StateErase, OnStore
<1>3. CASE StateSave \/ StateLoad
  BY <1>3, SlotsFit DEF StateSave, StateLoad, OnStore
<1>4. CASE SetResource \/ AddResource
  BY <1>4, JobCallsFit DEF SetResource, AddResource, OnStore
<1>5. CASE SetJob
  <2>1. PICK j \in Name, enabled \in BOOLEAN, rate \in {-1, 2}, output \in Name \cup {""} :
            state_manager' = set_job(state_manager, j, enabled, rate, output)
    BY <1>5 DEF SetJob, OnStore
  <2>2. rate \in Int
    BY RatesAreNumbers, Zenon
  <2>3. StoreFits(set_job(state_manager, j, enabled, rate, output))
    BY <2>2, SetJobFits
  <2>4. QED BY <2>1, <2>3
<1>6. CASE EnableJob
  <2>1. PICK j \in Name, enabled \in BOOLEAN :
            state_manager' = enable_job(state_manager, j, enabled)
    BY <1>6 DEF EnableJob, OnStore
  <2>2. Fits(Job(j, "enabled"), Bool(enabled))
    BY FreeFields
  <2>3. QED BY <2>1, <2>2, SetFits DEF enable_job
<1>7. CASE TickJobs
  <2>1. PICK steps \in {-1, 0, 3} : state_manager' = tick(state_manager, steps)
    BY <1>7 DEF TickJobs, OnStore
  <2>2. steps \in Int
    OBVIOUS
  <2>3. QED BY <2>1, <2>2, TickFits
<1>8. CASE SetUnit \/ MoveUnit \/ DamageUnit
  BY <1>8, UnitsFit DEF SetUnit, MoveUnit, DamageUnit, OnStore, move_unit
<1>9. QED BY <1>2, <1>3, <1>4, <1>5, <1>6, <1>7, <1>8 DEF StoreCalls

\* A save of a store that fits fits.
LEMMA StoreSaved ==
    ASSUME NEW S, SaveTo(S), state_manager' = state_manager, StoreInv
    PROVE  StoreInv'
<1>1. /\ DOMAIN checkpoints' = S \cup DOMAIN checkpoints
      /\ \A s \in S : checkpoints'[s] = Snapshot'
      /\ \A s \in DOMAIN checkpoints \ S : checkpoints'[s] = checkpoints[s]
  BY Saves
<1>2. StoreFits(state_manager')
  BY DEF StoreInv
<1>3. ASSUME NEW s \in S PROVE StoreFits(checkpoints'[s].state_manager)
  <2>1. checkpoints'[s].state_manager = state_manager'
    BY <1>1 DEF Snapshot
  <2>2. QED BY <1>2, <2>1
<1>4. QED BY <1>1, <1>2, <1>3 DEF StoreInv

LEMMA StoreKept ==
    ASSUME StoreInv, [Next]_vars
    PROVE  StoreInv'
<1>1. CASE StoreCalls
  <2>1. UNCHANGED checkpoints
    BY <1>1, CallsStay DEF ScriptNext
  <2>2. QED BY <1>1, <2>1, StoreCallsFit DEF StoreInv
<1>2. CASE ScriptNext /\ ~StoreCalls
  <2>1. UNCHANGED checkpoints
    BY <1>2, CallsStay
  <2>2. UNCHANGED state_manager
    BY <1>2
    DEF ScriptNext, Message, Show, AppendLine, ShowChoices, ChoicesNamed, Prompt, Hide,
        Speed, AutoMode, Skip, LogClear, Clear, Style, ResetStyle, Frame, Locale, OnWindow,
        FailsWith, Panels, SetPolicy, MapControls, Actions, Hud, RpgClear, Log, OnRpg,
        Outside, VmSave, AsksFor, VmLoad, Refused
  <2>3. QED BY <2>1, <2>2 DEF StoreInv
<1>3. CASE EndRound
  <2> DEFINE S == ToSet(pending_vm_saves)
  <2> HIDE DEF S
  <2>1. SaveTo(S) /\ state_manager' = state_manager
    BY <1>3 DEF S, EndRound, flush_pending_vm_saves
  <2>2. QED BY <2>1, StoreSaved
<1>4. CASE SaveCheckpoint
  <2>1. PICK s \in Slot : SaveTo({s}) /\ state_manager' = state_manager
    BY <1>4 DEF SaveCheckpoint, parts
  <2>2. QED BY <2>1, StoreSaved
<1>5. CASE LoadCheckpoint
  BY <1>5 DEF LoadCheckpoint, Restore, StoreInv
<1>6. CASE HostSets
  <2>1. ASSUME NEW k, NEW v PROVE Fits(Own(k), v)
    <3>1. Own(k)[1] = "script"
      BY DEF Own
    <3>2. QED BY <3>1, FreeKeys
  <2>2. /\ UNCHANGED checkpoints
        /\ \/ state_manager' = state_manager
           \/ \E k : state_manager' = set(state_manager, Own(k), Bool(TRUE))
    BY <1>6 DEF HostSets
  <2>3. StoreFits(state_manager')
    BY <2>1, <2>2, SetFits DEF StoreInv
  <2>4. QED BY <2>2, <2>3 DEF StoreInv
<1>7. CASE BeginRound \/ Wake \/ UNCHANGED vars
  <2>1. UNCHANGED <<state_manager, checkpoints>>
    BY <1>7 DEF BeginRound, Wake, vars, parts
  <2>2. QED BY <2>1 DEF StoreInv
<1>8. QED BY <1>1, <1>2, <1>3, <1>4, <1>5, <1>6, <1>7 DEF Next, HostNext

\* With any numbers of steps.
AnyStepsAddUp ==
    \A a, b \in Nat :
        Unlimited(state_manager, a + b) =>
            tick(tick(state_manager, a), b) = tick(state_manager, a + b)

\* Two ticks make as much as one of as many steps, whatever jobs there are and however
\* they were set, switched and ticked, saved and loaded before: numbers that stop at
\* the largest lose nothing more on the way, unless a single job makes more than it.
THEOREM TicksMakeTheSame == SessionSpec => [](AnyStepsAddUp /\ StepsAddUp)
<1>1. SessionInit => StoreInv
  <2> SUFFICES ASSUME SessionInit PROVE StoreInv
    OBVIOUS
  <2>1. state_manager = StateManager /\ DOMAIN checkpoints = {}
    BY DEF SessionInit
  <2>2. StoreFits(StateManager)
    BY DEF StateManager, StoreFits, IsStore, Fitting
  <2>3. QED BY <2>1, <2>2 DEF StoreInv
<1>2. StoreInv /\ [Next]_vars => StoreInv'
  BY StoreKept
<1>3. StoreInv => AnyStepsAddUp
  <2>1. ASSUME StoreInv, NEW a \in Nat, NEW b \in Nat, Unlimited(state_manager, a + b)
        PROVE  tick(tick(state_manager, a), b) = tick(state_manager, a + b)
    <3>1. StoreFits(state_manager)
      BY <2>1 DEF StoreInv
    <3>2. QED BY <2>1, <3>1, TicksAddUp
  <2>2. QED BY <2>1 DEF AnyStepsAddUp
<1>4. AnyStepsAddUp => StepsAddUp
  <2>1. 1 .. 2 \subseteq Nat
    OBVIOUS
  <2>2. QED BY <2>1, Zenon DEF AnyStepsAddUp, StepsAddUp
<1>5. QED BY <1>1, <1>2, <1>3, <1>4, PTL DEF SessionSpec

================================================================================

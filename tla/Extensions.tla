------------------------------- MODULE Extensions -------------------------------
(***************************************************************************)
(* The host functions that the runtime's extensions install and what lets  *)
(* a script call them: the number of arguments and the capabilities of     *)
(* each (the tables of extensions/*.rs, which those of wmext repeat), the  *)
(* check of the VM and of the dispatcher (host_dispatch.rs).               *)
(***************************************************************************)
EXTENDS Integers, FiniteSets

Function(min, max, caps) == [min |-> min, max |-> max, caps |-> caps]

Gui  == {"gui"}
Free == {}

Colors == {"text_color", "speaker_color", "accent_color", "input_text_color",
           "input_hint_color", "input_prompt_color", "choice_text_color",
           "choice_accent_color"}
Boxes  == {"box_style", "input_box_style", "choice_box_style",
           "choice_selected_style"}

\* ext.message, which is "text" too.
message(f) ==
    CASE f = "show"                         -> Function(1, 2, Gui)
      [] f \in {"append", "speed", "auto", "skip"} -> Function(1, 1, Gui)
      [] f \in {"choices", "choices_named"} -> Function(0, 16, Gui)
      [] f \in {"prompt", "frame", "locale"} -> Function(0, 1, Gui)
      [] f \in {"hide", "log_clear", "clear", "reset_style"} -> Function(0, 0, Gui)
      [] f \in Colors \cup {"content_inset"} -> Function(4, 4, Gui)
      [] f \in Boxes                        -> Function(8, 8, Gui)
      [] f = "font_size"                    -> Function(2, 2, Gui)
messageNames == Colors \cup Boxes \cup
    {"show", "append", "speed", "auto", "skip", "choices", "choices_named",
     "prompt", "frame", "locale", "hide", "log_clear", "clear", "reset_style",
     "content_inset", "font_size"}

ui(f)  == Function(1, 1, Gui)
rpg(f) == CASE f = "map_controls" -> Function(1, 17, Gui)
            [] f = "actions"      -> Function(0, 32, Gui)
            [] f = "hud"          -> Function(2, 2, Gui)
            [] f = "rpg_clear"    -> Function(0, 0, Gui)

vm(f)         == Function(1, 1, Free)
state(f)      == IF f = "state_set" THEN Function(2, 2, Free)
                                    ELSE Function(1, 1, Free)
automation(f) == CASE f \in {"set_resource", "add_resource", "enable_job"} ->
                        Function(2, 2, Free)
                   [] f = "set_job"       -> Function(4, 4, Free)
                   [] f = "tick"          -> Function(1, 1, Free)
rts(f) == CASE f = "set_unit"    -> Function(5, 5, Free)
            [] f = "move_unit"   -> Function(3, 3, Free)
            [] f = "damage_unit" -> Function(2, 2, Free)

\* Calls that read only (state.get and has, automation.resource and
\* job_progress, rts.unit_x, unit_y and unit_hp, debug.inspect) change nothing
\* and are left out; so are those whose work is done outside the runtime, but
\* for their outcome.
outside(f) == CASE f = "fs_write"     -> Function(2, 2, {"file_system"})
                [] f = "net_get"      -> Function(1, 1, {"network"})
                [] f = "llm_generate" -> Function(1, 1, {"async_io"})

uiNames         == {"context_menu", "shift_fast"}
rpgNames        == {"map_controls", "actions", "hud", "rpg_clear"}
vmNames         == {"vm_save", "vm_load"}
stateNames      == {"state_save", "state_load", "state_set", "state_erase"}
automationNames == {"set_resource", "add_resource", "enable_job", "set_job", "tick"}
rtsNames        == {"set_unit", "move_unit", "damage_unit"}
outsideNames    == {"fs_write", "net_get", "llm_generate"}

HostFunctions ==
    [f \in messageNames \cup uiNames \cup rpgNames \cup vmNames \cup stateNames
            \cup automationNames \cup rtsNames \cup outsideNames \cup {"log"} |->
        CASE f \in messageNames    -> message(f)
          [] f \in uiNames         -> ui(f)
          [] f \in rpgNames        -> rpg(f)
          [] f \in vmNames         -> vm(f)
          [] f \in stateNames      -> state(f)
          [] f \in automationNames -> automation(f)
          [] f \in rtsNames        -> rts(f)
          [] f \in outsideNames    -> outside(f)
          [] f = "log"             -> Function(1, 1, Free)]

\* Wrong on purpose: the capabilities are not looked at.
call__AnyCapability(f, n, allowed) ==
    n \in HostFunctions[f].min .. HostFunctions[f].max

\* A call is let through to its function if every capability it requires is
\* allowed and the number of its arguments is in the function's range.
call(f, n, allowed) ==
    /\ HostFunctions[f].caps \subseteq allowed
    /\ n \in HostFunctions[f].min .. HostFunctions[f].max
=============================================================================

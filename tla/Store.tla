--------------------------------- MODULE Store ---------------------------------
(***************************************************************************)
(* The state that scripts keep by key (state_manager.rs), and the jobs and *)
(* units that ext.automation and ext.rts keep in it: for each call, the    *)
(* store after it.  A key is the sequence of its parts.  The lists that    *)
(* the code keeps as text with | between the ids are arrays of the ids.    *)
(* Scripts are assumed to leave the keys of jobs and units alone.          *)
(***************************************************************************)
EXTENDS Values, SequencesExt

MaxInt       == -MinInt - 1
Saturated(n) == CASE n < MinInt -> MinInt [] n > MaxInt -> MaxInt
                  [] n \in MinInt .. MaxInt -> n
NonNegative(n) == IF n < 0 THEN 0 ELSE n

StateManager == [current |-> [k \in {} |-> Nil], slots |-> [s \in {} |-> {}]]

\* f, and g where g has something.
Over(f, g) == [k \in DOMAIN f \cup DOMAIN g |-> IF k \in DOMAIN g THEN g[k] ELSE f[k]]

get(s, key)        == IF key \in DOMAIN s.current THEN s.current[key] ELSE Nil
set(s, key, value) == [s EXCEPT !.current = Over(@, [k \in {key} |-> value])]
erase(s, key)      == [s EXCEPT !.current = [k \in DOMAIN @ \ {key} |-> @[k]]]
save(s, slot)      == [s EXCEPT !.slots = Over(@, [x \in {slot} |-> s.current])]
load(s, slot)      == IF slot \in DOMAIN s.slots
                      THEN [s EXCEPT !.current = s.slots[slot]] ELSE s

state_integer(s, key) ==
    LET v == get(s, key)
    IN  CASE v.tag = "integer" -> v.integer
          [] v.tag = "bool"    -> IF v.bool THEN 1 ELSE 0
          [] OTHER             -> 0
state_bool(s, key) == truthy(get(s, key))
state_list_value(s, key) ==
    LET v == get(s, key) IN IF v.tag = "array" THEN v.items ELSE <<>>
append_state_list_value(s, key, id) ==
    LET ids == state_list_value(s, key)
    IN  IF \E i \in DOMAIN ids : ids[i] = id THEN s
        ELSE set(s, key, Array(Append(ids, id)))

\* The fields, a record, of a job or a unit.
SetFields(s, kind, id, fields) ==
    LET keys == {<<kind, id, f>> : f \in DOMAIN fields}
    IN  [s EXCEPT !.current = Over(@, [k \in keys |-> fields[k[3]]])]

----------------------------------------------------------------------------
(***************************************************************************)
(* ext.automation                                                          *)
(***************************************************************************)
Jobs           == <<"automation", "jobs">>
GameTick       == <<"game", "tick">>
Job(id, field) == <<"job", id, field>>
automation_resource_key(name) == <<"resource", name>>

set_resource(s, name, amount) ==
    set(s, automation_resource_key(name), Integer(amount))
add_resource(s, name, delta) ==
    set(s, automation_resource_key(name),
        Integer(Saturated(state_integer(s, automation_resource_key(name)) + delta)))

\* A job that is set again keeps its progress.
set_job(s, id, enabled, rate, output) ==
    LET listed  == append_state_list_value(s, Jobs, id)
        rated   == SetFields(listed, "job", id, [enabled |-> Bool(enabled),
                                                 rate |-> Integer(NonNegative(rate))])
        started == IF Job(id, "progress") \in DOMAIN rated.current THEN rated
                   ELSE set(rated, Job(id, "progress"), Integer(0))
    IN  set(started, Job(id, "output"), String(output))

enable_job(s, id, enabled) == set(s, Job(id, "enabled"), Bool(enabled))

\* A job that is off or has nowhere to bring what it makes.
Idle(s, id) ==
    LET output == get(s, Job(id, "output"))
    IN  ~state_bool(s, Job(id, "enabled")) \/ output.tag # "string" \/ ~truthy(output)

\* Wrong on purpose: what a job has produced stays in its progress.
Worked__KeepsProgress(s, id, steps) ==
    LET output   == get(s, Job(id, "output"))
        progress == Saturated(state_integer(s, Job(id, "progress")) +
                        Saturated(state_integer(s, Job(id, "rate")) * steps))
    IN  IF Idle(s, id) THEN s
        ELSE add_resource(set(s, Job(id, "progress"), Integer(progress)),
                          output.text, progress)

\* One job's part of a tick: all its progress becomes output.
Worked(s, id, steps) ==
    LET output   == get(s, Job(id, "output"))
        rate     == NonNegative(state_integer(s, Job(id, "rate")))
        produced == NonNegative(Saturated(
                        state_integer(s, Job(id, "progress")) + Saturated(rate * steps)))
        reset    == set(s, Job(id, "progress"), Integer(0))
    IN  IF Idle(s, id) THEN s
        ELSE IF produced > 0 THEN add_resource(reset, output.text, produced) ELSE reset

tick(s, arg) ==
    LET steps == NonNegative(arg)
        timed == set(s, GameTick, Integer(Saturated(state_integer(s, GameTick) + steps)))
        ids   == state_list_value(timed, Jobs)
        worked[k \in 0 .. Len(ids)] ==
            IF k = 0 THEN timed ELSE Worked(worked[k - 1], ids[k], steps)
    IN  worked[Len(ids)]

----------------------------------------------------------------------------
(***************************************************************************)
(* ext.rts: a unit that was never set can be moved and damaged too.        *)
(***************************************************************************)
Units           == <<"rts", "units">>
Unit(id, field) == <<"unit", id, field>>

Placed(s, id, x, y, order) ==
    SetFields(s, "unit", id, [x |-> Integer(x), y |-> Integer(y),
                              target_x |-> Integer(x), target_y |-> Integer(y),
                              last_order |-> String(order)])

set_unit(s, id, team, x, y, hp) ==
    LET listed == append_state_list_value(s, Units, id)
    IN  Placed(SetFields(listed, "unit", id, [team |-> String(team),
                                              hp |-> Integer(NonNegative(hp))]),
               id, x, y, "spawn")
move_unit(s, id, x, y) == Placed(s, id, x, y, "move")
damage_unit(s, id, damage) ==
    set(s, Unit(id, "hp"),
        Integer(NonNegative(Saturated(state_integer(s, Unit(id, "hp"))
                                      - NonNegative(damage)))))
=============================================================================

-------------------------------- MODULE Runner --------------------------------
(***************************************************************************)
(* The v2 script runner (wms/src/runner.rs): it executes the entry handler *)
(* of a program to its end, then drains the events the handler emitted,    *)
(* executing every system subscribed to an event.  Each execution is a VM  *)
(* of its own; world, save slots and event queue are shared through        *)
(* RefCells, and the drain loop holds the queue's borrow while it executes *)
(* systems.                                                                *)
(*                                                                         *)
(* What a VM executes is the most general program, as in Scheduler.        *)
(***************************************************************************)
EXTENDS World, Sequences, FiniteSets

CONSTANTS
    EventType,
    SystemCount,   \* systems of the program, in the order of the list
    InputCount,    \* inputs given to the entry handler, at most
    MaxRounds,     \* frames of one execution (10_000)
    StepBudget,    \* opcodes of one frame (10_000)
    MaxEvents,     \* events of a run (4096)
    MaxEmitted,    \* bound of the model: events ever emitted
    Nil            \* initial value of a resource

ASSUME CountsAssumption  == SystemCount \in Nat /\ InputCount \in Nat
ASSUME LimitsAssumption  == MaxRounds \in Nat \ {0} /\ StepBudget \in Nat
ASSUME EventsAssumption  == MaxEvents \in Nat /\ MaxEmitted \in Nat
ASSUME NilAssumption     == Nil \in Value

VARIABLES
    subscribed,   \* event type of each system
    given,        \* the inputs the run was called with
    phase,        \* of the run: Executing, Dispatching, Done, Failed, Panicked
    round, steps, \* of the current execution and its current frame
    inputs, inbox, atRecv,
    events,       \* SharedHostState::events, numbered from 1
    processed,    \* events_processed
    event,        \* the event being dispatched, or NoEvent: queue borrowed
    nextSystem,
    emitted,      \* history: how many events were emitted
    received,     \* history: what the current execution received
    calls         \* history: <<event, system>> executed to the end

runVars    == <<phase, processed, event, nextSystem>>
execVars   == <<round, steps, inputs, inbox, atRecv, received>>
eventVars  == <<events, emitted>>
setup      == <<subscribed, given>>
runnerVars == <<worldVars, setup, runVars, execVars, eventVars, calls>>

Systems == 1..SystemCount
Default == 0      \* the input that stands in for a missing one
NoEvent == [number |-> 0, type |-> "none"]
Over    == phase \in {"Done", "Failed", "Panicked"}

\* The schema registers the persistent components, and the resources as Nil;
\* every execution begins with an empty frame and its inputs.
RunnerInit ==
    /\ nextEntity = 1 /\ entities = {}
    /\ store = [c \in Component \cap Persistent |-> EmptyMap]
    /\ resources = [r \in Resource |-> Nil]
    /\ saves = EmptyMap /\ born = {} /\ reissued = {}
    /\ subscribed \in [Systems -> EventType]
    /\ given \in {[i \in 1..n |-> i] : n \in 0..InputCount}
    /\ phase = "Executing"
    /\ round = 1 /\ steps = 0
    /\ inputs = given /\ inbox = <<>> /\ atRecv = FALSE /\ received = <<>>
    /\ events = <<>> /\ processed = 0 /\ event = NoEvent /\ nextSystem = 1
    /\ emitted = 0 /\ calls = <<>>

(***************************************************************************)
(* Definitions with a `__` are wrong on purpose: what the properties would *)
(* catch.                                                                  *)
(*                                                                         *)
(* execute: frames of one VM until it halts or fails.                      *)
(***************************************************************************)

InFrame == phase = "Executing" /\ steps < StepBudget
Free    == InFrame /\ ~atRecv     \* any opcode may be next

\* No limit on the frames of an execution.
NextRound__Unlimited ==
    /\ steps' = 0
    /\ round' = round
    /\ UNCHANGED runVars

\* The loop's next iteration, or its end: the round limit.
NextRound ==
    /\ steps' = 0
    /\ round' = IF round < MaxRounds THEN round + 1 ELSE round
    /\ phase' = IF round < MaxRounds THEN phase ELSE "Failed"
    /\ UNCHANGED <<processed, event, nextSystem>>

OpLocal ==
    /\ Free
    /\ steps' = steps + 1
    /\ UNCHANGED <<worldVars, setup, runVars, round, inputs, inbox, atRecv, received,
                   eventVars, calls>>

OpRecv ==
    /\ InFrame /\ inbox # <<>>
    /\ received' = Append(received, Head(inbox))
    /\ inbox' = Tail(inbox)
    /\ atRecv' = FALSE
    /\ steps' = steps + 1
    /\ UNCHANGED <<worldVars, setup, runVars, round, inputs, eventVars, calls>>

\* A frame that waits gets the next input, or the default, and is woken.
OpRecvEmpty ==
    /\ InFrame /\ inbox = <<>>
    /\ atRecv' = TRUE
    /\ inbox'  = Append(inbox, IF inputs = <<>> THEN Default ELSE Head(inputs))
    /\ inputs' = IF inputs = <<>> THEN inputs ELSE Tail(inputs)
    /\ NextRound
    /\ UNCHANGED <<worldVars, setup, received, eventVars, calls>>

\* Hands the next input to a VM that only slept.
OpPause__FeedsInput ==
    /\ Free
    /\ inbox'  = Append(inbox, IF inputs = <<>> THEN Default ELSE Head(inputs))
    /\ inputs' = IF inputs = <<>> THEN inputs ELSE Tail(inputs)
    /\ NextRound
    /\ UNCHANGED <<worldVars, setup, atRecv, received, eventVars, calls>>

\* Sleep, which is woken at once, or Yield.
OpPause ==
    /\ Free
    /\ NextRound
    /\ UNCHANGED <<worldVars, setup, inputs, inbox, atRecv, received, eventVars, calls>>

BudgetExhausted ==
    /\ phase = "Executing" /\ steps >= StepBudget
    /\ NextRound
    /\ UNCHANGED <<worldVars, setup, inputs, inbox, atRecv, received, eventVars, calls>>

\* The VM fails: so does the run.
OpFault ==
    /\ Free
    /\ phase' = "Failed"
    /\ UNCHANGED <<worldVars, setup, processed, event, nextSystem, execVars,
                   eventVars, calls>>

OpHalt ==
    /\ Free
    /\ phase' = "Dispatching"
    /\ calls' = IF event = NoEvent THEN calls
                                   ELSE Append(calls, <<event.number, nextSystem>>)
    /\ nextSystem' = IF event = NoEvent THEN nextSystem ELSE nextSystem + 1
    /\ UNCHANGED <<worldVars, setup, processed, event, execVars, eventVars>>

(***************************************************************************)
(* Host calls that change the shared state.                                *)
(***************************************************************************)

\* WORLD_SET registers an unknown component as transient.
SetOrRegister(e, c, v) ==
    /\ e \in entities
    /\ store' = Put(store, c, Put(IF c \in DOMAIN store THEN store[c] ELSE EmptyMap, e, v))
    /\ UNCHANGED <<nextEntity, entities, resources, saves, history>>

HostWorld ==
    /\ Free
    /\ \/ Spawn
       \/ \E e \in EntityId, c \in Component, v \in Value : SetOrRegister(e, c, v)
       \/ \E slot \in Slot : Save(slot) \/ Load(slot)
    /\ steps' = steps + 1
    /\ UNCHANGED <<setup, runVars, round, inputs, inbox, atRecv, received, eventVars, calls>>

\* Puts a new event before the others.
HostEmit__ToFront(t) ==
    /\ Free /\ event = NoEvent
    /\ emitted < MaxEmitted
    /\ emitted' = emitted + 1
    /\ events' = <<[number |-> emitted + 1, type |-> t]>> \o events
    /\ steps' = steps + 1
    /\ UNCHANGED <<worldVars, setup, runVars, round, inputs, inbox, atRecv, received, calls>>

\* WORLD_EMIT, the queue not borrowed: in the entry handler.
HostEmit(t) ==
    /\ Free /\ event = NoEvent
    /\ emitted < MaxEmitted
    /\ emitted' = emitted + 1
    /\ events' = Append(events, [number |-> emitted + 1, type |-> t])
    /\ steps' = steps + 1
    /\ UNCHANGED <<worldVars, setup, runVars, round, inputs, inbox, atRecv, received, calls>>

\* WORLD_EMIT in a system: the `while let` still borrows the queue, and the
\* second borrow_mut() panics.
HostEmitBorrowed ==
    /\ Free /\ event # NoEvent
    /\ phase' = "Panicked"
    /\ UNCHANGED <<worldVars, setup, processed, event, nextSystem, execVars,
                   eventVars, calls>>

(***************************************************************************)
(* The drain loop.                                                         *)
(***************************************************************************)

\* One event more than the limit.
PopEvent__OneMore ==
    /\ phase = "Dispatching" /\ event = NoEvent /\ events # <<>>
    /\ processed' = processed + 1
    /\ events' = Tail(events)
    /\ IF processed > MaxEvents
       THEN phase' = "Failed" /\ UNCHANGED event
       ELSE event' = Head(events) /\ UNCHANGED phase
    /\ nextSystem' = 1
    /\ UNCHANGED <<worldVars, setup, execVars, emitted, calls>>

PopEvent ==
    /\ phase = "Dispatching" /\ event = NoEvent /\ events # <<>>
    /\ processed' = processed + 1
    /\ events' = Tail(events)
    /\ IF processed >= MaxEvents
       THEN phase' = "Failed" /\ UNCHANGED event
       ELSE event' = Head(events) /\ UNCHANGED phase
    /\ nextSystem' = 1
    /\ UNCHANGED <<worldVars, setup, execVars, emitted, calls>>

\* Carries the inputs the entry handler left over to the systems.
CallSystem__KeepsInputs ==
    /\ phase = "Dispatching" /\ event # NoEvent
    /\ nextSystem \in Systems /\ subscribed[nextSystem] = event.type
    /\ phase' = "Executing"
    /\ round' = 1 /\ steps' = 0
    /\ inbox' = <<>> /\ atRecv' = FALSE /\ received' = <<>>
    /\ UNCHANGED <<worldVars, setup, processed, event, nextSystem, inputs, eventVars, calls>>

\* A subscribed system is executed with no inputs of its own.
CallSystem ==
    /\ phase = "Dispatching" /\ event # NoEvent
    /\ nextSystem \in Systems /\ subscribed[nextSystem] = event.type
    /\ phase' = "Executing"
    /\ round' = 1 /\ steps' = 0
    /\ inputs' = <<>> /\ inbox' = <<>> /\ atRecv' = FALSE /\ received' = <<>>
    /\ UNCHANGED <<worldVars, setup, processed, event, nextSystem, eventVars, calls>>

SkipSystem ==
    /\ phase = "Dispatching" /\ event # NoEvent
    /\ nextSystem \in Systems /\ subscribed[nextSystem] # event.type
    /\ nextSystem' = nextSystem + 1
    /\ UNCHANGED <<worldVars, setup, phase, processed, event, execVars, eventVars, calls>>

EndEvent ==
    /\ phase = "Dispatching" /\ event # NoEvent
    /\ nextSystem > SystemCount
    /\ event' = NoEvent
    /\ UNCHANGED <<worldVars, setup, phase, processed, nextSystem, execVars, eventVars, calls>>

Finish ==
    /\ phase = "Dispatching" /\ event = NoEvent /\ events = <<>>
    /\ phase' = "Done"
    /\ UNCHANGED <<worldVars, setup, processed, event, nextSystem, execVars,
                   eventVars, calls>>

----------------------------------------------------------------------------

RunnerNext ==
    \/ OpLocal \/ OpRecv \/ OpRecvEmpty \/ OpPause \/ BudgetExhausted
    \/ OpFault \/ OpHalt
    \/ HostWorld \/ HostEmitBorrowed
    \/ \E t \in EventType : HostEmit(t)
    \/ PopEvent \/ CallSystem \/ SkipSystem \/ EndEvent \/ Finish

RunnerSpec == RunnerInit /\ [][RunnerNext]_runnerVars

\* The run is one sequential call: it goes on until it returns.
FairRunnerSpec == RunnerSpec /\ WF_runnerVars(RunnerNext)

\* Every Recv gets its own input: the n-th receive of the entry handler takes
\* the n-th input, or the default when there are fewer, however many sleeps,
\* yields and exhausted budgets came between; a system receives defaults.  An
\* input is in the inbox only while the VM stands at the Recv it is for.
InputsInOrder ==
    phase = "Executing" =>
        /\ \A i \in 1..Len(received) :
              received[i] = IF event = NoEvent /\ i <= Len(given) THEN given[i] ELSE Default
        /\ Len(inbox) <= 1
        /\ inbox # <<>> <=> atRecv

\* Events are dispatched in the order they were emitted, and each to all the
\* systems subscribed to it, in the order of the list, once.  No event beyond
\* the limit reaches a system, and a run that ends well has dispatched all.
Before(c, d) == c[1] < d[1] \/ (c[1] = d[1] /\ c[2] < d[2])

DispatchedInOrder ==
    /\ \A i, j \in 1..Len(calls) : i < j => Before(calls[i], calls[j])
    /\ \A i \in 1..Len(events) : events[i].number > processed
    /\ \A n \in 1..Len(events) - 1 : events[n].number < events[n + 1].number
    /\ event # NoEvent => \A s \in 1..(nextSystem - 1) :
          subscribed[s] = event.type <=> \E i \in 1..Len(calls) : calls[i] = <<event.number, s>>
    /\ \A i \in 1..Len(calls) : calls[i][1] <= MaxEvents
    /\ phase = "Done" => processed = emitted

\* A system may emit events while it handles one (SPEC/gameplay.md, "Event
\* and System"): it does not end the process.
SystemsMayEmit == phase # "Panicked"

\* Every run ends, whatever the script does: loops, waits and emits are
\* bounded by the round, step and event limits.
RunEnds == <>Over

=============================================================================

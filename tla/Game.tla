--------------------------------- MODULE Game ---------------------------------
(***************************************************************************)
(* GameRuntime (game/runtime.rs): the fixed tick over a World, with its    *)
(* event queue, its systems and the input and storage ports.               *)
(*                                                                         *)
(* tick(), save() and load() take `&mut self`: the host's calls come       *)
(* between ticks.  Inside a tick the systems act, one event and one system *)
(* at a time; a handler may change the world, emit events, succeed or      *)
(* fail, and what it changed before it failed stays.                       *)
(***************************************************************************)
EXTENDS World, Sequences, FiniteSets

CONSTANTS
    System,            \* names of systems, numbered in name order
    MaxEventsPerTick,  \* RuntimeConfig::max_events_per_tick
    MaxSequence,       \* bound of the model: events ever emitted
    MaxTick            \* bound of the model: ticks; the code saturates at u64::MAX

ASSUME SystemAssumption == System \subseteq Nat
ASSUME LimitAssumption  == MaxEventsPerTick \in Nat
ASSUME BoundsAssumption == MaxSequence \in Nat /\ MaxTick \in Nat

VARIABLES
    systems,       \* registered systems, sorted by name
    input,         \* HeadlessInput::queued: the ticks its events are due at
    queue,         \* EventQueue::events: sequence, tick and name of each
    nextSequence,
    tick,
    inTick,        \* tick() is running
    processed,     \* events popped by this tick
    event,         \* the event being handled, or NoEvent
    nextSystem,    \* index of the system that handles it next
    lastEvents,
    handled,       \* history: sequence numbers of the events all systems handled
    dropped        \* history: those popped by a tick that then failed

portVars  == <<systems, input>>
eventVars == <<queue, nextSequence>>
tickVars  == <<tick, inTick, processed, event, nextSystem, lastEvents>>
logVars   == <<handled, dropped>>
gameVars  == <<portVars, eventVars, tickVars, logVars>>
allVars   == <<worldVars, gameVars>>

NoEvent == [sequence |-> -1]

GameInit ==
    /\ WorldInit
    /\ systems = <<>> /\ input = <<>>
    /\ queue = <<>> /\ nextSequence = 0
    /\ tick = 0 /\ inTick = FALSE
    /\ processed = 0 /\ event = NoEvent /\ nextSystem = 1 /\ lastEvents = <<>>
    /\ handled = {} /\ dropped = {}

\* EventQueue::emit, for a sequence of names.
Emitted(names) ==
    [i \in 1..Len(names) |->
        [sequence |-> nextSequence + i - 1, tick |-> tick, name |-> names[i]]]

\* Puts what is emitted at the front of the queue.
EmitAll__ToFront(names) ==
    /\ nextSequence + Len(names) <= MaxSequence
    /\ queue' = Emitted(names) \o queue
    /\ nextSequence' = nextSequence + Len(names)

EmitAll(names) ==
    /\ nextSequence + Len(names) <= MaxSequence
    /\ queue' = queue \o Emitted(names)
    /\ nextSequence' = nextSequence + Len(names)

(***************************************************************************)
(* The host, between ticks.                                                *)
(***************************************************************************)

\* A name that is taken is refused; the others stay sorted by name.
RegisterSystem(s) ==
    /\ ~inTick
    /\ \A i \in 1..Len(systems) : systems[i] # s
    /\ systems' = SelectSeq(systems, LAMBDA x : x < s) \o <<s>>
                     \o SelectSeq(systems, LAMBDA x : x > s)
    /\ UNCHANGED <<worldVars, input, eventVars, tickVars, logVars>>

\* HeadlessInput::push; each input event counts against MaxSequence.
PushInput(due) ==
    /\ ~inTick
    /\ Len(input) + nextSequence < MaxSequence
    /\ input' = Append(input, due)
    /\ UNCHANGED <<worldVars, systems, eventVars, tickVars, logVars>>

HostEmit ==
    /\ ~inTick
    /\ EmitAll(<<"custom">>)
    /\ UNCHANGED <<worldVars, portVars, tickVars, logVars>>

HostWorld ==
    /\ ~inTick
    /\ WorldOp \/ SlotOp
    /\ UNCHANGED gameVars

(***************************************************************************)
(* GameRuntime::tick.                                                      *)
(***************************************************************************)

\* HeadlessInput::poll stops at the first event that is not due yet.
Due == CHOOSE n \in 0..Len(input) :
          /\ \A i \in 1..n : input[i] <= tick
          /\ n < Len(input) => input[n + 1] > tick

BeginTick ==
    /\ ~inTick
    /\ tick < MaxTick
    /\ EmitAll([i \in 1..Due + 1 |-> IF i <= Due THEN "input" ELSE "game.tick"])
    /\ input' = SubSeq(input, Due + 1, Len(input))
    /\ inTick' = TRUE
    /\ lastEvents' = <<>> /\ processed' = 0
    /\ UNCHANGED <<worldVars, systems, tick, event, nextSystem, logVars>>

\* A tick that fails leaves the rest of the queue and the tick index alone.
Fail(lost) ==
    /\ inTick' = FALSE
    /\ event' = NoEvent /\ nextSystem' = 1
    /\ dropped' = dropped \cup {lost.sequence}
    /\ UNCHANGED <<worldVars, portVars, nextSequence, tick, lastEvents,
                   handled>>

Pop == processed' = processed + 1 /\ queue' = Tail(queue)

\* Lets one more event through.
PopEvent__OneMore ==
    /\ inTick /\ event = NoEvent /\ queue # <<>>
    /\ processed <= MaxEventsPerTick
    /\ Pop
    /\ event' = Head(queue)
    /\ UNCHANGED <<worldVars, portVars, nextSequence, tick, inTick, nextSystem,
                   lastEvents, logVars>>

PopEvent ==
    /\ inTick /\ event = NoEvent /\ queue # <<>>
    /\ processed < MaxEventsPerTick
    /\ Pop
    /\ event' = Head(queue)
    /\ UNCHANGED <<worldVars, portVars, nextSequence, tick, inTick, nextSystem,
                   lastEvents, logVars>>

\* Puts the event that exceeds the limit back.
ExceedLimit__Requeues ==
    /\ inTick /\ event = NoEvent /\ queue # <<>>
    /\ processed >= MaxEventsPerTick
    /\ processed' = processed + 1
    /\ queue' = Append(queue, Head(queue))
    /\ Fail(Head(queue))

ExceedLimit ==
    /\ inTick /\ event = NoEvent /\ queue # <<>>
    /\ processed >= MaxEventsPerTick
    /\ Pop
    /\ Fail(Head(queue))

InHandler == inTick /\ event # NoEvent /\ nextSystem <= Len(systems)

HandlerWorld ==
    /\ InHandler
    /\ WorldOp
    /\ UNCHANGED gameVars

HandlerEmit ==
    /\ InHandler
    /\ EmitAll(<<"custom">>)
    /\ UNCHANGED <<worldVars, portVars, tickVars, logVars>>

HandlerReturn ==
    /\ InHandler
    /\ nextSystem' = nextSystem + 1
    /\ UNCHANGED <<worldVars, portVars, eventVars, tick, inTick, processed,
                   event, lastEvents, logVars>>

HandlerFail ==
    /\ InHandler
    /\ Fail(event)
    /\ UNCHANGED <<queue, processed>>

EndEvent ==
    /\ inTick /\ event # NoEvent /\ nextSystem > Len(systems)
    /\ lastEvents' = Append(lastEvents, event)
    /\ handled' = handled \cup {event.sequence}
    /\ event' = NoEvent /\ nextSystem' = 1
    /\ UNCHANGED <<worldVars, portVars, eventVars, tick, inTick, processed,
                   dropped>>

\* Renders the frame (tick, lastEvents).
EndTick ==
    /\ inTick /\ event = NoEvent /\ queue = <<>>
    /\ tick' = tick + 1
    /\ inTick' = FALSE
    /\ UNCHANGED <<worldVars, portVars, eventVars, processed, event, nextSystem,
                   lastEvents, logVars>>

----------------------------------------------------------------------------

HostStep ==
    \/ \E s \in System : RegisterSystem(s)
    \/ \E due \in 0..MaxTick : PushInput(due)
    \/ HostEmit \/ HostWorld

TickStep ==
    \/ BeginTick \/ PopEvent \/ ExceedLimit
    \/ HandlerWorld \/ HandlerEmit \/ HandlerReturn \/ HandlerFail
    \/ EndEvent \/ EndTick

GameNext == HostStep \/ TickStep
GameSpec == GameInit /\ [][GameNext]_allVars

Sequences(q) == {q[i].sequence : i \in 1..Len(q)}
Handling     == IF event = NoEvent THEN {} ELSE {event.sequence}

\* Events are handled in the order they were emitted, by whomever and in
\* whichever tick: what waits is in order and later than what was popped,
\* across ticks that fail as well.
EventsInOrder ==
    /\ \A i, j \in 1..Len(queue) : i < j => queue[i].sequence < queue[j].sequence
    /\ \A n \in handled \cup dropped \cup Handling : \A m \in Sequences(queue) : n < m

\* Every event emitted is queued, in hand, handled or popped by a tick that
\* failed - one of these, once: none is handled twice, and only a failed tick
\* loses one.  A tick handles no more than its budget, however many its
\* handlers emit.
EventsAccounted ==
    /\ 0..(nextSequence - 1) = Sequences(queue) \cup Handling \cup handled \cup dropped
    /\ Cardinality(Sequences(queue)) = Len(queue)
    /\ Handling \cap (handled \cup dropped \cup Sequences(queue)) = {}
    /\ handled \cap dropped = {}
    /\ Sequences(queue) \cap (handled \cup dropped) = {}
    /\ Len(lastEvents) + Cardinality(Handling) <= MaxEventsPerTick

=============================================================================

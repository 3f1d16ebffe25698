------------------------------ MODULE RunnerProofs ------------------------------
(***************************************************************************)
(* What the order of inputs and of events rests on, for any program, any   *)
(* number of systems and inputs, and any limits.                           *)
(***************************************************************************)
EXTENDS Runner, SequenceTheorems, TLAPS

(***************************************************************************)
(* Inputs.                                                                 *)
(*                                                                         *)
(* What the execution has received, then what is in the inbox, then what   *)
(* is left of the inputs, are the inputs it was given (then defaults).     *)
(***************************************************************************)

\* What the i-th Recv of the execution is to get.
Expected(i) == IF event = NoEvent /\ i <= Len(given) THEN given[i] ELSE Default

\* How many inputs have left the list.
Supplied == Len(received) + Len(inbox)

InputTypes ==
    /\ given \in Seq(Nat) /\ inputs \in Seq(Nat)
    /\ received \in Seq(Nat) /\ inbox \in Seq(Nat)

InboxOK ==
    /\ Len(inbox) <= 1
    /\ inbox # <<>> <=> atRecv
    /\ \A i \in 1..Len(inbox) : inbox[i] = Expected(Len(received) + i)

ReceivedOK == \A i \in 1..Len(received) : received[i] = Expected(i)

RestOK ==
    /\ Len(inputs) = IF event = NoEvent /\ Supplied < Len(given)
                     THEN Len(given) - Supplied ELSE 0
    /\ \A i \in 1..Len(inputs) : inputs[i] = given[Supplied + i]

InputInv ==
    /\ InputTypes
    /\ phase = "Executing" => InboxOK /\ ReceivedOK /\ RestOK

\* The steps that touch nothing of it.
LEMMA InputUnchanged ==
    ASSUME InputInv, UNCHANGED <<given, inputs, inbox, atRecv, received>>,
           phase' = "Executing" => phase = "Executing" /\ event' = event
    PROVE  InputInv'
BY DEF InputInv, InputTypes, InboxOK, ReceivedOK, RestOK, Expected, Supplied

\* A Recv takes the one input that is in the inbox, the next one expected.
LEMMA InputRecv ==
    ASSUME InputInv, OpRecv
    PROVE  InputInv'
<1>1. /\ phase = "Executing" /\ inbox # <<>>
      /\ received' = Append(received, Head(inbox)) /\ inbox' = Tail(inbox)
      /\ atRecv' = FALSE
      /\ inputs' = inputs /\ given' = given /\ event' = event
  BY DEF OpRecv, InFrame, setup, runVars
<1>2. InputTypes /\ InboxOK /\ ReceivedOK /\ RestOK
  BY <1>1 DEF InputInv
<1>3. Len(inbox) = 1 /\ Head(inbox) = inbox[1] /\ Head(inbox) \in Nat
  <2>1. Len(inbox) \in Nat \ {0} /\ Len(inbox) <= 1
    BY <1>1, <1>2, EmptySeq DEF InputTypes, InboxOK
  <2>2. Head(inbox) \in Nat
    BY <1>1, <1>2, HeadTailProperties DEF InputTypes
  <2>3. QED BY <2>1, <2>2
<1>4. /\ inbox' \in Seq(Nat) /\ Len(inbox') = 0 /\ inbox' = <<>>
  <2>1. inbox' \in Seq(Nat) /\ Len(inbox') = Len(inbox) - 1
    BY <1>1, <1>2, HeadTailProperties DEF InputTypes
  <2>2. Len(inbox') = 0
    BY <1>3, <2>1
  <2>3. QED BY <2>1, <2>2, EmptySeq
<1>5. /\ received' \in Seq(Nat) /\ Len(received') = Len(received) + 1
      /\ received'[Len(received) + 1] = Head(inbox)
      /\ \A i \in 1..Len(received) : received'[i] = received[i]
      /\ Len(received) \in Nat
  BY <1>1, <1>2, <1>3, AppendProperties DEF InputTypes
<1>6. Head(inbox) = Expected(Len(received) + 1)
  BY <1>2, <1>3 DEF InboxOK
<1>7. ASSUME NEW i \in 1..Len(received') PROVE received'[i] = Expected(i)
  <2>1. CASE i = Len(received) + 1
    BY <1>5, <1>6, <2>1
  <2>2. CASE i # Len(received) + 1
    <3>1. i \in 1..Len(received)
      BY <1>5, <2>2
    <3>2. QED BY <1>2, <1>5, <3>1 DEF ReceivedOK
  <2>3. QED BY <2>1, <2>2
<1>8. \A i : Expected(i)' = Expected(i)
  BY <1>1 DEF Expected
<1>9. Supplied' = Supplied
  BY <1>3, <1>4, <1>5 DEF Supplied
<1>10. InboxOK' /\ ReceivedOK'
  BY <1>1, <1>4, <1>7, <1>8, SMTT(30) DEF InboxOK, ReceivedOK
<1>11. RestOK'
  BY <1>1, <1>2, <1>9 DEF RestOK
<1>12. InputTypes'
  BY <1>1, <1>2, <1>4, <1>5 DEF InputTypes
<1>13. QED BY <1>10, <1>11, <1>12 DEF InputInv

\* A frame that waits is given the next input.
LEMMA InputFeed ==
    ASSUME InputInv, OpRecvEmpty
    PROVE  InputInv'
<1> DEFINE x == IF inputs = <<>> THEN Default ELSE Head(inputs)
<1>1. /\ phase = "Executing" /\ inbox = <<>>
      /\ received' = received /\ inbox' = Append(inbox, x) /\ atRecv' = TRUE
      /\ inputs' = IF inputs = <<>> THEN inputs ELSE Tail(inputs)
      /\ given' = given /\ event' = event
  BY DEF OpRecvEmpty, InFrame, setup, NextRound
<1>2. InputTypes /\ InboxOK /\ ReceivedOK /\ RestOK
  BY <1>1 DEF InputInv
<1>3. /\ Len(inbox) = 0 /\ Supplied = Len(received)
      /\ Len(received) \in Nat /\ Len(given) \in Nat /\ Len(inputs) \in Nat
  BY <1>1, <1>2 DEF InputTypes, Supplied
<1>4. x \in Nat /\ x = Expected(Len(received) + 1)
  <2>1. CASE inputs = <<>>
    <3>1. Len(inputs) = 0
      BY <2>1
    <3>2. ~(event = NoEvent /\ Len(received) + 1 <= Len(given))
      BY <1>2, <1>3, <3>1 DEF RestOK
    <3>3. QED BY <2>1, <3>2 DEF Expected, Default
  <2>2. CASE inputs # <<>>
    <3>1. Len(inputs) > 0 /\ Head(inputs) = inputs[1] /\ Head(inputs) \in Nat
      BY <1>2, <2>2, HeadTailProperties DEF InputTypes
    <3>2. event = NoEvent /\ Len(received) < Len(given)
      BY <1>2, <1>3, <3>1 DEF RestOK
    <3>3. 1 \in 1..Len(inputs)
      BY <1>3, <3>1
    <3>4. inputs[1] = given[Len(received) + 1]
      BY <1>2, <1>3, <3>3 DEF RestOK
    <3>5. QED BY <1>3, <2>2, <3>1, <3>2, <3>4 DEF Expected
  <2>3. QED BY <2>1, <2>2
<1> HIDE DEF x
<1>5. /\ inbox' \in Seq(Nat) /\ Len(inbox') = 1 /\ inbox'[1] = x /\ inbox' # <<>>
  <2>1. <<>> \in Seq(Nat) /\ Len(<<>>) = 0
    BY EmptySeq
  <2>2. /\ inbox' \in Seq(Nat) /\ Len(inbox') = Len(inbox) + 1
        /\ inbox'[Len(inbox) + 1] = x
    BY <1>1, <1>4, <2>1, AppendProperties
  <2>3. Len(inbox') = 1 /\ inbox'[1] = x
    BY <1>3, <2>2
  <2>4. inbox' # <<>>
    <3>1. Len(inbox') # Len(<<>>)
      BY <2>1, <2>3
    <3>2. QED BY <3>1
  <2>5. QED BY <2>2, <2>3, <2>4
<1>6. Supplied' = Supplied + 1
  BY <1>1, <1>3, <1>5 DEF Supplied
<1>7. RestOK' /\ inputs' \in Seq(Nat)
  <2>1. CASE inputs = <<>>
    <3>1. Len(inputs) = 0 /\ inputs' = inputs
      BY <1>1, <2>1
    <3>2. QED BY <1>1, <1>2, <1>3, <1>6, <3>1 DEF RestOK, InputTypes
  <2>2. CASE inputs # <<>>
    <3>1. /\ inputs' = Tail(inputs) /\ inputs' \in Seq(Nat)
          /\ Len(inputs') = Len(inputs) - 1
          /\ \A i \in 1..Len(inputs') : inputs'[i] = inputs[i + 1]
      BY <1>1, <1>2, <2>2, HeadTailProperties DEF InputTypes
    <3>2. Len(inputs) > 0
      BY <1>2, <2>2 DEF InputTypes
    <3>3. event = NoEvent /\ Len(inputs) = Len(given) - Len(received)
          /\ Len(received) < Len(given)
      BY <1>2, <1>3, <3>2 DEF RestOK
    <3>4. ASSUME NEW i \in 1..Len(inputs')
          PROVE  inputs'[i] = given[Supplied' + i]
      <4>1. i + 1 \in 1..Len(inputs) /\ Supplied + (i + 1) = Supplied' + i
        BY <1>3, <1>6, <3>1
      <4>2. QED BY <1>2, <3>1, <3>4, <4>1 DEF RestOK
    <3>5. Len(inputs') = IF event = NoEvent /\ Supplied' < Len(given)
                         THEN Len(given) - Supplied' ELSE 0
      <4>1. Len(inputs') = Len(given) - Supplied'
        BY <1>3, <1>6, <3>1, <3>3
      <4>2. Supplied' <= Len(given) /\ Supplied' \in Nat
        BY <1>3, <1>6, <3>3
      <4>3. QED BY <1>3, <3>3, <4>1, <4>2
    <3>6. QED BY <1>1, <3>1, <3>4, <3>5 DEF RestOK
  <2>3. QED BY <2>1, <2>2
<1>8. \A i : Expected(i)' = Expected(i)
  BY <1>1 DEF Expected
<1>9. InboxOK' /\ ReceivedOK'
  BY <1>1, <1>2, <1>4, <1>5, <1>8 DEF InboxOK, ReceivedOK
<1>10. InputTypes'
  BY <1>1, <1>2, <1>5, <1>7 DEF InputTypes
<1>11. QED BY <1>7, <1>9, <1>10 DEF InputInv

\* A system begins with nothing.
LEMMA InputCall ==
    ASSUME InputInv, CallSystem
    PROVE  InputInv'
<1>1. /\ inputs' = <<>> /\ inbox' = <<>> /\ atRecv' = FALSE /\ received' = <<>>
      /\ event # NoEvent /\ event' = event /\ given' = given
  BY DEF CallSystem, setup
<1>2. <<>> \in Seq(Nat) /\ Len(<<>>) = 0
  BY EmptySeq
<1>3. InputTypes' /\ InboxOK' /\ ReceivedOK' /\ RestOK'
  BY <1>1, <1>2 DEF InputInv, InputTypes, InboxOK, ReceivedOK, RestOK, Supplied
<1>4. QED BY <1>3 DEF InputInv

LEMMA InputInvariant == RunnerSpec => []InputInv
<1>1. RunnerInit => InputInv
  <2> SUFFICES ASSUME RunnerInit PROVE InputInv
    OBVIOUS
  <2>1. PICK n \in 0..InputCount : given = [i \in 1..n |-> i]
    BY DEF RunnerInit
  <2>2. n \in Nat
    BY <2>1, CountsAssumption
  <2>3. given \in Seq(Nat) /\ Len(given) = n
    BY <2>1, <2>2
  <2>4. /\ inputs = given /\ inbox = <<>> /\ received = <<>> /\ atRecv = FALSE
        /\ event = NoEvent
    BY DEF RunnerInit
  <2>5. <<>> \in Seq(Nat) /\ Len(<<>>) = 0
    BY EmptySeq
  <2>6. QED BY <2>2, <2>3, <2>4, <2>5
            DEF InputInv, InputTypes, InboxOK, ReceivedOK, RestOK, Supplied
<1>2. InputInv /\ [RunnerNext]_runnerVars => InputInv'
  <2> SUFFICES ASSUME InputInv, [RunnerNext]_runnerVars PROVE InputInv'
    OBVIOUS
  <2>1. CASE OpRecv
    BY <2>1, InputRecv
  <2>2. CASE OpRecvEmpty
    BY <2>2, InputFeed
  <2>3. CASE CallSystem
    BY <2>3, InputCall
  <2>4. CASE \/ OpLocal \/ OpPause \/ BudgetExhausted \/ OpFault \/ OpHalt
             \/ HostWorld \/ HostEmitBorrowed
             \/ \E t \in EventType : HostEmit(t)
    <3>1. UNCHANGED <<given, inputs, inbox, atRecv, received>>
      BY <2>4 DEF OpLocal, OpPause, BudgetExhausted, OpFault, OpHalt, HostWorld,
                  HostEmitBorrowed, HostEmit, setup, execVars
    <3>2. phase = "Executing" /\ event' = event
      BY <2>4 DEF OpLocal, OpPause, BudgetExhausted, OpFault, OpHalt, HostWorld,
                  HostEmitBorrowed, HostEmit, Free, InFrame, runVars, NextRound
    <3>3. QED BY <3>1, <3>2, InputUnchanged
  <2>5. CASE PopEvent \/ SkipSystem \/ EndEvent \/ Finish
    <3>1. UNCHANGED <<given, inputs, inbox, atRecv, received>>
      BY <2>5 DEF PopEvent, SkipSystem, EndEvent, Finish, setup, execVars
    <3>2. phase' # "Executing"
      BY <2>5 DEF PopEvent, SkipSystem, EndEvent, Finish
    <3>3. QED BY <3>1, <3>2, InputUnchanged
  <2>6. CASE UNCHANGED runnerVars
    BY <2>6, InputUnchanged DEF runnerVars, setup, runVars, execVars
  <2>7. QED BY <2>1, <2>2, <2>3, <2>4, <2>5, <2>6 DEF RunnerNext
<1>3. QED BY <1>1, <1>2, PTL DEF RunnerSpec

\* The n-th Recv of the entry handler takes the n-th input, or the default when
\* there are fewer; a system receives defaults.  No sleep, yield or exhausted
\* budget uses an input up, and none is handed out before the Recv it is for.
THEOREM InputsComeInOrder == RunnerSpec => []InputsInOrder
<1>1. InputInv => InputsInOrder
  BY DEF InputInv, InboxOK, ReceivedOK, Expected, InputsInOrder
<1>2. QED BY <1>1, InputInvariant, PTL

(***************************************************************************)
(* Events.                                                                 *)
(*                                                                         *)
(* The queue holds the events after the processed ones, without a gap; the *)
(* event being dispatched is the last one processed; the calls are of      *)
(* processed events, and those of the last one of the systems before the   *)
(* next.                                                                   *)
(***************************************************************************)

Event == [number : Nat, type : EventType]

DispatchTypes ==
    /\ processed \in Nat /\ emitted \in Nat /\ nextSystem \in Nat \ {0}
    /\ events \in Seq(Event) /\ calls \in Seq(Nat \X Nat)

QueueOK ==
    /\ emitted = processed + Len(events)
    /\ \A i \in 1..Len(events) : events[i].number = processed + i

EventOK ==
    event # NoEvent =>
        /\ event.number = processed /\ 0 < processed /\ processed <= MaxEvents
        /\ phase = "Executing" => /\ nextSystem \in Systems
                                  /\ subscribed[nextSystem] = event.type

CallsOK ==
    /\ \A i, j \in 1..Len(calls) : i < j => Before(calls[i], calls[j])
    /\ \A i \in 1..Len(calls) :
          /\ calls[i][1] <= processed /\ calls[i][1] <= MaxEvents
          /\ event # NoEvent /\ calls[i][1] = processed => calls[i][2] < nextSystem

\* The systems before the next have had the event, if it is theirs.
ServedOK ==
    event # NoEvent => \A s \in 1..(nextSystem - 1) :
        subscribed[s] = event.type
            <=> \E i \in 1..Len(calls) : calls[i] = <<event.number, s>>

DispatchInv ==
    /\ DispatchTypes /\ QueueOK /\ EventOK /\ CallsOK /\ ServedOK
    /\ phase = "Done" => processed = emitted

\* The steps that touch nothing of it.
LEMMA DispatchUnchanged ==
    ASSUME DispatchInv,
           UNCHANGED <<subscribed, processed, event, nextSystem, events, emitted, calls>>,
           phase' \in {"Done", "Executing"} => phase' = phase
    PROVE  DispatchInv'
BY DEF DispatchInv, DispatchTypes, QueueOK, EventOK, CallsOK, ServedOK

\* An event is numbered behind the last of the queue.
LEMMA DispatchEmit ==
    ASSUME DispatchInv, NEW t \in EventType, HostEmit(t)
    PROVE  DispatchInv'
<1> DEFINE e == [number |-> emitted + 1, type |-> t]
<1>1. /\ emitted' = emitted + 1 /\ events' = Append(events, e)
      /\ phase = "Executing" /\ phase' = phase /\ subscribed' = subscribed
      /\ event = NoEvent /\ event' = event /\ nextSystem' = nextSystem
      /\ processed' = processed /\ calls' = calls
  BY DEF HostEmit, Free, InFrame, setup, runVars
<1>2. e \in Event /\ e.number = emitted + 1
  BY DEF Event, DispatchInv, DispatchTypes
<1> HIDE DEF e
<1>3. /\ events' \in Seq(Event) /\ Len(events') = Len(events) + 1
      /\ events'[Len(events) + 1] = e /\ Len(events) \in Nat
      /\ \A i \in 1..Len(events) : events'[i] = events[i]
  BY <1>1, <1>2, AppendProperties DEF DispatchInv, DispatchTypes
<1>4. DispatchTypes'
  BY <1>1, <1>3 DEF DispatchInv, DispatchTypes
<1>5. QueueOK'
  <2>1. ASSUME NEW i \in 1..Len(events') PROVE events'[i].number = processed' + i
    <3>1. CASE i = Len(events) + 1
      BY <1>1, <1>2, <1>3, <3>1 DEF DispatchInv, QueueOK, DispatchTypes
    <3>2. CASE i # Len(events) + 1
      <4>1. i \in 1..Len(events)
        BY <1>3, <3>2
      <4>2. QED BY <1>1, <1>3, <4>1 DEF DispatchInv, QueueOK
    <3>3. QED BY <3>1, <3>2
  <2>2. emitted' = processed' + Len(events')
    BY <1>1, <1>3 DEF DispatchInv, QueueOK, DispatchTypes
  <2>3. QED BY <2>1, <2>2 DEF QueueOK
<1>6. QED BY <1>1, <1>4, <1>5 DEF DispatchInv, EventOK, CallsOK, ServedOK

\* The next event of the queue, or the end of the run at the limit.
LEMMA DispatchPop ==
    ASSUME DispatchInv, PopEvent
    PROVE  DispatchInv'
<1>1. /\ event = NoEvent /\ events # <<>> /\ phase = "Dispatching"
      /\ processed' = processed + 1 /\ events' = Tail(events)
      /\ nextSystem' = 1
      /\ emitted' = emitted /\ calls' = calls /\ subscribed' = subscribed
      /\ phase' # "Done" /\ phase' # "Executing"
  BY DEF PopEvent, setup
<1>2. \/ event' = NoEvent
      \/ event' = Head(events) /\ processed < MaxEvents
  BY <1>1, EventsAssumption DEF PopEvent, DispatchInv, DispatchTypes
<1>3. /\ events \in Seq(Event) /\ processed \in Nat /\ emitted \in Nat
      /\ calls \in Seq(Nat \X Nat) /\ Len(events) \in Nat \ {0}
  BY <1>1, EmptySeq DEF DispatchInv, DispatchTypes
<1>4. /\ events' \in Seq(Event) /\ Len(events') = Len(events) - 1
      /\ \A i \in 1..Len(events') : events'[i] = events[i + 1]
      /\ Head(events) = events[1]
  BY <1>1, <1>3, HeadTailProperties
<1>5. DispatchTypes'
  BY <1>1, <1>3, <1>4 DEF DispatchTypes
<1>6. QueueOK'
  <2>1. ASSUME NEW i \in 1..Len(events') PROVE events'[i].number = processed' + i
    <3>1. i + 1 \in 1..Len(events)
      BY <1>3, <1>4
    <3>2. events[i + 1].number = processed + (i + 1)
      BY <3>1 DEF DispatchInv, QueueOK
    <3>3. QED BY <1>1, <1>3, <1>4, <3>2
  <2>2. emitted' = processed' + Len(events')
    BY <1>1, <1>3, <1>4 DEF DispatchInv, QueueOK
  <2>3. QED BY <2>1, <2>2 DEF QueueOK
<1>7. event' # NoEvent => event'.number = processed'
  <2>1. 1 \in 1..Len(events)
    BY <1>3
  <2>2. events[1].number = processed + 1
    BY <2>1 DEF DispatchInv, QueueOK
  <2>3. QED BY <1>1, <1>2, <1>4, <2>2
<1>8. EventOK'
  BY <1>1, <1>2, <1>3, <1>7, EventsAssumption DEF EventOK
<1>9. \A i \in 1..Len(calls) : calls[i][1] <= processed /\ calls[i][1] \in Nat
  BY <1>3, ElementOfSeq DEF DispatchInv, CallsOK
<1>10. CallsOK'
  <2>1. ASSUME NEW i \in 1..Len(calls)
        PROVE  /\ calls[i][1] <= processed + 1 /\ calls[i][1] <= MaxEvents
               /\ calls[i][1] # processed + 1
    BY <1>3, <1>9 DEF DispatchInv, CallsOK
  <2>2. \A i, j \in 1..Len(calls) : i < j => Before(calls[i], calls[j])
    BY DEF DispatchInv, CallsOK
  <2>3. QED BY <1>1, <2>1, <2>2 DEF CallsOK
<1>11. ServedOK'
  BY <1>1 DEF ServedOK
<1>12. QED BY <1>1, <1>5, <1>6, <1>8, <1>10, <1>11 DEF DispatchInv

\* A system whose execution has ended has had the event.
LEMMA DispatchHalt ==
    ASSUME DispatchInv, OpHalt
    PROVE  DispatchInv'
<1>1. /\ phase = "Executing" /\ phase' = "Dispatching"
      /\ processed' = processed /\ event' = event /\ subscribed' = subscribed
      /\ events' = events /\ emitted' = emitted
  BY DEF OpHalt, Free, InFrame, setup, eventVars
<1>2. CASE event = NoEvent
  <2>1. calls' = calls /\ nextSystem' = nextSystem
    BY <1>2 DEF OpHalt
  <2>2. QED BY <1>1, <2>1, DispatchUnchanged
<1>3. CASE event # NoEvent
  <2> DEFINE c == <<event.number, nextSystem>>
  <2>1. calls' = Append(calls, c) /\ nextSystem' = nextSystem + 1
    BY <1>3 DEF OpHalt
  <2>2. /\ event.number = processed /\ processed <= MaxEvents
        /\ nextSystem \in Systems /\ subscribed[nextSystem] = event.type
        /\ processed \in Nat /\ nextSystem \in Nat \ {0}
        /\ calls \in Seq(Nat \X Nat)
    BY <1>1, <1>3 DEF DispatchInv, EventOK, DispatchTypes
  <2>3. c \in Nat \X Nat /\ c[1] = processed /\ c[2] = nextSystem
    BY <2>2
  <2>4. /\ calls' \in Seq(Nat \X Nat) /\ Len(calls') = Len(calls) + 1
        /\ calls'[Len(calls) + 1] = c /\ Len(calls) \in Nat
        /\ \A i \in 1..Len(calls) : calls'[i] = calls[i]
    BY <2>1, <2>2, <2>3, AppendProperties
  <2>5. \A i \in 1..Len(calls) :
           /\ calls[i][1] <= processed /\ calls[i][1] <= MaxEvents
           /\ calls[i][1] = processed => calls[i][2] < nextSystem
           /\ calls[i][1] \in Nat /\ calls[i][2] \in Nat
    BY <1>3, <2>2, ElementOfSeq DEF DispatchInv, CallsOK
  <2>6. DispatchTypes'
    BY <1>1, <2>1, <2>2, <2>4 DEF DispatchInv, DispatchTypes
  <2>7. ASSUME NEW i \in 1..Len(calls'), NEW j \in 1..Len(calls'), i < j
        PROVE  Before(calls'[i], calls'[j])
    <3> HIDE DEF c
    <3>1. i \in 1..Len(calls) /\ calls'[i] = calls[i]
      <4>1. i < Len(calls) + 1
        BY <2>4, <2>7
      <4>2. QED BY <2>4, <4>1, SMTT(30)
    <3>2. CASE j = Len(calls) + 1
      <4>1. /\ calls'[j] = c
            /\ calls[i][1] \in Nat /\ calls[i][2] \in Nat
            /\ calls[i][1] <= processed
            /\ calls[i][1] = processed => calls[i][2] < nextSystem
        BY <2>4, <2>5, <3>1, <3>2, SMTT(30)
      <4>2. QED BY <2>2, <2>3, <3>1, <4>1, SMTT(30) DEF Before
    <3>3. CASE j # Len(calls) + 1
      <4>1. j \in 1..Len(calls) /\ calls'[j] = calls[j]
        BY <2>4, <3>3, SMTT(30)
      <4>2. QED BY <2>7, <3>1, <4>1 DEF DispatchInv, CallsOK
    <3>4. QED BY <3>2, <3>3
  <2>8. ASSUME NEW i \in 1..Len(calls')
        PROVE  /\ calls'[i][1] <= processed /\ calls'[i][1] <= MaxEvents
               /\ calls'[i][1] = processed => calls'[i][2] < nextSystem + 1
    <3>1. CASE i = Len(calls) + 1
      BY <2>2, <2>3, <2>4, <3>1
    <3>2. CASE i # Len(calls) + 1
      <4>1. i \in 1..Len(calls) /\ calls'[i] = calls[i]
        BY <2>4, <3>2, SMTT(30)
      <4>2. QED BY <2>2, <2>5, <4>1
    <3>3. QED BY <3>1, <3>2
  <2>9. CallsOK'
    BY <1>1, <2>1, <2>7, <2>8 DEF CallsOK
  <2>10. ASSUME NEW s \in 1..((nextSystem + 1) - 1)
         PROVE  subscribed[s] = event.type
                  <=> \E i \in 1..Len(calls') : calls'[i] = <<event.number, s>>
    <3>1. CASE s = nextSystem
      <4>1. Len(calls) + 1 \in 1..Len(calls')
        BY <2>4
      <4>2. QED BY <2>2, <2>4, <3>1, <4>1
    <3>2. CASE s # nextSystem
      <4>1. s \in 1..(nextSystem - 1) /\ <<event.number, s>> # c
        BY <2>2, <3>2
      <4>2. (\E i \in 1..Len(calls') : calls'[i] = <<event.number, s>>)
              <=> \E i \in 1..Len(calls) : calls[i] = <<event.number, s>>
        <5> HIDE DEF c
        <5>1. \A i \in 1..Len(calls') : i = Len(calls) + 1 \/ i \in 1..Len(calls)
          BY <2>4
        <5>2. \A i \in 1..Len(calls) : i \in 1..Len(calls')
          BY <2>4
        <5>3. QED BY <2>4, <4>1, <5>1, <5>2
      <4>3. QED BY <1>3, <4>1, <4>2 DEF DispatchInv, ServedOK
    <3>3. QED BY <3>1, <3>2
  <2>11. ServedOK'
    BY <1>1, <2>1, <2>10 DEF ServedOK
  <2>12. QueueOK' /\ EventOK'
    BY <1>1 DEF DispatchInv, QueueOK, EventOK
  <2>13. QED BY <1>1, <2>6, <2>9, <2>11, <2>12 DEF DispatchInv
<1>4. QED BY <1>2, <1>3

\* A system that did not subscribe is passed over, and has not been called.
LEMMA DispatchSkip ==
    ASSUME DispatchInv, SkipSystem
    PROVE  DispatchInv'
<1>1. /\ event # NoEvent /\ event' = event /\ phase' = phase
      /\ phase = "Dispatching"
      /\ nextSystem \in Systems /\ subscribed[nextSystem] # event.type
      /\ nextSystem' = nextSystem + 1
      /\ processed' = processed /\ subscribed' = subscribed
      /\ events' = events /\ emitted' = emitted /\ calls' = calls
  BY DEF SkipSystem, setup, eventVars
<1>2. /\ nextSystem \in Nat \ {0} /\ calls \in Seq(Nat \X Nat)
      /\ event.number = processed
  BY <1>1 DEF DispatchInv, DispatchTypes, EventOK
<1>3. \A i \in 1..Len(calls) :
         /\ calls[i][2] \in Nat
         /\ calls[i][1] = processed => calls[i][2] < nextSystem
  BY <1>1, <1>2, ElementOfSeq DEF DispatchInv, CallsOK
<1>4. ASSUME NEW s \in 1..((nextSystem + 1) - 1)
      PROVE  subscribed[s] = event.type
               <=> \E i \in 1..Len(calls) : calls[i] = <<event.number, s>>
  <2>1. CASE s = nextSystem
    <3>1. ASSUME NEW i \in 1..Len(calls), calls[i] = <<event.number, s>> PROVE FALSE
      <4>1. calls[i][1] = processed /\ calls[i][2] = nextSystem
        BY <1>2, <2>1, <3>1
      <4>2. QED BY <1>2, <1>3, <4>1
    <3>2. QED BY <1>1, <2>1, <3>1
  <2>2. CASE s # nextSystem
    <3>1. s \in 1..(nextSystem - 1)
      BY <1>2, <2>2
    <3>2. QED BY <1>1, <3>1 DEF DispatchInv, ServedOK
  <2>3. QED BY <2>1, <2>2
<1>5. ServedOK'
  BY <1>1, <1>4 DEF ServedOK
<1>6. CallsOK'
  BY <1>1, <1>2, <1>3 DEF DispatchInv, CallsOK
<1>7. DispatchTypes' /\ QueueOK' /\ EventOK'
  BY <1>1, <1>2 DEF DispatchInv, DispatchTypes, QueueOK, EventOK
<1>8. QED BY <1>1, <1>5, <1>6, <1>7 DEF DispatchInv

LEMMA DispatchInvariant == RunnerSpec => []DispatchInv
<1>1. RunnerInit => DispatchInv
  <2> SUFFICES ASSUME RunnerInit PROVE DispatchInv
    OBVIOUS
  <2>1. /\ phase = "Executing" /\ processed = 0 /\ emitted = 0 /\ nextSystem = 1
        /\ events = <<>> /\ calls = <<>> /\ event = NoEvent
    BY DEF RunnerInit
  <2>2. /\ <<>> \in Seq(Event) /\ <<>> \in Seq(Nat \X Nat) /\ Len(<<>>) = 0
    BY EmptySeq
  <2>3. QED BY <2>1, <2>2
            DEF DispatchInv, DispatchTypes, QueueOK, EventOK, CallsOK, ServedOK
<1>2. DispatchInv /\ [RunnerNext]_runnerVars => DispatchInv'
  <2> SUFFICES ASSUME DispatchInv, [RunnerNext]_runnerVars PROVE DispatchInv'
    OBVIOUS
  <2>1. ASSUME NEW t \in EventType, HostEmit(t) PROVE DispatchInv'
    BY <2>1, DispatchEmit
  <2>2. CASE PopEvent
    BY <2>2, DispatchPop
  <2>3. CASE OpHalt
    BY <2>3, DispatchHalt
  <2>4. CASE SkipSystem
    BY <2>4, DispatchSkip
  <2>5. CASE \/ OpLocal \/ OpRecv \/ OpRecvEmpty \/ OpPause \/ BudgetExhausted
             \/ OpFault \/ HostWorld \/ HostEmitBorrowed
    <3>1. /\ UNCHANGED <<subscribed, processed, event, nextSystem, events, emitted,
                         calls>>
          /\ phase' \in {"Done", "Executing"} => phase' = phase
      BY <2>5 DEF OpLocal, OpRecv, OpRecvEmpty, OpPause, BudgetExhausted, OpFault,
                  HostWorld, HostEmitBorrowed, NextRound, Free, InFrame, setup,
                  runVars, eventVars
    <3>2. QED BY <3>1, DispatchUnchanged
  <2>6. CASE CallSystem
    <3>1. /\ UNCHANGED <<subscribed, processed, event, nextSystem, events, emitted,
                         calls>>
          /\ phase' = "Executing"
          /\ nextSystem \in Systems /\ subscribed[nextSystem] = event.type
      BY <2>6 DEF CallSystem, setup, eventVars
    <3>2. QED BY <3>1 DEF DispatchInv, DispatchTypes, QueueOK, EventOK, CallsOK,
                          ServedOK
  <2>7. CASE EndEvent
    <3>1. /\ UNCHANGED <<subscribed, processed, nextSystem, events, emitted, calls,
                         phase>>
          /\ event' = NoEvent
      BY <2>7 DEF EndEvent, setup, eventVars
    <3>2. QED BY <3>1 DEF DispatchInv, DispatchTypes, QueueOK, EventOK, CallsOK,
                          ServedOK
  <2>8. CASE Finish
    <3>1. /\ UNCHANGED <<subscribed, processed, event, nextSystem, events, emitted,
                         calls>>
          /\ phase' = "Done" /\ events = <<>> /\ event = NoEvent
      BY <2>8 DEF Finish, setup, eventVars
    <3>2. processed = emitted
      BY <3>1 DEF DispatchInv, DispatchTypes, QueueOK
    <3>3. QED BY <3>1, <3>2 DEF DispatchInv, DispatchTypes, QueueOK, EventOK,
                                CallsOK, ServedOK
  <2>9. CASE UNCHANGED runnerVars
    BY <2>9, DispatchUnchanged DEF runnerVars, setup, runVars, eventVars
  <2>10. QED BY <2>1, <2>2, <2>3, <2>4, <2>5, <2>6, <2>7, <2>8, <2>9 DEF RunnerNext
<1>3. QED BY <1>1, <1>2, PTL DEF RunnerSpec

\* Events reach the systems in the order they were emitted, each event all the
\* systems subscribed to it in the order of the list and none of them twice;
\* none beyond the limit, and all of them if the run ends well.
THEOREM EventsAreDispatchedInOrder == RunnerSpec => []DispatchedInOrder
<1>1. ASSUME DispatchInv PROVE DispatchedInOrder
  <2>1. /\ processed \in Nat /\ Len(events) \in Nat
        /\ \A i \in 1..Len(events) : events[i].number = processed + i
    BY <1>1 DEF DispatchInv, DispatchTypes, QueueOK
  <2>2. \A i \in 1..Len(events) : events[i].number > processed
    BY <2>1
  <2>3. ASSUME NEW n \in 1..Len(events) - 1
        PROVE  events[n].number < events[n + 1].number
    <3>1. n \in 1..Len(events) /\ n + 1 \in 1..Len(events)
      BY <2>1
    <3>2. QED BY <2>1, <3>1
  <2>4. QED BY <1>1, <2>2, <2>3 DEF DispatchInv, CallsOK, ServedOK, DispatchedInOrder
<1>2. QED BY <1>1, DispatchInvariant, PTL

===============================================================================

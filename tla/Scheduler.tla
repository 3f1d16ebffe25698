------------------------------ MODULE Scheduler ------------------------------
(***************************************************************************)
(* The cooperative scheduler of wmvm and the control part of a VM worker.  *)
(*                                                                         *)
(* One host thread owns the Scheduler (`&mut self`), so the host's calls   *)
(* (spawn, wake, deliver) and the rounds never overlap: the host acts when *)
(* no round is in progress.  A round, however, is a long series of steps   *)
(* of several workers - a frame of opcodes each, the routing of what the   *)
(* frame sent, the filing of the worker - and every one is a step here.    *)
(*                                                                         *)
(* What a worker executes is the most general program: any opcode may be   *)
(* next, except that a worker whose pc stands at a `Recv` that found the   *)
(* inbox empty executes that `Recv` again.                                 *)
(***************************************************************************)
EXTENDS Integers, Sequences, FiniteSets

CONSTANTS
    MaxWorkerId,   \* largest id; `next_worker_id` saturates at it (u32::MAX)
    Payload,       \* values a message may carry
    StepBudget,    \* opcodes per frame (`step_limit`, or the config's)
    MaxMail,       \* bound of the model: messages queued for one worker
    MaxQueue       \* bound of the model: no spawn while so many are queued

ASSUME MaxWorkerIdAssumption == MaxWorkerId \in Nat \ {0}
ASSUME StepBudgetAssumption  == StepBudget \in Nat
ASSUME MaxMailAssumption     == MaxMail \in Nat
ASSUME MaxQueueAssumption    == MaxQueue \in Nat

VARIABLES
    workers,       \* ids in the `workers` map
    runnable,      \* queue of ids
    waiting, sleeping, halted, errors,   \* sets of ids
    nextWorkerId,
    vmState,       \* Vm::state of each worker
    atRecv,        \* workers whose pc was rewound to a Recv
    inbox, outbox, \* message queues of each Vm
    left,          \* iterations of the round's loop still to start
    running,       \* worker popped by the current iteration, or NoWorker
    steps,         \* opcodes executed in the current frame
    outcome,       \* outcome of the current frame, or "None"
    plan,          \* history: the runnable queue as the round found it
    ran,           \* history: workers run so far in this round, in order
    reissued       \* history: ids spawn handed out a second time

queues    == <<runnable, waiting, sleeping, halted, errors>>
vmVars    == <<vmState, atRecv, inbox, outbox>>
roundVars == <<left, running, steps, outcome, plan, ran>>
vars      == <<workers, nextWorkerId, reissued, queues, vmVars, roundVars>>

WorkerId == 1..MaxWorkerId
Host     == 0     \* worker id of a VM that no scheduler owns
NoWorker == 0

Message  == [from : WorkerId \cup {Host}, to : WorkerId, payload : Payload]
VmStates == {"Idle", "Running", "WaitingMessage", "Sleeping", "Halted", "Error"}
Outcomes == {"StepLimitReached", "Yielded", "Sleeping", "WaitingMessage",
             "Halted", "Error"}

Elements(q) == {q[i] : i \in 1..Len(q)}
Without(w)  == /\ waiting'  = waiting \ {w}
               /\ sleeping' = sleeping \ {w}
               /\ halted'   = halted \ {w}
               /\ errors'   = errors \ {w}

----------------------------------------------------------------------------

Init ==
    /\ workers = {} /\ nextWorkerId = 1
    /\ runnable = <<>>
    /\ waiting = {} /\ sleeping = {} /\ halted = {} /\ errors = {}
    /\ vmState = [w \in WorkerId |-> "Idle"]
    /\ atRecv = {}
    /\ inbox  = [w \in WorkerId |-> <<>>]
    /\ outbox = [w \in WorkerId |-> <<>>]
    /\ left = 0 /\ running = NoWorker /\ steps = 0 /\ outcome = "None"
    /\ plan = <<>> /\ ran = <<>>
    /\ reissued = {}

\* The scheduler is not borrowed by a round: the host may call it.
BetweenRounds == left = 0 /\ running = NoWorker

\* Starts over at the first id.
Saturating__Wraps(n) == IF n < MaxWorkerId THEN n + 1 ELSE 1

Saturating(n) == IF n < MaxWorkerId THEN n + 1 ELSE MaxWorkerId

(***************************************************************************)
(* Calls of the host.                                                      *)
(***************************************************************************)

\* A fresh VM under the next id.  The counter saturates: once the last id is
\* given out, every spawn gives it out again, and `insert` puts the new VM in
\* the place of the worker that had it, whose id stays wherever it was filed.
Spawn ==
    /\ BetweenRounds
    /\ Len(runnable) < MaxQueue
    /\ nextWorkerId' = Saturating(nextWorkerId)
    /\ workers'  = workers \cup {nextWorkerId}
    /\ reissued' = reissued \cup ({nextWorkerId} \cap workers)
    /\ runnable' = Append(runnable, nextWorkerId)
    /\ vmState'  = [vmState EXCEPT ![nextWorkerId] = "Idle"]
    /\ atRecv'   = atRecv \ {nextWorkerId}
    /\ inbox'    = [inbox EXCEPT ![nextWorkerId] = <<>>]
    /\ outbox'   = [outbox EXCEPT ![nextWorkerId] = <<>>]
    /\ UNCHANGED <<waiting, sleeping, halted, errors, roundVars>>

\* Wrong on purpose (as every definition with a `__`): forgets a waiting VM.
WokenState__OnlySleeping(s) == IF s = "Sleeping" THEN "Idle" ELSE s

\* Revives whatever it is given.
WokenState__Any(s) == "Idle"

\* Vm::wake revives a sleeping or a waiting VM only; the scheduler requeues
\* the worker whatever its state.
WokenState(s) == IF s \in {"Sleeping", "WaitingMessage"} THEN "Idle" ELSE s

\* Takes the wake for the end of the wait.
Wake__EndsRecv(w) ==
    /\ BetweenRounds
    /\ w \in workers
    /\ Without(w)
    /\ vmState' = [vmState EXCEPT ![w] = WokenState(@)]
    /\ runnable' = IF w \in Elements(runnable) THEN runnable
                                               ELSE Append(runnable, w)
    /\ atRecv' = atRecv \ {w}
    /\ UNCHANGED <<workers, nextWorkerId, reissued, inbox, outbox, roundVars>>

Wake(w) ==
    /\ BetweenRounds
    /\ w \in workers
    /\ Without(w)
    /\ vmState' = [vmState EXCEPT ![w] = WokenState(@)]
    /\ runnable' = IF w \in Elements(runnable) THEN runnable
                                               ELSE Append(runnable, w)
    /\ UNCHANGED <<workers, nextWorkerId, reissued, atRecv, inbox, outbox, roundVars>>

\* Queues every receiver.
DeliverTo__AlwaysQueues(m) ==
    IF m.to \in workers
    THEN /\ inbox' = [inbox EXCEPT ![m.to] = Append(@, m)]
         /\ waiting' = waiting \ {m.to}
         /\ runnable' = Append(runnable, m.to)
    ELSE UNCHANGED <<inbox, waiting, runnable>>

\* Leaves a waiting receiver where it is.
DeliverTo__NeverQueues(m) ==
    IF m.to \in workers
    THEN /\ inbox' = [inbox EXCEPT ![m.to] = Append(@, m)]
         /\ UNCHANGED <<waiting, runnable>>
    ELSE UNCHANGED <<inbox, waiting, runnable>>

\* Scheduler::deliver: a message for an unknown worker is dropped; a waiting
\* receiver joins the end of the queue, any other just keeps the message.
DeliverTo(m) ==
    IF m.to \in workers
    THEN /\ inbox' = [inbox EXCEPT ![m.to] = Append(@, m)]
         /\ waiting' = waiting \ {m.to}
         /\ runnable' = IF m.to \in waiting THEN Append(runnable, m.to)
                                            ELSE runnable
    ELSE UNCHANGED <<inbox, waiting, runnable>>

Deliver(m) ==
    /\ BetweenRounds
    /\ Len(inbox[m.to]) < MaxMail
    /\ DeliverTo(m)
    /\ UNCHANGED <<workers, nextWorkerId, reissued, sleeping, halted, errors,
                   vmState, atRecv, outbox, roundVars>>

(***************************************************************************)
(* Scheduler::run_round.                                                   *)
(***************************************************************************)

BeginRound ==
    /\ BetweenRounds
    /\ runnable # <<>>
    /\ left' = Len(runnable)
    /\ plan' = runnable /\ ran' = <<>>
    /\ UNCHANGED <<workers, nextWorkerId, reissued, queues, vmVars, running, steps, outcome>>

\* Returns the state of a stopped or a fresh VM as its outcome.
EarlyOutcome__AnyState(w) ==
    IF vmState[w] = "WaitingMessage" /\ inbox[w] # <<>> THEN "None" ELSE vmState[w]

\* How Vm::run_frame returns before it executes an opcode, or "None".
EarlyOutcome(w) ==
    IF vmState[w] \in {"Halted", "Error", "Sleeping"} THEN vmState[w]
    ELSE IF vmState[w] = "WaitingMessage" /\ inbox[w] = <<>> THEN "WaitingMessage"
    ELSE "None"

PopRunnable ==
    /\ left > 0 /\ running = NoWorker
    /\ runnable # <<>>
    /\ LET w == Head(runnable) IN
       /\ runnable' = Tail(runnable)
       /\ left' = left - 1
       /\ running' = w
       /\ steps' = 0
       /\ outcome' = EarlyOutcome(w)
       /\ vmState' = IF EarlyOutcome(w) = "None"
                     THEN [vmState EXCEPT ![w] = "Running"] ELSE vmState
    /\ UNCHANGED <<workers, nextWorkerId, reissued, waiting, sleeping, halted, errors,
                   atRecv, inbox, outbox, plan, ran>>

\* The frame of `running` may execute an opcode.
InFrame == running # NoWorker /\ outcome = "None" /\ steps < StepBudget

FrameUnchanged == UNCHANGED <<workers, nextWorkerId, reissued, queues, left, running, plan, ran>>

\* The frame ends with outcome o and leaves the VM in state s.
EndFrame(o, s) == outcome' = o /\ vmState' = [vmState EXCEPT ![running] = s]

\* Any opcode that neither touches messages nor ends the frame.
OpLocal ==
    /\ InFrame /\ running \notin atRecv
    /\ steps' = steps + 1
    /\ FrameUnchanged /\ UNCHANGED <<vmVars, outcome>>

OpSend(to, p) ==
    /\ InFrame /\ running \notin atRecv
    /\ Len(inbox[to]) + Len(outbox[running]) < MaxMail
    /\ outbox' = [outbox EXCEPT ![running] =
                    Append(@, [from |-> running, to |-> to, payload |-> p])]
    /\ steps' = steps + 1
    /\ FrameUnchanged /\ UNCHANGED <<vmState, atRecv, inbox, outcome>>

\* Recv with a message takes it ...
OpRecv ==
    /\ InFrame
    /\ inbox[running] # <<>>
    /\ inbox' = [inbox EXCEPT ![running] = Tail(@)]
    /\ atRecv' = atRecv \ {running}
    /\ steps' = steps + 1
    /\ FrameUnchanged /\ UNCHANGED <<vmState, outbox, outcome>>

\* ... and without one ends the frame and rewinds the pc to itself.
OpRecvEmpty ==
    /\ InFrame
    /\ inbox[running] = <<>>
    /\ atRecv' = atRecv \cup {running}
    /\ steps' = steps + 1
    /\ EndFrame("WaitingMessage", "WaitingMessage")
    /\ FrameUnchanged /\ UNCHANGED <<inbox, outbox>>

\* TryRecv with an empty inbox is an OpLocal: it pushes Nil.
OpTryRecv ==
    /\ InFrame /\ running \notin atRecv
    /\ inbox[running] # <<>>
    /\ inbox' = [inbox EXCEPT ![running] = Tail(@)]
    /\ steps' = steps + 1
    /\ FrameUnchanged /\ UNCHANGED <<vmState, atRecv, outbox, outcome>>

\* Yield, Sleep, a return from the entry function, an error: frame over.
OpEnd(o, s) ==
    /\ InFrame /\ running \notin atRecv
    /\ steps' = IF o = "Error" THEN steps ELSE steps + 1
    /\ EndFrame(o, s)
    /\ FrameUnchanged /\ UNCHANGED <<atRecv, inbox, outbox>>

OpYield == OpEnd("Yielded", "Idle")
OpSleep == OpEnd("Sleeping", "Sleeping")
OpHalt  == OpEnd("Halted", "Halted")
OpFault == OpEnd("Error", "Error")

BudgetExhausted ==
    /\ running # NoWorker /\ outcome = "None" /\ steps >= StepBudget
    /\ EndFrame("StepLimitReached", "Idle")
    /\ FrameUnchanged /\ UNCHANGED <<steps, atRecv, inbox, outbox>>

\* Routes the newest message first.
RouteOutbox__NewestFirst ==
    /\ running # NoWorker /\ outcome # "None"
    /\ outbox[running] # <<>>
    /\ LET n == Len(outbox[running]) IN
       /\ DeliverTo(outbox[running][n])
       /\ outbox' = [outbox EXCEPT ![running] = SubSeq(@, 1, n - 1)]
    /\ UNCHANGED <<workers, nextWorkerId, reissued, sleeping, halted, errors,
                   vmState, atRecv, roundVars>>

\* Scheduler::route_outbox, one message at a time.
RouteOutbox ==
    /\ running # NoWorker /\ outcome # "None"
    /\ outbox[running] # <<>>
    /\ DeliverTo(Head(outbox[running]))
    /\ outbox' = [outbox EXCEPT ![running] = Tail(@)]
    /\ UNCHANGED <<workers, nextWorkerId, reissued, sleeping, halted, errors,
                   vmState, atRecv, roundVars>>

\* The set a worker is filed in: kept where it was if the outcome is the
\* set's own, and out of the others.
Filed(set, o) == IF outcome = o THEN set \cup {running} ELSE set \ {running}

\* Requeues at the front.
Reconcile__ToFront ==
    /\ running # NoWorker /\ outcome # "None"
    /\ outbox[running] = <<>>
    /\ waiting'  = Filed(waiting, "WaitingMessage")
    /\ sleeping' = Filed(sleeping, "Sleeping")
    /\ halted'   = Filed(halted, "Halted")
    /\ errors'   = Filed(errors, "Error")
    /\ runnable' = IF outcome \in {"StepLimitReached", "Yielded"}
                   THEN <<running>> \o runnable ELSE runnable
    /\ running' = NoWorker /\ outcome' = "None" /\ steps' = 0
    /\ plan' = IF left = 0 THEN <<>> ELSE plan
    /\ ran'  = IF left = 0 THEN <<>> ELSE Append(ran, running)
    /\ UNCHANGED <<workers, nextWorkerId, reissued, vmVars, left>>

\* Does not route what a failed frame sent.
Reconcile__SkipsRouting ==
    /\ running # NoWorker /\ outcome # "None"
    /\ outbox[running] = <<>> \/ outcome = "Error"
    /\ waiting'  = Filed(waiting, "WaitingMessage")
    /\ sleeping' = Filed(sleeping, "Sleeping")
    /\ halted'   = Filed(halted, "Halted")
    /\ errors'   = Filed(errors, "Error")
    /\ runnable' = IF outcome \in {"StepLimitReached", "Yielded"}
                   THEN Append(runnable, running) ELSE runnable
    /\ running' = NoWorker /\ outcome' = "None" /\ steps' = 0
    /\ plan' = IF left = 0 THEN <<>> ELSE plan
    /\ ran'  = IF left = 0 THEN <<>> ELSE Append(ran, running)
    /\ UNCHANGED <<workers, nextWorkerId, reissued, vmVars, left>>

\* Scheduler::reconcile, and the push to the round's outcomes.
Reconcile ==
    /\ running # NoWorker /\ outcome # "None"
    /\ outbox[running] = <<>>
    /\ waiting'  = Filed(waiting, "WaitingMessage")
    /\ sleeping' = Filed(sleeping, "Sleeping")
    /\ halted'   = Filed(halted, "Halted")
    /\ errors'   = Filed(errors, "Error")
    /\ runnable' = IF outcome \in {"StepLimitReached", "Yielded"}
                   THEN Append(runnable, running) ELSE runnable
    /\ running' = NoWorker /\ outcome' = "None" /\ steps' = 0
    /\ plan' = IF left = 0 THEN <<>> ELSE plan
    /\ ran'  = IF left = 0 THEN <<>> ELSE Append(ran, running)
    /\ UNCHANGED <<workers, nextWorkerId, reissued, vmVars, left>>

----------------------------------------------------------------------------

HostCall ==
    \/ Spawn
    \/ \E w \in WorkerId : Wake(w)
    \/ \E w \in WorkerId, p \in Payload :
          Deliver([from |-> Host, to |-> w, payload |-> p])

Opcode ==
    \/ OpLocal \/ OpRecv \/ OpRecvEmpty \/ OpTryRecv
    \/ \E w \in WorkerId, p \in Payload : OpSend(w, p)
    \/ OpYield \/ OpSleep \/ OpHalt \/ OpFault

\* The steps of run_round, which, once called, runs to its end.
RoundStep ==
    \/ BeginRound \/ PopRunnable
    \/ Opcode \/ BudgetExhausted
    \/ RouteOutbox \/ Reconcile

Next == HostCall \/ RoundStep

Spec == Init /\ [][Next]_vars

(***************************************************************************)
(* The host keeps ticking while something is runnable (run_until_idle and  *)
(* the game loops do), and a round that has begun is a plain loop.  The    *)
(* host owes the workers no wake and no message.                           *)
(***************************************************************************)
Fairness == WF_vars(RoundStep)
FairSpec == Spec /\ Fairness

----------------------------------------------------------------------------

TypeOK ==
    /\ workers \subseteq WorkerId
    /\ nextWorkerId \in WorkerId
    /\ runnable \in Seq(WorkerId)
    /\ waiting \subseteq WorkerId /\ sleeping \subseteq WorkerId
    /\ halted \subseteq WorkerId /\ errors \subseteq WorkerId
    /\ vmState \in [WorkerId -> VmStates]
    /\ atRecv \subseteq WorkerId
    /\ inbox \in [WorkerId -> Seq(Message)]
    /\ outbox \in [WorkerId -> Seq(Message)]
    /\ left \in Nat
    /\ running \in WorkerId \cup {NoWorker}
    /\ steps \in Nat
    /\ outcome \in Outcomes \cup {"None"}
    /\ plan \in Seq(WorkerId) /\ ran \in Seq(WorkerId)
    /\ reissued \subseteq WorkerId

(***************************************************************************)
(* Where a worker is filed.                                                *)
(***************************************************************************)

Parked == waiting \cup sleeping \cup halted \cup errors

\* No id is queued twice, whatever wakes, deliveries and turns came in what
\* order (`deliver` pushes without looking; `wake` looks first), but one that
\* was handed out twice.
QueuedOnce ==
    \A i, j \in 1..Len(runnable) :
        runnable[i] = runnable[j] /\ runnable[i] \notin reissued => i = j

\* A worker is in one place.  An id that was handed out twice is filed for both
\* its workers: it may be queued (more than once), running and parked at a
\* time, but parked in one set only.
InOnePlace ==
    /\ QueuedOnce
    /\ Elements(runnable) \cap Parked \subseteq reissued
    /\ waiting \cap sleeping = {} /\ waiting \cap halted = {}
    /\ waiting \cap errors = {} /\ sleeping \cap halted = {}
    /\ sleeping \cap errors = {} /\ halted \cap errors = {}
    /\ running \in Elements(runnable) \cup Parked => running \in reissued
    /\ workers = Elements(runnable) \cup Parked \cup ({running} \ {NoWorker})

\* The counter runs out without touching anybody but the last worker: the id
\* a spawn hands out is fresh, or the largest there is.
LastIdReissued ==
    /\ reissued \subseteq {MaxWorkerId}
    /\ nextWorkerId \in workers => nextWorkerId = MaxWorkerId

\* A worker is in exactly one place: the queue, one of the four parking sets
\* or the running slot.  None is lost between the steps of a round, none is
\* in two places, and nothing but a spawned worker is anywhere - but for the
\* last id, once the counter has run out and handed it out again.
FiledOnce == InOnePlace /\ LastIdReissued

\* The ids handed out are the ids below the next one, or all.
IdsInUse ==
    /\ \/ workers = 1..(nextWorkerId - 1)
       \/ nextWorkerId = MaxWorkerId /\ workers = WorkerId
    /\ reissued \subseteq workers \cap {MaxWorkerId}

\* The set a worker is parked in is the state its VM is in, and a queued
\* worker has something to do: it is not asleep, and if it was left at a Recv
\* there is a message for it.  `worker_state` reports the VM's state, the
\* rounds follow the sets: they may not drift apart, as long as the id is one
\* worker's.
FiledAsItIs ==
    /\ \A w \in waiting \ reissued  : vmState[w] = "WaitingMessage" /\ w \in atRecv
    /\ \A w \in sleeping \ reissued : vmState[w] = "Sleeping"
    /\ \A w \in halted \ reissued   : vmState[w] = "Halted"
    /\ \A w \in errors \ reissued   : vmState[w] = "Error"
    /\ \A w \in Elements(runnable) \ reissued :
          /\ vmState[w] \in {"Idle", "WaitingMessage", "Halted", "Error"}
          /\ vmState[w] = "WaitingMessage" => inbox[w] # <<>>

\* No wake-up is lost between workers: a worker parked in `waiting` holds no
\* message of the host's or of another worker's.  Its own messages are the
\* exception (see MailResumesWaiter).
WaitingMailIsOwn ==
    \A w \in waiting : \A i \in 1..Len(inbox[w]) : inbox[w][i].from = w

\* A message is never left behind in the outbox of a worker that is not
\* running: a frame that ends in an error or at a Recv is routed like any
\* other, and a snapshot between rounds holds every message in an inbox.
OutboxRouted == \A w \in WorkerId : w # running => outbox[w] = <<>>

(***************************************************************************)
(* Rounds.                                                                 *)
(***************************************************************************)

\* A round runs the workers it found runnable, each once and in queue order;
\* what is queued or requeued during the round waits for the next one.
RoundRunsPlan ==
    ~BetweenRounds =>
        plan = ran \o (IF running = NoWorker THEN <<>> ELSE <<running>>)
                   \o SubSeq(runnable, 1, left)

\* A worker gets past a Recv only by taking the head of its inbox: neither a
\* wake nor a new frame makes it skip the receive.  (Only a worker whose VM a
\* saturated spawn replaces gets out otherwise.)
RecvTakesMessage ==
    [][\A w \in atRecv \ reissued' :
          w \notin atRecv' => /\ inbox[w] # <<>>
                              /\ inbox'[w] = Tail(inbox[w])]_vars

\* A VM that halted or failed never executes again, though wake() requeues it
\* and a round gives it turns, unless a saturated spawn replaces it.
StoppedStaysStopped ==
    [][\A w \in WorkerId \ reissued' : vmState[w] \in {"Halted", "Error"} =>
          /\ vmState'[w] = vmState[w]
          /\ outbox[w] = <<>> => outbox'[w] = <<>>
          /\ Len(inbox'[w]) >= Len(inbox[w])]_vars

(***************************************************************************)
(* Liveness, under FairSpec.                                               *)
(***************************************************************************)

\* Round-robin starves nobody: whatever other workers do in their frames, a
\* queued worker gets its turn.
EveryTurnComes ==
    \A w \in WorkerId : w \in Elements(runnable) ~> running = w

\* A message from the host or from another worker ends the wait at a Recv.
OthersMailResumesWaiter ==
    \A w \in WorkerId :
        (w \in atRecv /\ \E i \in 1..Len(inbox[w]) : inbox[w][i].from # w)
            ~> w \notin atRecv

\* Any message that is there ends the wait at a Recv.  SPEC/scheduler.md says
\* so of every message that reaches a waiting task; it fails for a message
\* the worker sent to itself in the frame that ended at the Recv.
MailResumesWaiter ==
    \A w \in WorkerId : (w \in atRecv /\ inbox[w] # <<>>) ~> w \notin atRecv

=============================================================================

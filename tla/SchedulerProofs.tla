--------------------------- MODULE SchedulerProofs ---------------------------
(***************************************************************************)
(* What the scheduler's safety rests on, and that it implements Mailboxes, *)
(* for any number of workers, any step budget and any mailbox bound.       *)
(***************************************************************************)
EXTENDS SchedulerRefinement, Numbers, SequenceTheorems, TLAPS

(***************************************************************************)
(* Lemmas on the queue of worker ids.                                      *)
(***************************************************************************)

\* Joining sequences is associative.
Associates(T) == \A a, b, c \in Seq(T) : (a \o b) \o c = a \o (b \o c)

LEMMA Associative == ASSUME NEW T PROVE Associates(T)
<1>1. ASSUME NEW a \in Seq(T), NEW b \in Seq(T), NEW c \in Seq(T)
      PROVE  (a \o b) \o c = a \o (b \o c)
  BY ConcatAssociative
<1>2. QED BY <1>1 DEF Associates

\* Appending adds one element.
LEMMA ElementsAppend ==
    ASSUME NEW S, NEW q \in Seq(S), NEW e \in S
    PROVE  /\ Append(q, e) \in Seq(S)
           /\ Elements(Append(q, e)) = Elements(q) \cup {e}
<1>1. Append(q, e) \in Seq(S) /\ Len(Append(q, e)) = Len(q) + 1
  OBVIOUS
<1>2. ASSUME NEW x \in Elements(Append(q, e))
      PROVE  x \in Elements(q) \cup {e}
  BY <1>1 DEF Elements
<1>3. ASSUME NEW x \in Elements(q) \cup {e}
      PROVE  x \in Elements(Append(q, e))
  <2>1. CASE x = e
    <3>1. Append(q, e)[Len(q) + 1] = e /\ Len(q) + 1 \in 1..Len(Append(q, e))
      BY <1>1
    <3>2. QED BY <2>1, <3>1 DEF Elements
  <2>2. CASE x \in Elements(q)
    <3>1. PICK i \in 1..Len(q) : x = q[i]
      BY <2>2 DEF Elements
    <3>2. i \in 1..Len(Append(q, e)) /\ Append(q, e)[i] = x
      BY <1>1, <3>1
    <3>3. QED BY <3>2 DEF Elements
  <2>3. QED BY <1>3, <2>1, <2>2
<1>4. QED BY <1>1, <1>2, <1>3

\* What was appended to is not empty.
LEMMA AppendNotEmpty ==
    ASSUME NEW S, NEW q \in Seq(S), NEW e \in S
    PROVE  Append(q, e) # <<>>
<1>1. Len(Append(q, e)) = Len(q) + 1 /\ Len(q) \in Nat
  OBVIOUS
<1>2. Len(<<>>) = 0
  OBVIOUS
<1>3. QED BY <1>1, <1>2

\* A queue in which only the ids of R are repeated.
Once(q, R) ==
    \A i, j \in 1..Len(q) : q[i] = q[j] /\ q[i] \notin R => i = j

\* The tail of a queue is the queue less its head, unless the head is repeated.
LEMMA ElementsTail ==
    ASSUME NEW S, NEW R, NEW q \in Seq(S), q # <<>>, Once(q, R)
    PROVE  /\ Head(q) \in S /\ Head(q) \in Elements(q)
           /\ Tail(q) \in Seq(S)
           /\ Elements(Tail(q)) \cup {Head(q)} = Elements(q)
           /\ Head(q) \in Elements(Tail(q)) => Head(q) \in R
           /\ Once(Tail(q), R)
<1>1. /\ Tail(q) \in Seq(S) /\ Len(Tail(q)) = Len(q) - 1 /\ Len(q) > 0
      /\ Head(q) = q[1] /\ Head(q) \in S
      /\ \A i \in 1..Len(Tail(q)) : Tail(q)[i] = q[i + 1]
  OBVIOUS
<1>2. Head(q) \in Elements(q)
  BY <1>1 DEF Elements
<1>3. Once(Tail(q), R)
  <2>1. SUFFICES ASSUME NEW i \in 1..Len(Tail(q)), NEW j \in 1..Len(Tail(q)),
                        Tail(q)[i] = Tail(q)[j], Tail(q)[i] \notin R
                 PROVE  i = j
    BY DEF Once
  <2>2. /\ i + 1 \in 1..Len(q) /\ j + 1 \in 1..Len(q) /\ q[i + 1] = q[j + 1]
        /\ q[i + 1] \notin R
    BY <1>1, <2>1
  <2>3. i + 1 = j + 1
    BY <2>2 DEF Once
  <2>4. QED BY <2>3
<1>4. ASSUME NEW x \in Elements(Tail(q))
      PROVE  x \in Elements(q) /\ (x = Head(q) => x \in R)
  <2>1. PICK i \in 1..Len(Tail(q)) : x = Tail(q)[i]
    BY DEF Elements
  <2>2. i + 1 \in 1..Len(q) /\ x = q[i + 1] /\ i + 1 # 1 /\ 1 \in 1..Len(q)
    BY <1>1, <2>1
  <2>3. x = Head(q) => x \in R
    BY <1>1, <2>2 DEF Once
  <2>4. QED BY <2>2, <2>3 DEF Elements
<1>5. ASSUME NEW x \in Elements(q), x # Head(q)
      PROVE  x \in Elements(Tail(q))
  <2>1. PICK i \in 1..Len(q) : x = q[i]
    BY DEF Elements
  <2>2. i # 1
    BY <1>1, <2>1, <1>5
  <2>3. i - 1 \in 1..Len(Tail(q)) /\ Tail(q)[i - 1] = x
    BY <1>1, <2>1, <2>2
  <2>4. QED BY <2>3 DEF Elements
<1>6. QED BY <1>1, <1>2, <1>3, <1>4, <1>5

\* Appending an id that is not queued, or of R, repeats no other.
LEMMA AppendFresh ==
    ASSUME NEW S, NEW R, NEW q \in Seq(S), NEW e \in S,
           e \in Elements(q) => e \in R, Once(q, R)
    PROVE  Once(Append(q, e), R)
<1>1. /\ Len(Append(q, e)) = Len(q) + 1 /\ Len(q) \in Nat
      /\ \A i \in 1..Len(q) : Append(q, e)[i] = q[i] /\ (q[i] = e => e \in R)
      /\ Append(q, e)[Len(q) + 1] = e
  BY DEF Elements
<1>2. SUFFICES ASSUME NEW i \in 1..(Len(q) + 1), NEW j \in 1..(Len(q) + 1),
                      Append(q, e)[i] = Append(q, e)[j],
                      Append(q, e)[i] \notin R
               PROVE  i = j
  BY <1>1 DEF Once
<1>3. CASE i \in 1..Len(q) /\ j \in 1..Len(q)
  BY <1>1, <1>2, <1>3 DEF Once
<1>4. CASE i = Len(q) + 1 \/ j = Len(q) + 1
  BY <1>1, <1>2, <1>4
<1>5. QED BY <1>1, <1>2, <1>3, <1>4

(***************************************************************************)
(* Type correctness.                                                       *)
(***************************************************************************)

\* Delivering a well-typed message keeps what it touches well typed.
LEMMA DeliverToType ==
    ASSUME TypeOK, NEW m \in Message, DeliverTo(m)
    PROVE  /\ inbox' \in [WorkerId -> Seq(Message)]
           /\ waiting' \subseteq WorkerId
           /\ runnable' \in Seq(WorkerId)
<1>1. m.to \in WorkerId
  BY DEF Message
<1>2. Append(inbox[m.to], m) \in Seq(Message)
  BY <1>1 DEF TypeOK
<1>3. Append(runnable, m.to) \in Seq(WorkerId)
  BY <1>1 DEF TypeOK
<1>4. QED BY <1>1, <1>2, <1>3 DEF TypeOK, DeliverTo

\* The variables keep their types: in particular `next_worker_id` never leaves
\* the ids, and only ids of workers are ever queued or parked.
THEOREM TypeCorrect == Spec => []TypeOK
<1>1. Init => TypeOK
  BY MaxWorkerIdAssumption DEF Init, TypeOK, WorkerId, VmStates, Message
<1>2. TypeOK /\ [Next]_vars => TypeOK'
  <2> SUFFICES ASSUME TypeOK, [Next]_vars PROVE TypeOK'
    OBVIOUS
  <2>1. CASE Spawn
    <3>1. Saturating(nextWorkerId) \in WorkerId
      BY MaxWorkerIdAssumption DEF TypeOK, WorkerId, Saturating
    <3>2. Append(runnable, nextWorkerId) \in Seq(WorkerId)
      BY DEF TypeOK
    <3>3. /\ <<>> \in Seq(Message) /\ "Idle" \in VmStates
          /\ nextWorkerId \in WorkerId
      BY DEF TypeOK, VmStates
    <3>4. /\ vmState' \in [WorkerId -> VmStates]
          /\ inbox' \in [WorkerId -> Seq(Message)]
          /\ outbox' \in [WorkerId -> Seq(Message)]
          /\ atRecv' \subseteq WorkerId /\ reissued' \subseteq WorkerId
      BY <2>1, <3>3 DEF Spawn, TypeOK
    <3>5. QED BY <2>1, <3>1, <3>2, <3>3, <3>4 DEF Spawn, TypeOK, roundVars
  <2>2. ASSUME NEW w \in WorkerId, Wake(w) PROVE TypeOK'
    <3>1. Append(runnable, w) \in Seq(WorkerId)
      BY DEF TypeOK
    <3>2. WokenState(vmState[w]) \in VmStates
      BY DEF TypeOK, WokenState, VmStates
    <3>3. QED BY <2>2, <3>1, <3>2 DEF Wake, Without, TypeOK, roundVars
  <2>3. ASSUME NEW w \in WorkerId, NEW p \in Payload,
               Deliver([from |-> Host, to |-> w, payload |-> p])
        PROVE  TypeOK'
    <3>1. [from |-> Host, to |-> w, payload |-> p] \in Message
      BY DEF Message
    <3>2. QED BY <2>3, <3>1, DeliverToType DEF Deliver, TypeOK, roundVars
  <2>4. CASE BeginRound
    <3>1. Len(runnable) \in Nat /\ <<>> \in Seq(WorkerId)
      BY DEF TypeOK
    <3>2. QED BY <2>4, <3>1 DEF BeginRound, TypeOK, queues, vmVars
  <2>5. CASE PopRunnable
    <3>1. Head(runnable) \in WorkerId /\ Tail(runnable) \in Seq(WorkerId)
      BY <2>5 DEF PopRunnable, TypeOK
    <3>2. EarlyOutcome(Head(runnable)) \in Outcomes \cup {"None"}
      BY DEF EarlyOutcome, Outcomes
    <3>3. left - 1 \in Nat /\ "Running" \in VmStates
      BY <2>5 DEF PopRunnable, TypeOK, VmStates
    <3>4. QED BY <2>5, <3>1, <3>2, <3>3 DEF PopRunnable, TypeOK
  <2>6. CASE OpLocal
    BY <2>6 DEF OpLocal, InFrame, FrameUnchanged, TypeOK, queues, vmVars
  <2>7. CASE OpRecv \/ OpTryRecv
    <3>1. running \in WorkerId /\ Tail(inbox[running]) \in Seq(Message)
      BY <2>7 DEF OpRecv, OpTryRecv, InFrame, TypeOK
    <3>2. [inbox EXCEPT ![running] = Tail(inbox[running])]
             \in [WorkerId -> Seq(Message)]
      BY <3>1 DEF TypeOK
    <3>3. inbox' = [inbox EXCEPT ![running] = Tail(inbox[running])]
      BY <2>7 DEF OpRecv, OpTryRecv
    <3>4. atRecv' \in {atRecv, atRecv \ {running}} /\ steps' = steps + 1
      BY <2>7 DEF OpRecv, OpTryRecv
    <3>5. UNCHANGED <<workers, nextWorkerId, reissued, queues, vmState, outbox, left,
                      running, outcome, plan, ran>>
      BY <2>7 DEF OpRecv, OpTryRecv, FrameUnchanged
    <3>6. QED BY <3>2, <3>3, <3>4, <3>5 DEF TypeOK, queues
  <2>8. CASE OpRecvEmpty
    <3>1. running \in WorkerId
      BY <2>8 DEF OpRecvEmpty, InFrame, TypeOK
    <3>2. QED BY <2>8, <3>1 DEF OpRecvEmpty, InFrame, EndFrame,
                  FrameUnchanged, TypeOK, queues, VmStates, Outcomes
  <2>9. ASSUME NEW w \in WorkerId, NEW p \in Payload, OpSend(w, p)
        PROVE  TypeOK'
    <3>1. running \in WorkerId
      BY <2>9 DEF OpSend, InFrame, TypeOK
    <3>2. [from |-> running, to |-> w, payload |-> p] \in Message
      BY <3>1 DEF Message
    <3>3. Append(outbox[running], [from |-> running, to |-> w, payload |-> p])
             \in Seq(Message)
      BY <3>1, <3>2 DEF TypeOK
    <3>4. QED BY <2>9, <3>1, <3>3
          DEF OpSend, InFrame, FrameUnchanged, TypeOK, queues
  <2>10. ASSUME NEW o \in Outcomes, NEW t \in VmStates, OpEnd(o, t)
         PROVE  TypeOK'
    <3>1. running \in WorkerId
      BY <2>10 DEF OpEnd, InFrame, TypeOK
    <3>2. QED BY <2>10, <3>1, SMTT(30)
          DEF OpEnd, InFrame, EndFrame, FrameUnchanged, TypeOK, queues
  <2>11. CASE BudgetExhausted
    <3>1. running \in WorkerId
      BY <2>11 DEF BudgetExhausted, TypeOK
    <3>2. QED BY <2>11, <3>1 DEF BudgetExhausted, EndFrame, FrameUnchanged,
                  TypeOK, queues, VmStates, Outcomes
  <2>12. CASE RouteOutbox
    <3>1. /\ running \in WorkerId
          /\ Head(outbox[running]) \in Message
          /\ Tail(outbox[running]) \in Seq(Message)
      BY <2>12 DEF RouteOutbox, TypeOK
    <3>2. QED BY <2>12, <3>1, DeliverToType DEF RouteOutbox, TypeOK, roundVars
  <2>13. CASE Reconcile
    <3>1. running \in WorkerId
      BY <2>13 DEF Reconcile, TypeOK
    <3>2. /\ Append(runnable, running) \in Seq(WorkerId)
          /\ Append(ran, running) \in Seq(WorkerId)
          /\ <<>> \in Seq(WorkerId)
      BY <3>1 DEF TypeOK
    <3>3. QED BY <2>13, <3>1, <3>2 DEF Reconcile, Filed, TypeOK, vmVars
  <2>14. CASE UNCHANGED vars
    BY <2>14 DEF TypeOK, vars, queues, vmVars, roundVars
  <2>15. OpYield \/ OpSleep \/ OpHalt \/ OpFault =>
            \E o \in Outcomes, t \in VmStates : OpEnd(o, t)
    BY DEF OpYield, OpSleep, OpHalt, OpFault, Outcomes, VmStates
  <2>16. QED BY <2>1, <2>2, <2>3, <2>4, <2>5, <2>6, <2>7, <2>8, <2>9, <2>10,
                <2>11, <2>12, <2>13, <2>14, <2>15
             DEF Next, HostCall, RoundStep, Opcode
<1>3. QED BY <1>1, <1>2, PTL DEF Spec

(***************************************************************************)
(* Every worker is filed in exactly one place.                             *)
(*                                                                         *)
(* InOnePlace alone is not inductive: Spawn queues an id, and only IdsInUse *)
(* says that it is nobody's, or the last one, which it notes as reissued.  *)
(***************************************************************************)

FilingInv == TypeOK /\ IdsInUse /\ InOnePlace

\* The queue of a filed scheduler repeats reissued ids only.
LEMMA QueueOnce ==
    ASSUME FilingInv
    PROVE  runnable \in Seq(WorkerId) /\ Once(runnable, reissued)
BY DEF FilingInv, TypeOK, InOnePlace, QueuedOnce, Once

\* The parking sets, and the queue, of the ids.
LEMMA Members ==
    ASSUME FilingInv
    PROVE  /\ NoWorker \notin WorkerId
           /\ workers \subseteq WorkerId
           /\ Elements(runnable) \subseteq workers /\ Parked \subseteq workers
           /\ running # NoWorker => running \in workers
           /\ NoWorker \notin Elements(runnable) /\ NoWorker \notin Parked
BY DEF FilingInv, TypeOK, InOnePlace, NoWorker, WorkerId

\* The steps that move nobody: the variables FilingInv reads stay.
LEMMA FilingUnchanged ==
    ASSUME FilingInv,
           UNCHANGED <<workers, nextWorkerId, reissued, queues, running>>
    PROVE  IdsInUse' /\ InOnePlace'
<1>1. /\ workers' = workers /\ nextWorkerId' = nextWorkerId
      /\ reissued' = reissued
      /\ runnable' = runnable /\ waiting' = waiting /\ sleeping' = sleeping
      /\ halted' = halted /\ errors' = errors /\ running' = running
  BY DEF queues
<1>2. Elements(runnable') = Elements(runnable) /\ Parked' = Parked
  BY <1>1 DEF Elements, Parked
<1>3. QED BY <1>1, <1>2 DEF FilingInv, IdsInUse, InOnePlace, QueuedOnce

\* A delivery moves the receiver, if it was waiting, to the end of the queue.
LEMMA FilingDeliver ==
    ASSUME FilingInv, NEW m \in Message, DeliverTo(m),
           UNCHANGED <<workers, nextWorkerId, reissued, sleeping, halted, errors,
                       running>>
    PROVE  IdsInUse' /\ InOnePlace'
<1>1. m.to \in WorkerId /\ waiting \subseteq workers
  BY DEF Message, FilingInv, InOnePlace, Parked
<1>2. CASE m.to \in waiting
  <2>1. /\ runnable' = Append(runnable, m.to)
        /\ waiting' = waiting \ {m.to}
    BY <1>1, <1>2 DEF DeliverTo
  <2>2. /\ runnable \in Seq(WorkerId)
        /\ m.to \in Elements(runnable) => m.to \in reissued
    BY <1>2 DEF FilingInv, TypeOK, InOnePlace, Parked
  <2>3. Elements(runnable') = Elements(runnable) \cup {m.to}
    BY <1>1, <2>1, <2>2, ElementsAppend
  <2>4. QueuedOnce'
    <3>1. Once(Append(runnable, m.to), reissued)
      BY <1>1, <2>2, QueueOnce, AppendFresh
    <3>2. QED BY <2>1, <3>1 DEF QueuedOnce, Once
  <2>5. Parked' = Parked \ {m.to}
    BY <1>2, <2>1 DEF Parked, FilingInv, InOnePlace
  <2>6. IdsInUse'
    BY DEF FilingInv, IdsInUse
  <2>7. InOnePlace'
    <3>1. /\ sleeping' = sleeping /\ halted' = halted /\ errors' = errors
          /\ workers' = workers /\ running' = running /\ reissued' = reissued
      OBVIOUS
    <3>2. Elements(runnable') \cap Parked' \subseteq reissued
      BY <2>3, <2>5 DEF FilingInv, InOnePlace
    <3>3. Elements(runnable') \cup Parked' = Elements(runnable) \cup Parked
      BY <1>2, <2>3, <2>5 DEF Parked
    <3>4. QED BY <2>1, <2>4, <3>1, <3>2, <3>3 DEF FilingInv, InOnePlace
  <2>8. QED BY <2>6, <2>7
<1>3. CASE m.to \notin waiting
  <2>1. runnable' = runnable /\ waiting' = waiting
    BY <1>3 DEF DeliverTo
  <2>2. QED BY <2>1, FilingUnchanged DEF queues
<1>4. QED BY <1>2, <1>3

\* A spawned worker is queued under an id that is nowhere yet, or that is
\* reissued.
LEMMA FilingSpawn ==
    ASSUME FilingInv, Spawn
    PROVE  IdsInUse' /\ InOnePlace'
<1>1. /\ nextWorkerId \in Nat /\ nextWorkerId \in WorkerId
      /\ nextWorkerId >= 1 /\ nextWorkerId <= MaxWorkerId
      /\ MaxWorkerId \in Nat
      /\ nextWorkerId' = Saturating(nextWorkerId)
      /\ workers' = workers \cup {nextWorkerId}
      /\ reissued' = reissued \cup ({nextWorkerId} \cap workers)
      /\ runnable' = Append(runnable, nextWorkerId)
      /\ running' = running /\ running = NoWorker
      /\ waiting' = waiting /\ sleeping' = sleeping
      /\ halted' = halted /\ errors' = errors
      /\ Parked' = Parked
  BY MaxWorkerIdAssumption
     DEF FilingInv, TypeOK, WorkerId, Spawn, BetweenRounds, roundVars, Parked
<1>2. \/ /\ workers = 1..(nextWorkerId - 1) /\ nextWorkerId \notin workers
      \/ nextWorkerId = MaxWorkerId /\ workers = WorkerId
  BY <1>1 DEF FilingInv, IdsInUse
<1>3. /\ nextWorkerId \in Elements(runnable) => nextWorkerId \in reissued'
      /\ nextWorkerId \in Parked => nextWorkerId \in reissued'
      /\ reissued \subseteq reissued'
  BY <1>1, Members
<1>4. Elements(runnable') = Elements(runnable) \cup {nextWorkerId}
  BY <1>1, QueueOnce, ElementsAppend
<1>5. QueuedOnce'
  <2>1. Once(runnable, reissued')
    BY <1>3, QueueOnce DEF Once
  <2>2. Once(Append(runnable, nextWorkerId), reissued')
    BY <1>1, <1>3, <2>1, QueueOnce, AppendFresh
  <2>3. QED BY <1>1, <2>2 DEF QueuedOnce, Once
<1>6. IdsInUse'
  <2>1. CASE workers = 1..(nextWorkerId - 1) /\ nextWorkerId \notin workers
    <3>1. workers' = 1..nextWorkerId /\ reissued' = reissued
      BY <1>1, <2>1
    <3>2. reissued' \subseteq workers' \cap {MaxWorkerId}
      BY <1>1, <3>1 DEF FilingInv, IdsInUse
    <3>3. CASE nextWorkerId < MaxWorkerId
      BY <1>1, <3>1, <3>2, <3>3 DEF IdsInUse, Saturating
    <3>4. CASE nextWorkerId = MaxWorkerId
      BY <1>1, <3>1, <3>2, <3>4 DEF IdsInUse, Saturating, WorkerId
    <3>5. QED BY <1>1, <3>3, <3>4
  <2>2. CASE nextWorkerId = MaxWorkerId /\ workers = WorkerId
    <3>1. workers' = WorkerId /\ nextWorkerId' = MaxWorkerId
      BY <1>1, <2>2 DEF Saturating
    <3>2. reissued' \subseteq workers' \cap {MaxWorkerId}
      BY <1>1, <2>2, <3>1 DEF FilingInv, IdsInUse
    <3>3. QED BY <3>1, <3>2 DEF IdsInUse
  <2>3. QED BY <1>2, <2>1, <2>2
<1>7. InOnePlace'
  <2>1. Elements(runnable') \cap Parked' \subseteq reissued'
    BY <1>1, <1>3, <1>4 DEF FilingInv, InOnePlace
  <2>2. running' \notin Elements(runnable') \cup Parked'
    BY <1>1, <1>4, Members
  <2>3. workers' = Elements(runnable') \cup Parked' \cup ({running'} \ {NoWorker})
    BY <1>1, <1>4 DEF FilingInv, InOnePlace
  <2>4. QED BY <1>1, <1>5, <2>1, <2>2, <2>3 DEF FilingInv, InOnePlace
<1>8. QED BY <1>6, <1>7

\* wake() looks before it queues.
LEMMA FilingWake ==
    ASSUME FilingInv, NEW w \in WorkerId, Wake(w)
    PROVE  IdsInUse' /\ InOnePlace'
<1>1. /\ w \in workers /\ running' = running /\ running = NoWorker
      /\ workers' = workers /\ nextWorkerId' = nextWorkerId
      /\ reissued' = reissued
      /\ Parked' = Parked \ {w}
      /\ waiting' = waiting \ {w} /\ sleeping' = sleeping \ {w}
      /\ halted' = halted \ {w} /\ errors' = errors \ {w}
  BY DEF Wake, Without, BetweenRounds, roundVars, Parked
<1>2. runnable \in Seq(WorkerId) /\ Once(runnable, reissued)
  BY QueueOnce
<1>3. CASE w \in Elements(runnable)
  <2>1. runnable' = runnable
    BY <1>3 DEF Wake
  <2>2. Elements(runnable') = Elements(runnable) /\ QueuedOnce'
    BY <1>1, <1>2, <2>1 DEF Elements, QueuedOnce, Once
  <2>3. QED BY <1>1, <1>3, <2>2, Members DEF FilingInv, IdsInUse, InOnePlace
<1>4. CASE w \notin Elements(runnable)
  <2>1. runnable' = Append(runnable, w)
    BY <1>4 DEF Wake
  <2>2. Elements(runnable') = Elements(runnable) \cup {w}
    BY <1>2, <2>1, ElementsAppend
  <2>3. QueuedOnce'
    <3>1. Once(Append(runnable, w), reissued)
      BY <1>2, <1>4, AppendFresh
    <3>2. QED BY <1>1, <2>1, <3>1 DEF QueuedOnce, Once
  <2>4. QED BY <1>1, <2>2, <2>3, Members DEF FilingInv, IdsInUse, InOnePlace
<1>5. QED BY <1>3, <1>4

\* The head of the queue moves to the running slot.
LEMMA FilingPop ==
    ASSUME FilingInv, PopRunnable
    PROVE  IdsInUse' /\ InOnePlace'
<1>1. /\ runnable' = Tail(runnable) /\ running' = Head(runnable)
      /\ running = NoWorker /\ runnable # <<>>
      /\ workers' = workers /\ nextWorkerId' = nextWorkerId
      /\ reissued' = reissued
      /\ waiting' = waiting /\ sleeping' = sleeping
      /\ halted' = halted /\ errors' = errors
  BY DEF PopRunnable
<1>2. /\ Head(runnable) \in WorkerId /\ Head(runnable) \in Elements(runnable)
      /\ Elements(runnable') \cup {Head(runnable)} = Elements(runnable)
      /\ Head(runnable) \in Elements(runnable') => Head(runnable) \in reissued
      /\ Once(runnable', reissued)
  BY <1>1, QueueOnce, ElementsTail
<1>3. QueuedOnce'
  BY <1>1, <1>2 DEF QueuedOnce, Once
<1>4. Head(runnable) # NoWorker
  BY <1>2, Members
<1>5. Parked' = Parked
  BY <1>1 DEF Parked
<1>6. running' \in Elements(runnable') \cup Parked' => running' \in reissued'
  BY <1>1, <1>2, <1>5 DEF FilingInv, InOnePlace
<1>7. Elements(runnable') \cap Parked' \subseteq reissued'
  BY <1>1, <1>2, <1>5 DEF FilingInv, InOnePlace
<1>8. workers' = Elements(runnable') \cup Parked' \cup ({running'} \ {NoWorker})
  BY <1>1, <1>2, <1>4, <1>5 DEF FilingInv, InOnePlace
<1>9. QED BY <1>1, <1>3, <1>6, <1>7, <1>8 DEF FilingInv, IdsInUse, InOnePlace

\* The running worker goes to the end of the queue or to one parking set.
LEMMA FilingReconcile ==
    ASSUME FilingInv, Reconcile
    PROVE  IdsInUse' /\ InOnePlace'
<1>1. /\ running \in WorkerId /\ running # NoWorker
      /\ running \in Elements(runnable) \cup Parked => running \in reissued
      /\ outcome \in Outcomes
      /\ runnable \in Seq(WorkerId) /\ Once(runnable, reissued)
  BY QueueOnce DEF Reconcile, FilingInv, TypeOK, InOnePlace
<1>2. /\ running' = NoWorker /\ reissued' = reissued
      /\ workers' = workers /\ nextWorkerId' = nextWorkerId
  BY DEF Reconcile
<1>3. /\ waiting'  = IF outcome = "WaitingMessage"
                     THEN waiting \cup {running} ELSE waiting \ {running}
      /\ sleeping' = IF outcome = "Sleeping"
                     THEN sleeping \cup {running} ELSE sleeping \ {running}
      /\ halted'   = IF outcome = "Halted"
                     THEN halted \cup {running} ELSE halted \ {running}
      /\ errors'   = IF outcome = "Error"
                     THEN errors \cup {running} ELSE errors \ {running}
  BY DEF Reconcile, Filed
<1>4. /\ waiting' \cap sleeping' = {} /\ waiting' \cap halted' = {}
      /\ waiting' \cap errors' = {} /\ sleeping' \cap halted' = {}
      /\ sleeping' \cap errors' = {} /\ halted' \cap errors' = {}
  BY <1>3 DEF FilingInv, InOnePlace
<1>5. IdsInUse'
  BY <1>2 DEF FilingInv, IdsInUse
<1>6. SUFFICES /\ QueuedOnce'
               /\ Elements(runnable') \cap Parked' \subseteq reissued
               /\ NoWorker \notin Elements(runnable') \cup Parked'
               /\ workers = Elements(runnable') \cup Parked'
  BY <1>2, <1>4, <1>5 DEF InOnePlace
<1>7. CASE outcome \in {"StepLimitReached", "Yielded"}
  <2>1. runnable' = Append(runnable, running)
    BY <1>7 DEF Reconcile
  <2>2. Elements(runnable') = Elements(runnable) \cup {running}
    BY <1>1, <2>1, ElementsAppend
  <2>3. QueuedOnce'
    <3>1. Once(Append(runnable, running), reissued)
      BY <1>1, AppendFresh
    <3>2. QED BY <1>2, <2>1, <3>1 DEF QueuedOnce, Once
  <2>4. Parked' = Parked \ {running}
    BY <1>3, <1>7 DEF Parked
  <2>5. QED BY <1>1, <2>2, <2>3, <2>4, Members DEF FilingInv, InOnePlace
<1>8. CASE outcome \in {"WaitingMessage", "Sleeping", "Halted", "Error"}
  <2>1. runnable' = runnable
    BY <1>8 DEF Reconcile
  <2>2. Elements(runnable') = Elements(runnable) /\ QueuedOnce'
    BY <1>1, <1>2, <2>1 DEF Elements, QueuedOnce, Once
  <2>3. Parked' = Parked \cup {running}
    BY <1>3, <1>8 DEF Parked
  <2>4. QED BY <1>1, <2>2, <2>3, Members DEF FilingInv, InOnePlace
<1>9. QED BY <1>1, <1>7, <1>8 DEF Outcomes

\* IdsInUse and InOnePlace are preserved.
LEMMA FilingStep ==
    ASSUME FilingInv, [Next]_vars
    PROVE  IdsInUse' /\ InOnePlace'
<1>1. CASE Spawn
  BY <1>1, FilingSpawn
<1>2. ASSUME NEW w \in WorkerId, Wake(w) PROVE IdsInUse' /\ InOnePlace'
  BY <1>2, FilingWake
<1>3. ASSUME NEW w \in WorkerId, NEW p \in Payload,
             Deliver([from |-> Host, to |-> w, payload |-> p])
      PROVE  IdsInUse' /\ InOnePlace'
  <2>1. [from |-> Host, to |-> w, payload |-> p] \in Message
    BY DEF Message
  <2>2. QED BY <1>3, <2>1, FilingDeliver DEF Deliver, roundVars
<1>4. CASE PopRunnable
  BY <1>4, FilingPop
<1>5. CASE RouteOutbox
  <2>1. Head(outbox[running]) \in Message
    BY <1>5 DEF RouteOutbox, FilingInv, TypeOK
  <2>2. QED BY <1>5, <2>1, FilingDeliver DEF RouteOutbox, roundVars
<1>6. CASE Reconcile
  BY <1>6, FilingReconcile
<1>7. CASE BeginRound \/ Opcode \/ BudgetExhausted \/ UNCHANGED vars
  <2>1. UNCHANGED <<workers, nextWorkerId, reissued, queues, running>>
    BY <1>7 DEF BeginRound, Opcode, OpLocal, OpRecv, OpRecvEmpty, OpTryRecv,
       OpSend, OpYield, OpSleep, OpHalt, OpFault, OpEnd, BudgetExhausted,
       FrameUnchanged, vars, roundVars
  <2>2. QED BY <2>1, FilingUnchanged
<1>8. QED BY <1>1, <1>2, <1>3, <1>4, <1>5, <1>6, <1>7
          DEF Next, HostCall, RoundStep

\* The filing invariant holds in every reachable state.
LEMMA Filing == Spec => []FilingInv
<1>1. Init => IdsInUse /\ InOnePlace
  BY DEF Init, IdsInUse, InOnePlace, QueuedOnce, Elements, Parked, NoWorker
<1>2. FilingInv /\ TypeOK' /\ [Next]_vars => IdsInUse' /\ InOnePlace'
  BY FilingStep
<1>3. QED BY <1>1, <1>2, TypeCorrect, PTL DEF Spec, FilingInv

\* Spawn hands out no id twice but the largest, at which the counter stays: the
\* exceptions of the theorems are about that one worker.
THEOREM OnlyTheLastIdTwice == Spec => []LastIdReissued
<1>1. FilingInv => LastIdReissued
  <2> SUFFICES ASSUME FilingInv PROVE LastIdReissued
    OBVIOUS
  <2>1. nextWorkerId \in Nat
    BY DEF FilingInv, TypeOK, WorkerId
  <2>2. nextWorkerId \in workers => nextWorkerId = MaxWorkerId
    BY <2>1 DEF FilingInv, IdsInUse
  <2>3. QED BY <2>2 DEF FilingInv, IdsInUse, LastIdReissued
<1>2. QED BY <1>1, Filing, PTL

\* However spawns, wakes, deliveries, turns and outcomes interleave, every
\* worker is in exactly one of the run queue (once), the four parking sets and
\* the running slot: none is lost, none runs twice.  The exception is an id that
\* spawn has handed out twice, which only the largest can be.
THEOREM WorkersFiledOnce == Spec => []FiledOnce
BY Filing, OnlyTheLastIdTwice, PTL DEF FilingInv, FiledOnce

(***************************************************************************)
(* The sets agree with the states of the VMs.                              *)
(*                                                                         *)
(* The strengthening says what state the running VM is in at each outcome, *)
(* and that an id without a worker has a fresh VM to be spawned.           *)
(***************************************************************************)

StateAt(o) == IF o \in {"StepLimitReached", "Yielded"} THEN "Idle"
              ELSE IF o = "None" THEN "Running" ELSE o

RunningAsItIs ==
    running # NoWorker =>
        /\ vmState[running] = StateAt(outcome)
        /\ outcome = "WaitingMessage" /\ running \notin reissued => running \in atRecv

FreshIdle == \A w \in WorkerId \ workers : vmState[w] = "Idle"

StateInv == FiledAsItIs /\ RunningAsItIs /\ FreshIdle

\* What FilingInv says of one worker: the places it is in exclude each other,
\* unless its id is reissued.
LEMMA Places ==
    ASSUME FilingInv
    PROVE  /\ running \in WorkerId \cup {NoWorker} /\ NoWorker \notin WorkerId
           /\ running # NoWorker => running \in WorkerId /\ running \in workers
           /\ waiting \subseteq WorkerId /\ sleeping \subseteq WorkerId
           /\ halted \subseteq WorkerId /\ errors \subseteq WorkerId
           /\ Elements(runnable) \subseteq workers /\ workers \subseteq WorkerId
           /\ waiting \cup sleeping \cup halted \cup errors \subseteq workers
           /\ running \notin reissued =>
                 /\ running \notin Elements(runnable)
                 /\ running \notin waiting /\ running \notin sleeping
                 /\ running \notin halted /\ running \notin errors
           /\ \A w \in Elements(runnable) \ reissued :
                 w \notin waiting /\ w \notin sleeping
                 /\ w \notin halted /\ w \notin errors
<1>1. NoWorker \notin WorkerId
  BY DEF NoWorker, WorkerId
<1>2. QED BY <1>1 DEF FilingInv, TypeOK, InOnePlace, Parked

\* A step that changes the running VM only, to a state its outcome calls for.
LEMMA StateFrame ==
    ASSUME FilingInv, StateInv, running # NoWorker,
           UNCHANGED <<workers, reissued, queues, running>>,
           NEW s \in VmStates,
           vmState' = [vmState EXCEPT ![running] = s], s = StateAt(outcome'),
           outcome' = "WaitingMessage" => running \in atRecv',
           \A w \in WorkerId : w # running => inbox'[w] = inbox[w]
                                              /\ (w \in atRecv => w \in atRecv')
    PROVE  StateInv'
<1>1. /\ workers' = workers /\ running' = running /\ reissued' = reissued
      /\ runnable' = runnable /\ waiting' = waiting /\ sleeping' = sleeping
      /\ halted' = halted /\ errors' = errors
  BY DEF queues
<1>2. Elements(runnable') = Elements(runnable)
  BY <1>1 DEF Elements
<1>3. /\ vmState \in [WorkerId -> VmStates] /\ running \in WorkerId
      /\ \A w \in WorkerId : w # running => vmState'[w] = vmState[w]
      /\ vmState'[running] = s
  BY Places DEF FilingInv, TypeOK
<1>4. FiledAsItIs'
  <2>1. \A w \in waiting' \ reissued' : vmState'[w] = "WaitingMessage" /\ w \in atRecv'
    BY <1>1, <1>3, Places DEF StateInv, FiledAsItIs
  <2>2. /\ \A w \in sleeping' \ reissued' : vmState'[w] = "Sleeping"
        /\ \A w \in halted' \ reissued' : vmState'[w] = "Halted"
        /\ \A w \in errors' \ reissued' : vmState'[w] = "Error"
    BY <1>1, <1>3, Places DEF StateInv, FiledAsItIs
  <2>3. \A w \in Elements(runnable') \ reissued' :
           /\ vmState'[w] \in {"Idle", "WaitingMessage", "Halted", "Error"}
           /\ vmState'[w] = "WaitingMessage" => inbox'[w] # <<>>
    BY <1>2, <1>3, Places DEF StateInv, FiledAsItIs
  <2>4. QED BY <2>1, <2>2, <2>3 DEF FiledAsItIs
<1>5. RunningAsItIs'
  BY <1>1, <1>3 DEF RunningAsItIs, StateAt
<1>6. FreshIdle'
  BY <1>1, <1>3, Places DEF StateInv, FreshIdle
<1>7. QED BY <1>4, <1>5, <1>6 DEF StateInv

\* A delivery queues a waiting receiver with a message to take.
LEMMA StateDeliver ==
    ASSUME FilingInv, StateInv, NEW m \in Message, DeliverTo(m),
           UNCHANGED <<workers, reissued, sleeping, halted, errors, vmState,
                       atRecv, running, outcome>>
    PROVE  StateInv'
<1>1. /\ m.to \in WorkerId /\ runnable \in Seq(WorkerId)
      /\ inbox \in [WorkerId -> Seq(Message)]
  BY DEF Message, FilingInv, TypeOK
<1>2. \A w \in WorkerId : inbox[w] # <<>> => inbox'[w] # <<>>
  <2>1. Append(inbox[m.to], m) # <<>>
    BY <1>1, AppendNotEmpty
  <2>2. QED BY <1>1, <2>1 DEF DeliverTo
<1>3. waiting' \subseteq waiting
  BY DEF DeliverTo
<1>4. \A w \in Elements(runnable') :
         \/ w \in Elements(runnable)
         \/ w \in waiting /\ inbox'[w] # <<>>
  <2>1. CASE m.to \in workers /\ m.to \in waiting
    <3>1. Elements(runnable') = Elements(runnable) \cup {m.to}
      <4>1. runnable' = Append(runnable, m.to)
        BY <2>1 DEF DeliverTo
      <4>2. QED BY <1>1, <4>1, ElementsAppend
    <3>2. inbox'[m.to] = Append(inbox[m.to], m)
      BY <1>1, <2>1 DEF DeliverTo
    <3>3. inbox'[m.to] # <<>>
      BY <1>1, <3>2, AppendNotEmpty
    <3>4. QED BY <2>1, <3>1, <3>3
  <2>2. CASE ~(m.to \in workers /\ m.to \in waiting)
    <3>1. runnable' = runnable
      BY <2>2 DEF DeliverTo
    <3>2. QED BY <3>1 DEF Elements
  <2>3. QED BY <2>1, <2>2
<1>5. FiledAsItIs'
  <2>1. \A w \in Elements(runnable') \ reissued' :
           /\ vmState'[w] \in {"Idle", "WaitingMessage", "Halted", "Error"}
           /\ vmState'[w] = "WaitingMessage" => inbox'[w] # <<>>
    BY <1>2, <1>4, Places DEF StateInv, FiledAsItIs
  <2>2. QED BY <1>3, <2>1 DEF StateInv, FiledAsItIs
<1>6. QED BY <1>5 DEF StateInv, RunningAsItIs, FreshIdle

\* Spawning queues a fresh VM.
LEMMA StateSpawn ==
    ASSUME FilingInv, StateInv, Spawn
    PROVE  StateInv'
<1>1. /\ nextWorkerId \in WorkerId
      /\ workers' = workers \cup {nextWorkerId}
      /\ reissued' = reissued \cup ({nextWorkerId} \cap workers)
      /\ runnable' = Append(runnable, nextWorkerId)
      /\ waiting' = waiting /\ sleeping' = sleeping
      /\ halted' = halted /\ errors' = errors
      /\ vmState' = [vmState EXCEPT ![nextWorkerId] = "Idle"]
      /\ atRecv' = atRecv \ {nextWorkerId}
      /\ inbox' = [inbox EXCEPT ![nextWorkerId] = <<>>]
      /\ running' = running /\ running = NoWorker
      /\ vmState \in [WorkerId -> VmStates] /\ inbox \in [WorkerId -> Seq(Message)]
  BY DEF Spawn, BetweenRounds, FilingInv, TypeOK, roundVars
<1>2. /\ Elements(runnable') = Elements(runnable) \cup {nextWorkerId}
      /\ Elements(runnable) \subseteq workers
      /\ waiting \subseteq workers /\ sleeping \subseteq workers
      /\ halted \subseteq workers /\ errors \subseteq workers
      /\ workers \subseteq WorkerId
  BY <1>1, QueueOnce, ElementsAppend, Places
<1>3. ASSUME NEW w \in WorkerId, w # nextWorkerId
      PROVE  /\ vmState'[w] = vmState[w] /\ inbox'[w] = inbox[w]
             /\ w \in atRecv => w \in atRecv'
             /\ w \notin reissued' => w \notin reissued
  BY <1>1, <1>3
<1>4. nextWorkerId \in workers => nextWorkerId \in reissued'
  BY <1>1
<1>5. vmState'[nextWorkerId] = "Idle"
  BY <1>1
<1>6. FiledAsItIs'
  <2>1. \A w \in waiting' \ reissued' : vmState'[w] = "WaitingMessage" /\ w \in atRecv'
    BY <1>1, <1>2, <1>3, <1>4 DEF StateInv, FiledAsItIs
  <2>2. /\ \A w \in sleeping' \ reissued' : vmState'[w] = "Sleeping"
        /\ \A w \in halted' \ reissued' : vmState'[w] = "Halted"
        /\ \A w \in errors' \ reissued' : vmState'[w] = "Error"
    BY <1>1, <1>2, <1>3, <1>4 DEF StateInv, FiledAsItIs
  <2>3. \A w \in Elements(runnable') \ reissued' :
           /\ vmState'[w] \in {"Idle", "WaitingMessage", "Halted", "Error"}
           /\ vmState'[w] = "WaitingMessage" => inbox'[w] # <<>>
    BY <1>2, <1>3, <1>5 DEF StateInv, FiledAsItIs
  <2>4. QED BY <2>1, <2>2, <2>3 DEF FiledAsItIs
<1>7. RunningAsItIs'
  BY <1>1 DEF RunningAsItIs
<1>8. FreshIdle'
  BY <1>1, <1>3 DEF StateInv, FreshIdle
<1>9. QED BY <1>6, <1>7, <1>8 DEF StateInv

\* A woken worker is queued idle, or stopped for good.
LEMMA StateWake ==
    ASSUME FilingInv, StateInv, NEW w \in WorkerId, Wake(w)
    PROVE  StateInv'
<1>1. /\ w \in workers /\ workers' = workers /\ reissued' = reissued
      /\ running' = running /\ running = NoWorker
      /\ waiting' = waiting \ {w} /\ sleeping' = sleeping \ {w}
      /\ halted' = halted \ {w} /\ errors' = errors \ {w}
      /\ atRecv' = atRecv /\ inbox' = inbox
      /\ vmState' = [vmState EXCEPT ![w] = WokenState(vmState[w])]
  BY DEF Wake, Without, BetweenRounds, roundVars
<1>2. vmState \in [WorkerId -> VmStates] /\ runnable \in Seq(WorkerId)
  BY DEF FilingInv, TypeOK
<1>3. /\ vmState'[w] = WokenState(vmState[w])
      /\ \A v \in WorkerId : v # w => vmState'[v] = vmState[v]
  BY <1>1, <1>2
<1>4. w \notin reissued => vmState'[w] \in {"Idle", "Halted", "Error"}
  <2>1. w \in Elements(runnable) \cup Parked
    BY <1>1, Members DEF FilingInv, InOnePlace
  <2>2. w \notin reissued =>
          vmState[w] \in {"Idle", "WaitingMessage", "Sleeping", "Halted", "Error"}
    BY <2>1 DEF StateInv, FiledAsItIs, Parked
  <2>3. QED BY <1>3, <2>2 DEF WokenState
<1>5. Elements(runnable') \subseteq Elements(runnable) \cup {w}
  <2>1. CASE w \in Elements(runnable)
    BY <2>1 DEF Wake, Elements
  <2>2. CASE w \notin Elements(runnable)
    BY <1>2, <2>2, ElementsAppend DEF Wake
  <2>3. QED BY <2>1, <2>2
<1>6. FiledAsItIs'
  <2>1. \A v \in Elements(runnable') \ reissued' :
           /\ vmState'[v] \in {"Idle", "WaitingMessage", "Halted", "Error"}
           /\ vmState'[v] = "WaitingMessage" => inbox'[v] # <<>>
    BY <1>1, <1>3, <1>4, <1>5, Places DEF StateInv, FiledAsItIs
  <2>2. QED BY <1>1, <1>3, <2>1, Places DEF StateInv, FiledAsItIs
<1>7. RunningAsItIs' /\ FreshIdle'
  BY <1>1, <1>3 DEF StateInv, RunningAsItIs, FreshIdle
<1>8. QED BY <1>6, <1>7 DEF StateInv

\* The head of the queue runs, or is at once found to have stopped.
LEMMA StatePop ==
    ASSUME FilingInv, StateInv, PopRunnable
    PROVE  StateInv'
<1> DEFINE h == Head(runnable)
<1>1. /\ runnable' = Tail(runnable) /\ running' = h /\ runnable # <<>>
      /\ outcome' = EarlyOutcome(h)
      /\ vmState' = IF EarlyOutcome(h) = "None"
                    THEN [vmState EXCEPT ![h] = "Running"] ELSE vmState
      /\ workers' = workers /\ waiting' = waiting /\ sleeping' = sleeping
      /\ halted' = halted /\ errors' = errors
      /\ atRecv' = atRecv /\ inbox' = inbox
  BY DEF PopRunnable
<1>2. /\ vmState \in [WorkerId -> VmStates] /\ reissued' = reissued
  BY DEF FilingInv, TypeOK, PopRunnable
<1>3. /\ h \in WorkerId /\ h \in Elements(runnable)
      /\ Elements(runnable') \subseteq Elements(runnable)
      /\ h \in Elements(runnable') => h \in reissued
  BY <1>1, QueueOnce, ElementsTail
<1>4. \/ EarlyOutcome(h) = "None"
      \/ EarlyOutcome(h) = vmState[h]
         /\ vmState[h] \in {"Halted", "Error", "Sleeping", "WaitingMessage"}
  BY DEF EarlyOutcome
<1>5. h \notin reissued => EarlyOutcome(h) # "WaitingMessage"
  BY <1>3 DEF EarlyOutcome, StateInv, FiledAsItIs
<1>6. \A v \in WorkerId : v # h => vmState'[v] = vmState[v]
  BY <1>1, <1>2, <1>3
<1>7. vmState'[h] = StateAt(EarlyOutcome(h))
  BY <1>1, <1>2, <1>3, <1>4 DEF StateAt
<1>8. RunningAsItIs'
  BY <1>1, <1>2, <1>5, <1>7 DEF RunningAsItIs
<1>9. FiledAsItIs'
  <2>1. h \notin reissued => /\ h \notin waiting /\ h \notin sleeping
                             /\ h \notin halted /\ h \notin errors
    BY <1>3, Places
  <2>2. /\ \A w \in waiting' \ reissued' : vmState'[w] = "WaitingMessage" /\ w \in atRecv'
        /\ \A w \in sleeping' \ reissued' : vmState'[w] = "Sleeping"
        /\ \A w \in halted' \ reissued' : vmState'[w] = "Halted"
        /\ \A w \in errors' \ reissued' : vmState'[w] = "Error"
    BY <1>1, <1>2, <1>6, <2>1, Places DEF StateInv, FiledAsItIs
  <2>3. \A w \in Elements(runnable') \ reissued' :
           /\ vmState'[w] \in {"Idle", "WaitingMessage", "Halted", "Error"}
           /\ vmState'[w] = "WaitingMessage" => inbox'[w] # <<>>
    BY <1>1, <1>2, <1>3, <1>6, Places DEF StateInv, FiledAsItIs
  <2>4. QED BY <2>2, <2>3 DEF FiledAsItIs
<1>10. FreshIdle'
  BY <1>1, <1>3, <1>6, Places DEF StateInv, FreshIdle
<1>11. QED BY <1>8, <1>9, <1>10 DEF StateInv

\* A worker is filed by its outcome, which is the state it was left in.
LEMMA StateReconcile ==
    ASSUME FilingInv, StateInv, Reconcile
    PROVE  StateInv'
<1>1. /\ running \in WorkerId /\ outcome # "None" /\ outcome \in Outcomes
      /\ running' = NoWorker /\ workers' = workers /\ reissued' = reissued
      /\ vmState' = vmState /\ atRecv' = atRecv /\ inbox' = inbox
      /\ runnable \in Seq(WorkerId)
  BY Places DEF Reconcile, vmVars, FilingInv, TypeOK
<1>2. /\ vmState[running] = StateAt(outcome)
      /\ outcome = "WaitingMessage" /\ running \notin reissued => running \in atRecv
  BY DEF Reconcile, StateInv, RunningAsItIs
<1>3. /\ \A w \in waiting'  : w \in waiting \/ (w = running /\ outcome = "WaitingMessage")
      /\ \A w \in sleeping' : w \in sleeping \/ (w = running /\ outcome = "Sleeping")
      /\ \A w \in halted'   : w \in halted \/ (w = running /\ outcome = "Halted")
      /\ \A w \in errors'   : w \in errors \/ (w = running /\ outcome = "Error")
  BY DEF Reconcile, Filed
<1>4. \A w \in Elements(runnable') :
         \/ w \in Elements(runnable)
         \/ w = running /\ outcome \in {"StepLimitReached", "Yielded"}
  <2>1. CASE outcome \in {"StepLimitReached", "Yielded"}
    <3>1. runnable' = Append(runnable, running)
      BY <2>1 DEF Reconcile
    <3>2. QED BY <1>1, <2>1, <3>1, ElementsAppend
  <2>2. CASE outcome \notin {"StepLimitReached", "Yielded"}
    <3>1. runnable' = runnable
      BY <2>2 DEF Reconcile
    <3>2. QED BY <3>1 DEF Elements
  <2>3. QED BY <2>1, <2>2
<1>5. FiledAsItIs'
  <2>1. /\ \A w \in waiting' \ reissued'  : vmState'[w] = "WaitingMessage" /\ w \in atRecv'
        /\ \A w \in sleeping' \ reissued' : vmState'[w] = "Sleeping"
        /\ \A w \in halted' \ reissued'   : vmState'[w] = "Halted"
        /\ \A w \in errors' \ reissued'   : vmState'[w] = "Error"
    BY <1>1, <1>2, <1>3 DEF StateInv, FiledAsItIs, StateAt
  <2>2. \A w \in Elements(runnable') \ reissued' :
           /\ vmState'[w] \in {"Idle", "WaitingMessage", "Halted", "Error"}
           /\ vmState'[w] = "WaitingMessage" => inbox'[w] # <<>>
    BY <1>1, <1>2, <1>4 DEF StateInv, FiledAsItIs, StateAt
  <2>3. QED BY <2>1, <2>2 DEF FiledAsItIs
<1>6. QED BY <1>1, <1>5 DEF StateInv, RunningAsItIs, FreshIdle

\* The steps of a frame: only the running VM changes.
LEMMA StateOpcode ==
    ASSUME FilingInv, StateInv, Opcode \/ BudgetExhausted
    PROVE  StateInv'
<1>1. /\ running \in WorkerId /\ running # NoWorker
      /\ outcome = "None" /\ vmState[running] = "Running"
      /\ vmState \in [WorkerId -> VmStates]
      /\ inbox \in [WorkerId -> Seq(Message)]
  BY Places DEF FilingInv, TypeOK, StateInv, RunningAsItIs, StateAt, InFrame,
     Opcode, OpLocal, OpRecv, OpRecvEmpty, OpTryRecv, OpSend, OpYield, OpSleep,
     OpHalt, OpFault, OpEnd, BudgetExhausted
<1>2. UNCHANGED <<workers, reissued, queues, running>>
  BY DEF Opcode, OpLocal, OpRecv, OpRecvEmpty, OpTryRecv, OpSend, OpYield,
     OpSleep, OpHalt, OpFault, OpEnd, BudgetExhausted, FrameUnchanged
<1>3. /\ {"Running", "Idle", "WaitingMessage", "Sleeping", "Halted", "Error"}
            \subseteq VmStates
      /\ vmState = [vmState EXCEPT ![running] = "Running"]
  BY <1>1 DEF VmStates
<1>4. CASE OpLocal \/ (\E w \in WorkerId, p \in Payload : OpSend(w, p))
  <2>1. /\ vmState' = vmState /\ outcome' = outcome
        /\ inbox' = inbox /\ atRecv' = atRecv
    BY <1>4 DEF OpLocal, OpSend, vmVars
  <2>2. QED BY <1>1, <1>2, <1>3, <2>1, StateFrame DEF StateAt
<1>5. CASE OpRecv \/ OpTryRecv
  <2>1. /\ vmState' = vmState /\ outcome' = outcome
        /\ inbox' = [inbox EXCEPT ![running] = Tail(inbox[running])]
        /\ atRecv' \in {atRecv, atRecv \ {running}}
    BY <1>5 DEF OpRecv, OpTryRecv
  <2>2. \A w \in WorkerId : w # running => /\ inbox'[w] = inbox[w]
                                           /\ w \in atRecv => w \in atRecv'
    BY <1>1, <2>1
  <2>3. QED BY <1>1, <1>2, <1>3, <2>1, <2>2, StateFrame DEF StateAt
<1>6. CASE OpRecvEmpty
  <2>1. /\ outcome' = "WaitingMessage"
        /\ vmState' = [vmState EXCEPT ![running] = "WaitingMessage"]
        /\ atRecv' = atRecv \cup {running} /\ inbox' = inbox
    BY <1>6 DEF OpRecvEmpty, EndFrame
  <2>2. QED BY <1>1, <1>2, <1>3, <2>1, StateFrame DEF StateAt
<1>7. ASSUME NEW o \in Outcomes \ {"WaitingMessage"}, NEW t \in VmStates,
             t = StateAt(o), EndFrame(o, t), UNCHANGED <<inbox, atRecv>>
      PROVE  StateInv'
  <2>1. outcome' = o /\ vmState' = [vmState EXCEPT ![running] = t]
    BY <1>7 DEF EndFrame
  <2>2. QED BY <1>1, <1>2, <1>7, <2>1, StateFrame
<1>8. CASE OpYield \/ OpSleep \/ OpHalt \/ OpFault \/ BudgetExhausted
  <2>1. \E o \in Outcomes \ {"WaitingMessage"}, t \in VmStates :
            t = StateAt(o) /\ EndFrame(o, t)
    BY <1>8 DEF OpYield, OpSleep, OpHalt, OpFault, OpEnd, BudgetExhausted,
       Outcomes, VmStates, StateAt
  <2>2. UNCHANGED <<inbox, atRecv>>
    BY <1>8 DEF OpYield, OpSleep, OpHalt, OpFault, OpEnd, BudgetExhausted
  <2>3. QED BY <1>7, <2>1, <2>2
<1>9. QED BY <1>4, <1>5, <1>6, <1>8 DEF Opcode

\* The steps that read or change none of StateInv's variables.
LEMMA StateUnchanged ==
    ASSUME StateInv,
           UNCHANGED <<workers, reissued, queues, vmState, atRecv, inbox, running,
                       outcome>>
    PROVE  StateInv'
<1>1. Elements(runnable') = Elements(runnable)
  BY DEF queues, Elements
<1>2. QED BY <1>1 DEF StateInv, FiledAsItIs, RunningAsItIs, FreshIdle, queues

\* StateInv is preserved.
LEMMA StateStep ==
    ASSUME FilingInv, StateInv, [Next]_vars
    PROVE  StateInv'
<1>1. CASE Spawn
  BY <1>1, StateSpawn
<1>2. ASSUME NEW w \in WorkerId, Wake(w) PROVE StateInv'
  BY <1>2, StateWake
<1>3. ASSUME NEW w \in WorkerId, NEW p \in Payload,
             Deliver([from |-> Host, to |-> w, payload |-> p])
      PROVE  StateInv'
  <2>1. [from |-> Host, to |-> w, payload |-> p] \in Message
    BY DEF Message
  <2>2. QED BY <1>3, <2>1, StateDeliver DEF Deliver, roundVars
<1>4. CASE BeginRound \/ UNCHANGED vars
  BY <1>4, StateUnchanged DEF BeginRound, vars, vmVars, roundVars
<1>5. CASE PopRunnable
  BY <1>5, StatePop
<1>6. CASE Opcode \/ BudgetExhausted
  BY <1>6, StateOpcode
<1>7. CASE RouteOutbox
  <2>1. Head(outbox[running]) \in Message
    BY <1>7 DEF RouteOutbox, FilingInv, TypeOK
  <2>2. QED BY <1>7, <2>1, StateDeliver DEF RouteOutbox, roundVars
<1>8. CASE Reconcile
  BY <1>8, StateReconcile
<1>9. QED BY <1>1, <1>2, <1>3, <1>4, <1>5, <1>6, <1>7, <1>8
          DEF Next, HostCall, RoundStep

\* The state invariant holds in every reachable state.
LEMMA States == Spec => []StateInv
<1>1. Init => StateInv
  BY DEF Init, StateInv, FiledAsItIs, RunningAsItIs, FreshIdle, Elements, NoWorker
<1>2. FilingInv /\ StateInv /\ [Next]_vars => StateInv'
  BY StateStep
<1>3. QED BY <1>1, <1>2, Filing, PTL DEF Spec

\* A parked worker's VM is in the state of the set it is parked in, and a
\* queued one can make use of its turn: it is not asleep, and not waiting
\* unless a message is there.
THEOREM SetsMatchStates == Spec => []FiledAsItIs
BY States, PTL DEF StateInv

\* A VM that halted or failed stays so and executes nothing more, in spite of
\* the wake-ups and turns it still gets.
THEOREM StoppedForGood == Spec => StoppedStaysStopped
<1> DEFINE Stops == \A w \in WorkerId \ reissued' : vmState[w] \in {"Halted", "Error"} =>
                       /\ vmState'[w] = vmState[w]
                       /\ outbox[w] = <<>> => outbox'[w] = <<>>
                       /\ Len(inbox'[w]) >= Len(inbox[w])
<1>1. FilingInv /\ StateInv /\ [Next]_vars => Stops
  <2> SUFFICES ASSUME FilingInv, StateInv, [Next]_vars,
                      NEW w \in WorkerId, w \notin reissued', vmState[w] \in {"Halted", "Error"}
               PROVE  /\ vmState'[w] = vmState[w]
                      /\ outbox[w] = <<>> => outbox'[w] = <<>>
                      /\ Len(inbox'[w]) >= Len(inbox[w])
    OBVIOUS
  <2>1. /\ vmState \in [WorkerId -> VmStates]
        /\ inbox \in [WorkerId -> Seq(Message)]
        /\ outbox \in [WorkerId -> Seq(Message)]
        /\ Len(inbox[w]) \in Nat
    BY DEF FilingInv, TypeOK
  <2>2. ASSUME NEW m \in Message, DeliverTo(m)
        PROVE  Len(inbox'[w]) >= Len(inbox[w])
    <3>1. m.to \in WorkerId
      BY DEF Message
    <3>2. Len(Append(inbox[w], m)) = Len(inbox[w]) + 1
      BY <2>1
    <3>3. inbox'[w] \in {inbox[w], Append(inbox[w], m)}
      BY <2>1, <2>2, <3>1 DEF DeliverTo
    <3>4. QED BY <2>1, <3>2, <3>3
  <2>3. CASE BeginRound \/ Reconcile \/ UNCHANGED vars
    BY <2>1, <2>3 DEF BeginRound, Reconcile, vars, vmVars
  <2>4. ASSUME NEW v \in WorkerId, Wake(v)
        PROVE  vmState'[w] = vmState[w] /\ outbox' = outbox /\ inbox' = inbox
    BY <2>1, <2>4 DEF Wake, WokenState
  <2>5. ASSUME NEW v \in WorkerId, NEW p \in Payload,
               Deliver([from |-> Host, to |-> v, payload |-> p])
        PROVE  /\ vmState' = vmState /\ outbox' = outbox
               /\ Len(inbox'[w]) >= Len(inbox[w])
    <3>1. [from |-> Host, to |-> v, payload |-> p] \in Message
      BY DEF Message
    <3>2. QED BY <2>2, <2>5, <3>1 DEF Deliver
  <2>6. CASE PopRunnable
    <3>1. EarlyOutcome(w) # "None"
      BY DEF EarlyOutcome
    <3>2. QED BY <2>1, <2>6, <3>1 DEF PopRunnable
  <2>7. CASE Opcode \/ BudgetExhausted
    <3>1. running # w /\ running \in WorkerId
      BY <2>7, Places DEF StateInv, RunningAsItIs, StateAt, InFrame, Opcode,
         OpLocal, OpRecv, OpRecvEmpty, OpTryRecv, OpSend, OpYield, OpSleep,
         OpHalt, OpFault, OpEnd, BudgetExhausted
    <3>2. vmState'[w] = vmState[w] /\ outbox'[w] = outbox[w] /\ inbox'[w] = inbox[w]
      BY <2>1, <2>7, <3>1 DEF Opcode, OpLocal, OpRecv, OpRecvEmpty, OpTryRecv,
         OpSend, OpYield, OpSleep, OpHalt, OpFault, OpEnd, EndFrame,
         BudgetExhausted, vmVars
    <3>3. QED BY <2>1, <3>2
  <2>8. CASE RouteOutbox
    <3>1. Head(outbox[running]) \in Message /\ running \in WorkerId
      BY <2>8, Places DEF RouteOutbox, FilingInv, TypeOK
    <3>2. outbox[w] = <<>> => outbox'[w] = <<>>
      BY <2>1, <2>8, <3>1 DEF RouteOutbox
    <3>3. DeliverTo(Head(outbox[running])) /\ vmState' = vmState
      BY <2>8 DEF RouteOutbox
    <3>4. Len(inbox'[w]) >= Len(inbox[w])
      BY <2>2, <3>1, <3>3
    <3>5. QED BY <3>2, <3>3, <3>4
  <2>9. CASE \E v \in WorkerId : Wake(v)
    BY <2>1, <2>4, <2>9
  <2>10. CASE \E v \in WorkerId, p \in Payload :
                  Deliver([from |-> Host, to |-> v, payload |-> p])
    BY <2>1, <2>5, <2>10
  <2>11. CASE Spawn
    <3>1. nextWorkerId \notin workers \/ nextWorkerId \in reissued'
      BY <2>11 DEF Spawn
    <3>2. w # nextWorkerId
      BY <3>1 DEF StateInv, FreshIdle
    <3>3. vmState'[w] = vmState[w] /\ outbox'[w] = outbox[w] /\ inbox'[w] = inbox[w]
      BY <2>1, <2>11, <3>2 DEF Spawn
    <3>4. QED BY <2>1, <3>3
  <2>12. QED BY <2>3, <2>11, <2>6, <2>7, <2>8, <2>9, <2>10
             DEF Next, HostCall, RoundStep
<1>2. QED BY <1>1, Filing, States, PTL DEF Spec, StoppedStaysStopped

(***************************************************************************)
(* Wake-ups.                                                               *)
(*                                                                         *)
(* A worker is filed as waiting some steps after its Recv found the inbox  *)
(* empty; the strengthening says that until then only its own messages can *)
(* have arrived, because only its own outbox is routed in between.         *)
(***************************************************************************)

Own(w, q) == \A i \in 1..Len(q) : q[i].from = w

OutboxIsOwn == \A w \in WorkerId : Own(w, outbox[w])

EndedAtRecv ==
    running # NoWorker /\ outcome = "WaitingMessage" => Own(running, inbox[running])

MailInv == WaitingMailIsOwn /\ OutboxRouted /\ OutboxIsOwn /\ EndedAtRecv

\* Own is kept by adding a letter of w's and by taking one.
LEMMA OwnMail ==
    ASSUME NEW w \in WorkerId, NEW q \in Seq(Message), Own(w, q)
    PROVE  /\ \A m \in Message : m.from = w => Own(w, Append(q, m))
           /\ q # <<>> => Own(w, Tail(q)) /\ Head(q).from = w
<1>1. ASSUME NEW m \in Message, m.from = w
      PROVE  Own(w, Append(q, m))
  <2>1. SUFFICES ASSUME NEW i \in 1..Len(Append(q, m))
                 PROVE  Append(q, m)[i].from = w
    BY DEF Own
  <2>2. Len(Append(q, m)) = Len(q) + 1 /\ Len(q) \in Nat
    OBVIOUS
  <2>3. CASE i \in 1..Len(q)
    BY <2>3 DEF Own
  <2>4. CASE i = Len(q) + 1
    BY <1>1, <2>4
  <2>5. QED BY <2>2, <2>3, <2>4
<1>2. ASSUME q # <<>>
      PROVE  Own(w, Tail(q)) /\ Head(q).from = w
  <2>1. /\ Len(Tail(q)) = Len(q) - 1 /\ Len(q) \in Nat /\ Len(q) > 0
        /\ \A i \in 1..Len(Tail(q)) : Tail(q)[i] = q[i + 1]
        /\ Head(q) = q[1]
    BY <1>2
  <2>2. \A i \in 1..Len(Tail(q)) : i + 1 \in 1..Len(q)
    BY <2>1
  <2>3. 1 \in 1..Len(q)
    BY <2>1
  <2>4. QED BY <2>1, <2>2, <2>3 DEF Own
<1>3. QED BY <1>1, <1>2

\* A delivery keeps the letters of the workers still waiting their own.
LEMMA MailDeliver ==
    ASSUME FilingInv, MailInv, NEW m \in Message, DeliverTo(m)
    PROVE  /\ WaitingMailIsOwn'
           /\ \A w \in WorkerId : w # m.to => inbox'[w] = inbox[w]
           /\ \A w \in WorkerId : w = m.to /\ m.from = w /\ Own(w, inbox[w])
                                    => Own(w, inbox'[w])
<1>1. /\ m.to \in WorkerId /\ inbox \in [WorkerId -> Seq(Message)]
      /\ waiting \subseteq WorkerId
  BY DEF Message, FilingInv, TypeOK
<1>2. \A w \in WorkerId : w # m.to => inbox'[w] = inbox[w]
  BY <1>1 DEF DeliverTo
<1>3. \A w \in waiting' : w \in waiting /\ (w = m.to => inbox' = inbox)
  BY DEF DeliverTo
<1>4. inbox'[m.to] \in {inbox[m.to], Append(inbox[m.to], m)}
  BY <1>1 DEF DeliverTo
<1>5. WaitingMailIsOwn'
  <2>1. \A w \in waiting' : inbox'[w] = inbox[w]
    BY <1>1, <1>2, <1>3
  <2>2. QED BY <1>3, <2>1 DEF MailInv, WaitingMailIsOwn
<1>6. m.from = m.to /\ Own(m.to, inbox[m.to]) => Own(m.to, inbox'[m.to])
  <2>1. SUFFICES ASSUME m.from = m.to, Own(m.to, inbox[m.to])
                 PROVE  Own(m.to, inbox'[m.to])
    OBVIOUS
  <2>2. Own(m.to, Append(inbox[m.to], m))
    BY <1>1, <2>1, OwnMail
  <2>3. QED BY <1>4, <2>1, <2>2
<1>7. QED BY <1>2, <1>5, <1>6

\* MailInv is preserved.
LEMMA MailStep ==
    ASSUME FilingInv, MailInv, [Next]_vars
    PROVE  MailInv'
<1>1. /\ inbox \in [WorkerId -> Seq(Message)]
      /\ outbox \in [WorkerId -> Seq(Message)]
      /\ waiting \subseteq WorkerId
      /\ NoWorker \notin WorkerId
  BY Places DEF FilingInv, TypeOK
<1>2. CASE BeginRound \/ UNCHANGED vars
  <2>1. UNCHANGED <<waiting, inbox, outbox, running, outcome>>
    BY <1>2 DEF BeginRound, vars, queues, vmVars, roundVars
  <2>2. QED BY <2>1 DEF MailInv, WaitingMailIsOwn, OutboxRouted, OutboxIsOwn,
                EndedAtRecv
<1>3. ASSUME NEW w \in WorkerId, Wake(w) PROVE MailInv'
  <2>1. /\ UNCHANGED <<inbox, outbox, running, outcome>>
        /\ waiting' \subseteq waiting
    BY <1>3 DEF Wake, Without, roundVars
  <2>2. QED BY <2>1 DEF MailInv, WaitingMailIsOwn, OutboxRouted, OutboxIsOwn,
                EndedAtRecv
<1>4. ASSUME NEW w \in WorkerId, NEW p \in Payload,
             Deliver([from |-> Host, to |-> w, payload |-> p])
      PROVE  MailInv'
  <2>1. [from |-> Host, to |-> w, payload |-> p] \in Message
    BY DEF Message
  <2>2. WaitingMailIsOwn'
    BY <1>4, <2>1, MailDeliver DEF Deliver
  <2>3. UNCHANGED <<outbox, running>> /\ running = NoWorker
    BY <1>4 DEF Deliver, BetweenRounds, roundVars
  <2>4. QED BY <2>2, <2>3 DEF MailInv, OutboxRouted, OutboxIsOwn, EndedAtRecv
<1>5. CASE PopRunnable
  <2>1. /\ UNCHANGED <<waiting, inbox, outbox>> /\ running = NoWorker
        /\ running' = Head(runnable) /\ outcome' = EarlyOutcome(running')
    BY <1>5 DEF PopRunnable
  <2>2. \A w \in WorkerId : outbox'[w] = <<>>
    BY <1>1, <2>1 DEF MailInv, OutboxRouted
  <2>3. EndedAtRecv'
    <3>1. outcome' = "WaitingMessage" => inbox'[running'] = <<>>
      <4>1. ASSUME NEW w, EarlyOutcome(w) = "WaitingMessage"
            PROVE  inbox[w] = <<>>
        BY <4>1 DEF EarlyOutcome
      <4>2. QED BY <2>1, <4>1
    <3>2. Len(<<>>) = 0
      OBVIOUS
    <3>3. QED BY <3>1, <3>2 DEF EndedAtRecv, Own
  <2>4. QED BY <2>1, <2>2, <2>3 DEF MailInv, WaitingMailIsOwn, OutboxRouted,
                OutboxIsOwn
<1>6. CASE Opcode \/ BudgetExhausted
  <2>1. /\ running \in WorkerId
        /\ waiting' = waiting /\ running' = running /\ outcome = "None"
    BY <1>6, Places DEF InFrame, Opcode, OpLocal, OpRecv, OpRecvEmpty,
       OpTryRecv, OpSend, OpYield, OpSleep, OpHalt, OpFault, OpEnd,
       BudgetExhausted, FrameUnchanged, queues
  <2>2. \A w \in WorkerId : w # running =>
            inbox'[w] = inbox[w] /\ outbox'[w] = outbox[w]
    BY <1>1, <1>6, <2>1 DEF Opcode, OpLocal, OpRecv, OpRecvEmpty, OpTryRecv,
       OpSend, OpYield, OpSleep, OpHalt, OpFault, OpEnd, BudgetExhausted, vmVars
  <2>3. Own(running, outbox'[running])
    <3>1. Own(running, outbox[running])
      BY <2>1 DEF MailInv, OutboxIsOwn
    <3>2. CASE \E w \in WorkerId, p \in Payload : OpSend(w, p)
      <4>1. PICK w \in WorkerId, p \in Payload : OpSend(w, p)
        BY <3>2
      <4> DEFINE m == [from |-> running, to |-> w, payload |-> p]
      <4>2. m \in Message /\ m.from = running
        BY <2>1 DEF Message
      <4>3. outbox'[running] = Append(outbox[running], m)
        BY <1>1, <2>1, <4>1 DEF OpSend
      <4>4. Own(running, Append(outbox[running], m))
        BY <1>1, <2>1, <3>1, <4>2, OwnMail
      <4>5. QED BY <4>3, <4>4
    <3>3. CASE ~ \E w \in WorkerId, p \in Payload : OpSend(w, p)
      <4>1. outbox' = outbox
        BY <1>6, <3>3 DEF Opcode, OpLocal, OpRecv, OpRecvEmpty, OpTryRecv,
           OpYield, OpSleep, OpHalt, OpFault, OpEnd, BudgetExhausted, vmVars
      <4>2. QED BY <3>1, <4>1
    <3>4. QED BY <3>2, <3>3
  <2>4. outcome' = "WaitingMessage" => Own(running, inbox'[running])
    <3>1. outcome' = "WaitingMessage" => inbox[running] = <<>> /\ inbox' = inbox
      BY <1>6, <2>1 DEF Opcode, OpLocal, OpRecv, OpRecvEmpty, OpTryRecv,
         OpSend, OpYield, OpSleep, OpHalt, OpFault, OpEnd, EndFrame,
         BudgetExhausted
    <3>2. Len(<<>>) = 0
      OBVIOUS
    <3>3. QED BY <3>1, <3>2 DEF Own
  <2>5. WaitingMailIsOwn'
    <3>1. SUFFICES ASSUME NEW w \in waiting PROVE Own(w, inbox'[w])
      BY <2>1 DEF WaitingMailIsOwn, Own
    <3>2. w \in WorkerId /\ Own(w, inbox[w])
      BY <1>1 DEF MailInv, WaitingMailIsOwn, Own
    <3>3. \/ inbox'[w] = inbox[w]
          \/ inbox[w] # <<>> /\ inbox'[w] = Tail(inbox[w])
      BY <1>1, <1>6, <3>2 DEF Opcode, OpLocal, OpRecv, OpRecvEmpty, OpTryRecv,
         OpSend, OpYield, OpSleep, OpHalt, OpFault, OpEnd, BudgetExhausted, vmVars
    <3>4. inbox[w] \in Seq(Message)
      BY <1>1, <3>2
    <3>5. inbox[w] # <<>> => Own(w, Tail(inbox[w]))
      BY <3>2, <3>4, OwnMail
    <3>6. QED BY <3>2, <3>3, <3>5
  <2>6. OutboxRouted'
    BY <2>1, <2>2 DEF MailInv, OutboxRouted
  <2>7. OutboxIsOwn'
    BY <2>2, <2>3 DEF MailInv, OutboxIsOwn
  <2>8. EndedAtRecv'
    BY <2>1, <2>4 DEF EndedAtRecv
  <2>9. QED BY <2>5, <2>6, <2>7, <2>8 DEF MailInv
<1>7. CASE RouteOutbox
  <2> DEFINE m == Head(outbox[running])
  <2>1. /\ running \in WorkerId /\ outbox[running] # <<>> /\ DeliverTo(m)
        /\ outbox' = [outbox EXCEPT ![running] = Tail(outbox[running])]
        /\ running' = running /\ outcome' = outcome
    BY <1>7, Places DEF RouteOutbox, roundVars
  <2>2. m \in Message /\ m.from = running /\ Own(running, Tail(outbox[running]))
    <3>1. Own(running, outbox[running])
      BY <2>1 DEF MailInv, OutboxIsOwn
    <3>2. m \in Message
      BY <1>1, <2>1
    <3>3. QED BY <1>1, <2>1, <3>1, <3>2, OwnMail
  <2>3. /\ WaitingMailIsOwn'
        /\ running # m.to => inbox'[running] = inbox[running]
        /\ running = m.to /\ Own(running, inbox[running])
              => Own(running, inbox'[running])
    BY <2>1, <2>2, MailDeliver
  <2>4. OutboxRouted' /\ OutboxIsOwn'
    BY <1>1, <2>1, <2>2 DEF MailInv, OutboxRouted, OutboxIsOwn
  <2>5. EndedAtRecv'
    BY <2>1, <2>3 DEF MailInv, EndedAtRecv
  <2>6. QED BY <2>3, <2>4, <2>5 DEF MailInv
<1>8. CASE Reconcile
  <2>1. /\ UNCHANGED <<inbox, outbox>> /\ running' = NoWorker
        /\ outbox[running] = <<>> /\ running \in WorkerId
        /\ \A w \in waiting' :
              w \in waiting \/ (w = running /\ outcome = "WaitingMessage")
    BY <1>8, Places DEF Reconcile, vmVars, Filed
  <2>2. outcome = "WaitingMessage" => Own(running, inbox[running])
    BY <1>1, <2>1 DEF MailInv, EndedAtRecv
  <2>3. WaitingMailIsOwn'
    BY <2>1, <2>2 DEF MailInv, WaitingMailIsOwn, Own
  <2>4. QED BY <2>1, <2>3 DEF MailInv, OutboxRouted, OutboxIsOwn, EndedAtRecv
<1>9. CASE \E w \in WorkerId : Wake(w)
  BY <1>3, <1>9
<1>10. CASE \E w \in WorkerId, p \in Payload :
                Deliver([from |-> Host, to |-> w, payload |-> p])
  BY <1>4, <1>10
<1>11. CASE Spawn
  <2>1. /\ inbox' = [inbox EXCEPT ![nextWorkerId] = <<>>]
        /\ outbox' = [outbox EXCEPT ![nextWorkerId] = <<>>]
        /\ waiting' = waiting /\ running' = running /\ running = NoWorker
    BY <1>11 DEF Spawn, BetweenRounds, roundVars
  <2>2. \A w \in WorkerId : /\ inbox'[w] \in {inbox[w], <<>>}
                             /\ outbox'[w] \in {outbox[w], <<>>}
    BY <1>1, <2>1
  <2>3. \A w : Own(w, <<>>)
    <3>1. Len(<<>>) = 0
      OBVIOUS
    <3>2. QED BY <3>1 DEF Own
  <2>4. WaitingMailIsOwn'
    BY <1>1, <2>1, <2>2, <2>3 DEF MailInv, WaitingMailIsOwn, Own
  <2>5. OutboxRouted'
    BY <2>1, <2>2 DEF MailInv, OutboxRouted
  <2>6. OutboxIsOwn'
    BY <2>2, <2>3 DEF MailInv, OutboxIsOwn
  <2>7. EndedAtRecv'
    BY <2>1 DEF EndedAtRecv
  <2>8. QED BY <2>4, <2>5, <2>6, <2>7 DEF MailInv
<1>12. QED BY <1>2, <1>5, <1>6, <1>7, <1>8, <1>9, <1>10, <1>11
           DEF Next, HostCall, RoundStep

\* The mail invariant holds in every reachable state.
LEMMA Mails == Spec => []MailInv
<1>1. Init => MailInv
  <2>1. Len(<<>>) = 0
    OBVIOUS
  <2>2. QED BY <2>1 DEF Init, MailInv, WaitingMailIsOwn, OutboxRouted,
                OutboxIsOwn, EndedAtRecv, Own, NoWorker
<1>2. FilingInv /\ MailInv /\ [Next]_vars => MailInv'
  BY MailStep
<1>3. QED BY <1>1, <1>2, Filing, PTL DEF Spec

\* No worker is parked over a message of the host's or of another worker's:
\* the wake-up such a message owes is never lost, wherever in a round it
\* arrives.
THEOREM NoWakeUpLost == Spec => []WaitingMailIsOwn
BY Mails, PTL DEF MailInv

\* Between two workers' turns every message is in an inbox: whatever ended a
\* frame, what it sent has been routed.
THEOREM OutboxesRouted == Spec => []OutboxRouted
BY Mails, PTL DEF MailInv

(***************************************************************************)
(* Rounds.                                                                 *)
(***************************************************************************)

\* The opcodes, and what all of them leave alone.
LEMMA FrameOnly ==
    ASSUME Opcode \/ BudgetExhausted
    PROVE  /\ running # NoWorker /\ outcome = "None"
           /\ UNCHANGED <<workers, nextWorkerId, reissued, queues, left, running,
                          plan, ran>>
BY DEF Opcode, OpLocal, OpRecv, OpRecvEmpty, OpTryRecv, OpSend, OpYield, OpSleep,
   OpHalt, OpFault, OpEnd, BudgetExhausted, InFrame, FrameUnchanged

\* Only a worker stands at a Recv.
Receivers == atRecv \subseteq workers

LEMMA ReceiversWork == Spec => []Receivers
<1>1. Init => Receivers
  BY DEF Init, Receivers
<1>2. FilingInv /\ Receivers /\ [Next]_vars => Receivers'
  <2> SUFFICES ASSUME FilingInv, Receivers, [Next]_vars PROVE Receivers'
    OBVIOUS
  <2>1. running # NoWorker => running \in workers
    BY Places
  <2>2. workers \subseteq workers'
    BY FrameOnly
       DEF Next, HostCall, RoundStep, Spawn, Wake, Deliver, BeginRound,
           PopRunnable, RouteOutbox, Reconcile, vars
  <2>3. CASE OpRecvEmpty
    BY <2>1, <2>2, <2>3 DEF OpRecvEmpty, InFrame, Receivers
  <2>4. CASE ~OpRecvEmpty
    <3>1. atRecv' \subseteq atRecv
      BY <2>4 DEF Next, HostCall, RoundStep, Spawn, Wake, Deliver, BeginRound,
         PopRunnable, Opcode, OpLocal, OpRecv, OpTryRecv, OpSend, OpYield,
         OpSleep, OpHalt, OpFault, OpEnd, BudgetExhausted, RouteOutbox,
         Reconcile, vars, vmVars
    <3>2. QED BY <2>2, <3>1 DEF Receivers
  <2>5. QED BY <2>3, <2>4
<1>3. QED BY <1>1, <1>2, Filing, PTL DEF Spec

\* A worker that stands at a Recv gets past it only by taking the oldest message
\* of its inbox, in whatever round and after whatever wake-ups, unless its id is
\* reissued.
THEOREM RecvTakes == Spec => RecvTakesMessage
<1> DEFINE Takes == \A w \in atRecv \ reissued' :
                       w \notin atRecv' => /\ inbox[w] # <<>>
                                           /\ inbox'[w] = Tail(inbox[w])
<1>1. TypeOK /\ Receivers /\ [Next]_vars => Takes
  <2> SUFFICES ASSUME TypeOK, Receivers, [Next]_vars PROVE Takes
    OBVIOUS
  <2>1. CASE OpRecv
    BY <2>1 DEF OpRecv, InFrame, TypeOK
  <2>2. CASE Spawn
    BY <2>2 DEF Spawn, Receivers
  <2>3. CASE ~OpRecv /\ ~Spawn
    <3>1. atRecv \subseteq atRecv'
      BY <2>3 DEF Next, HostCall, RoundStep, Wake, Deliver, BeginRound,
         PopRunnable, Opcode, OpLocal, OpRecvEmpty, OpTryRecv, OpSend, OpYield,
         OpSleep, OpHalt, OpFault, OpEnd, BudgetExhausted, RouteOutbox,
         Reconcile, vars, vmVars
    <3>2. QED BY <3>1
  <2>4. QED BY <2>1, <2>2, <2>3
<1>2. QED BY <1>1, TypeCorrect, ReceiversWork, PTL DEF Spec, RecvTakesMessage

(***************************************************************************)
(* What a round has left of its plan is the head of the queue.  For that   *)
(* the queue must stay long enough: nothing but the round takes from it.   *)
(***************************************************************************)

LeftIsQueued == left <= Len(runnable)

PlanInv == TypeOK /\ LeftIsQueued /\ RoundRunsPlan

\* The head of a queue and the first of its tail are the first of the queue.
LEMMA FirstOfQueue ==
    ASSUME NEW S, NEW q \in Seq(S), q # <<>>, NEW n \in Nat, n > 0, n <= Len(q)
    PROVE  /\ <<Head(q)>> \o SubSeq(Tail(q), 1, n - 1) = SubSeq(q, 1, n)
           /\ SubSeq(Tail(q), 1, n - 1) \in Seq(S)
           /\ n - 1 <= Len(Tail(q))
<1> DEFINE s == SubSeq(Tail(q), 1, n - 1)
           t == SubSeq(q, 1, n)
<1>1. /\ Tail(q) \in Seq(S) /\ Len(Tail(q)) = Len(q) - 1
      /\ Head(q) = q[1] /\ Head(q) \in S /\ Len(q) \in Nat
      /\ \A i \in 1..Len(Tail(q)) : Tail(q)[i] = q[i + 1] /\ Tail(q)[i] \in S
  BY HeadTailProperties, ElementOfSeq
<1>2. /\ s \in Seq(S) /\ Len(s) = n - 1
      /\ \A i \in 1..(n - 1) : s[i] = Tail(q)[i]
  <2>1. \A i \in 1..(n - 1) : Tail(q)[i] \in S
    BY <1>1
  <2>2. QED BY <2>1, SubSeqProperties
<1>3. /\ t \in Seq(S) /\ Len(t) = n
      /\ \A i \in 1..n : t[i] = q[i]
  <2>1. \A i \in 1..n : q[i] \in S
    BY <1>1
  <2>2. QED BY <2>1, SubSeqProperties
<1>4. <<Head(q)>> \in Seq(S) /\ Len(<<Head(q)>>) = 1 /\ <<Head(q)>>[1] = q[1]
  BY <1>1
<1>5. /\ <<Head(q)>> \o s \in Seq(S) /\ Len(<<Head(q)>> \o s) = n
      /\ \A i \in 1..n : (<<Head(q)>> \o s)[i] =
                             IF i <= 1 THEN q[1] ELSE s[i - 1]
  BY <1>2, <1>4, ConcatProperties
<1>6. \A i \in 1..n : (<<Head(q)>> \o s)[i] = t[i]
  BY <1>1, <1>2, <1>3, <1>5
<1>7. <<Head(q)>> \o s = t
  BY <1>3, <1>5, <1>6, SeqEqual
<1>8. QED BY <1>1, <1>2, <1>7

\* What is queued behind does not change the first of the queue.
LEMMA FirstOfLonger ==
    ASSUME NEW S, NEW q \in Seq(S), NEW e \in S, NEW n \in Nat, n <= Len(q)
    PROVE  /\ SubSeq(Append(q, e), 1, n) = SubSeq(q, 1, n)
           /\ SubSeq(q, 1, n) \in Seq(S)
           /\ n <= Len(Append(q, e))
<1>1. /\ Append(q, e) \in Seq(S) /\ Len(Append(q, e)) = Len(q) + 1
      /\ \A i \in 1..Len(q) : Append(q, e)[i] = q[i]
      /\ \A i \in 1..Len(q) : q[i] \in S
      /\ Len(q) \in Nat
  BY AppendProperties, ElementOfSeq
<1>2. \A i \in 1..n : q[i] \in S /\ Append(q, e)[i] = q[i]
  BY <1>1
<1>3. /\ SubSeq(q, 1, n) \in Seq(S)
      /\ Len(SubSeq(q, 1, n)) = n
      /\ \A i \in 1..n : SubSeq(q, 1, n)[i] = q[i]
  BY <1>2, SubSeqProperties
<1>4. /\ SubSeq(Append(q, e), 1, n) \in Seq(S)
      /\ Len(SubSeq(Append(q, e), 1, n)) = n
      /\ \A i \in 1..n : SubSeq(Append(q, e), 1, n)[i] = q[i]
  BY <1>2, SubSeqProperties
<1>5. QED BY <1>1, <1>3, <1>4, SeqEqual

\* PlanInv is preserved.
LEMMA PlanStep ==
    ASSUME PlanInv, TypeOK', [Next]_vars
    PROVE  LeftIsQueued' /\ RoundRunsPlan'
<1>1. /\ runnable \in Seq(WorkerId) /\ left \in Nat /\ left <= Len(runnable)
      /\ Len(runnable) \in Nat
      /\ ran \in Seq(WorkerId) /\ running \in WorkerId \cup {NoWorker}
  BY DEF PlanInv, TypeOK, LeftIsQueued
<1>2. CASE UNCHANGED <<runnable, left, running, plan, ran>>
  BY <1>1, <1>2 DEF PlanInv, RoundRunsPlan, BetweenRounds, LeftIsQueued
<1>3. CASE BetweenRounds /\ UNCHANGED <<left, running>>
  <2>1. left' = 0 /\ BetweenRounds'
    BY <1>3 DEF BetweenRounds
  <2>2. Len(runnable') \in Nat
    BY DEF TypeOK
  <2>3. LeftIsQueued'
    BY <2>1, <2>2 DEF LeftIsQueued
  <2>4. QED BY <2>1, <2>3 DEF RoundRunsPlan
<1>4. CASE BeginRound
  <2>1. /\ left' = Len(runnable) /\ runnable' = runnable
        /\ plan' = runnable /\ ran' = <<>>
        /\ running' = NoWorker
    BY <1>4 DEF BeginRound, BetweenRounds, queues
  <2>2. SubSeq(runnable, 1, Len(runnable)) = runnable
    BY <1>1, SubSeqFull
  <2>3. <<>> \o <<>> \o runnable = runnable
    BY <1>1, ConcatEmptySeq
  <2>4. QED BY <1>1, <2>1, <2>2, <2>3 DEF RoundRunsPlan, LeftIsQueued
<1>5. CASE PopRunnable
  <2>1. /\ left > 0 /\ running = NoWorker /\ runnable # <<>>
        /\ runnable' = Tail(runnable) /\ left' = left - 1
        /\ running' = Head(runnable) /\ plan' = plan /\ ran' = ran
    BY <1>5 DEF PopRunnable
  <2>2. plan = ran \o <<>> \o SubSeq(runnable, 1, left)
    <3>1. ~BetweenRounds
      BY <1>1, <2>1 DEF BetweenRounds
    <3>2. QED BY <2>1, <3>1 DEF PlanInv, RoundRunsPlan
  <2>3. /\ <<Head(runnable)>> \o SubSeq(Tail(runnable), 1, left - 1)
              = SubSeq(runnable, 1, left)
        /\ SubSeq(Tail(runnable), 1, left - 1) \in Seq(WorkerId)
        /\ left - 1 <= Len(Tail(runnable))
    BY <1>1, <2>1, FirstOfQueue
  <2>4. Head(runnable) \in WorkerId /\ Head(runnable) # NoWorker
    <3>1. Head(runnable) \in WorkerId
      BY <1>1, <2>1, HeadTailProperties
    <3>2. QED BY <3>1 DEF WorkerId, NoWorker
  <2>5. <<Head(runnable)>> \in Seq(WorkerId)
    BY <2>4
  <2>6. ran \o <<>> = ran
    BY <1>1, ConcatEmptySeq
  <2>7. (ran \o <<Head(runnable)>>) \o SubSeq(Tail(runnable), 1, left - 1)
          = ran \o (<<Head(runnable)>> \o SubSeq(Tail(runnable), 1, left - 1))
    <3>1. \A q, r, s \in Seq(WorkerId) : (q \o r) \o s = q \o (r \o s)
      BY Associative DEF Associates
    <3>2. ran \in Seq(WorkerId)
      BY <1>1
    <3>3. QED BY <2>3, <2>5, <3>1, <3>2, Zenon
  <2>8. plan' = ran' \o <<running'>> \o SubSeq(runnable', 1, left')
    <3>1. plan = ran \o SubSeq(runnable, 1, left)
      BY <2>2, <2>6
    <3>2. plan = (ran \o <<Head(runnable)>>) \o SubSeq(Tail(runnable), 1, left - 1)
      BY <2>3, <2>7, <3>1
    <3>3. QED BY <2>1, <3>2
  <2>9. left' <= Len(runnable') /\ running' # NoWorker
    BY <2>1, <2>3, <2>4
  <2>10. QED BY <2>8, <2>9 DEF RoundRunsPlan, LeftIsQueued
<1>6. CASE RouteOutbox
  <2> DEFINE m == Head(outbox[running])
  <2>1. /\ DeliverTo(m) /\ running # NoWorker
        /\ UNCHANGED <<left, running, plan, ran>>
    BY <1>6 DEF RouteOutbox, roundVars
  <2>2. m.to \in WorkerId
    <3>1. running \in WorkerId /\ outbox[running] # <<>>
      BY <1>1, <1>6 DEF RouteOutbox
    <3>2. outbox[running] \in Seq(Message)
      BY <3>1 DEF PlanInv, TypeOK
    <3>3. m \in Message
      BY <3>1, <3>2, HeadTailProperties
    <3>4. QED BY <3>3 DEF Message
  <2>3. runnable' = runnable \/ runnable' = Append(runnable, m.to)
    BY <2>1 DEF DeliverTo
  <2>4. /\ SubSeq(runnable', 1, left) = SubSeq(runnable, 1, left)
        /\ left <= Len(runnable')
    <3>1. /\ SubSeq(Append(runnable, m.to), 1, left) = SubSeq(runnable, 1, left)
          /\ left <= Len(Append(runnable, m.to))
      BY <1>1, <2>2, FirstOfLonger
    <3>2. QED BY <1>1, <2>3, <3>1, Zenon
  <2>5. QED BY <2>1, <2>4 DEF PlanInv, RoundRunsPlan, BetweenRounds, LeftIsQueued
<1>7. CASE Reconcile
  <2>1. /\ running \in WorkerId /\ running # NoWorker /\ running' = NoWorker
        /\ left' = left
    BY <1>1, <1>7 DEF Reconcile
  <2>2. runnable' = runnable \/ runnable' = Append(runnable, running)
    BY <1>7 DEF Reconcile
  <2>3. /\ SubSeq(runnable', 1, left) = SubSeq(runnable, 1, left)
        /\ SubSeq(runnable, 1, left) \in Seq(WorkerId)
        /\ left <= Len(runnable')
    <3>1. /\ SubSeq(Append(runnable, running), 1, left) = SubSeq(runnable, 1, left)
          /\ SubSeq(runnable, 1, left) \in Seq(WorkerId)
          /\ left <= Len(Append(runnable, running))
      BY <1>1, <2>1, FirstOfLonger
    <3>2. QED BY <1>1, <2>2, <3>1, Zenon
  <2>4. CASE left = 0
    BY <2>1, <2>3, <2>4 DEF RoundRunsPlan, BetweenRounds, LeftIsQueued
  <2>5. CASE left # 0
    <3>1. plan' = plan /\ ran' = Append(ran, running)
      BY <1>7, <2>5 DEF Reconcile
    <3>2. plan = ran \o <<running>> \o SubSeq(runnable, 1, left)
      BY <2>1 DEF PlanInv, RoundRunsPlan, BetweenRounds, LeftIsQueued
    <3>3. Append(ran, running) = ran \o <<running>>
      BY <1>1, <2>1, AppendIsConcat
    <3>4. /\ Append(ran, running) \in Seq(WorkerId)
          /\ Append(ran, running) \o <<>> = Append(ran, running)
      BY <1>1, <2>1, AppendProperties, ConcatEmptySeq
    <3>5. plan' = ran' \o <<>> \o SubSeq(runnable', 1, left')
      BY <2>1, <2>3, <3>1, <3>2, <3>3, <3>4
    <3>6. QED BY <2>1, <2>3, <3>5 DEF RoundRunsPlan, LeftIsQueued
  <2>6. QED BY <2>4, <2>5
<1>8. Opcode \/ BudgetExhausted => UNCHANGED <<runnable, left, running, plan, ran>>
  BY FrameOnly DEF queues
<1>9. HostCall => BetweenRounds /\ UNCHANGED <<left, running>>
  BY DEF HostCall, Spawn, Wake, Deliver, roundVars
<1>10. UNCHANGED vars => UNCHANGED <<runnable, left, running, plan, ran>>
  BY DEF vars, queues, roundVars
<1>11. QED BY <1>2, <1>3, <1>4, <1>5, <1>6, <1>7, <1>8, <1>9, <1>10
           DEF Next, RoundStep

\* A round gives each worker it found runnable one turn, in queue order, and no
\* other: not what was woken by a message or requeued in the meantime.
THEOREM RoundsRunTheirPlan == Spec => []RoundRunsPlan
<1>1. Init => LeftIsQueued /\ RoundRunsPlan
  <2>1. Len(<<>>) = 0
    OBVIOUS
  <2>2. QED BY <2>1 DEF Init, RoundRunsPlan, BetweenRounds, LeftIsQueued
<1>2. PlanInv /\ TypeOK' /\ [Next]_vars => LeftIsQueued' /\ RoundRunsPlan'
  BY PlanStep
<1>3. QED BY <1>1, <1>2, TypeCorrect, PTL DEF Spec, PlanInv

(***************************************************************************)
(* The refinement: lemmas on the messages to one worker.                   *)
(***************************************************************************)

\* Appending to what is behind a, and to a itself.
LEMMA AppendBehind ==
    ASSUME NEW T, NEW a \in Seq(T), NEW b \in Seq(T), NEW e \in T
    PROVE  a \o Append(b, e) = Append(a \o b, e)
<1>1. \A q, r, s \in Seq(T) : (q \o r) \o s = q \o (r \o s)
  BY Associative, SMTT(30) DEF Associates
<1>2. a \o b \in Seq(T) /\ <<e>> \in Seq(T)
  BY ConcatProperties
<1>3. (a \o b) \o <<e>> = a \o (b \o <<e>>)
  BY <1>1, <1>2, Zenon
<1>4. Append(a \o b, e) = (a \o b) \o <<e>> /\ Append(b, e) = b \o <<e>>
  BY <1>2, AppendIsConcat
<1>5. QED BY <1>3, <1>4

LEMMA MessageBehind ==
    \A a, b \in Seq(Message) : \A e \in Message : a \o Append(b, e) = Append(a \o b, e)
BY AppendBehind

LEMMA AppendBefore ==
    ASSUME NEW T, NEW a \in Seq(T), NEW b \in Seq(T), NEW e \in T
    PROVE  Append(a, e) \o b = a \o (<<e>> \o b)
<1>1. \A q, r, s \in Seq(T) : (q \o r) \o s = q \o (r \o s)
  BY Associative, SMTT(30) DEF Associates
<1>2. <<e>> \in Seq(T)
  OBVIOUS
<1>3. (a \o <<e>>) \o b = a \o (<<e>> \o b)
  BY <1>1, <1>2, Zenon
<1>4. Append(a, e) = a \o <<e>>
  BY AppendIsConcat
<1>5. QED BY <1>3, <1>4

\* The tail of two queues is in the first, if that is not empty.
LEMMA MailTail ==
    \A a, b \in Seq(Message) : a # <<>> => /\ a \o b # <<>>
                                           /\ Tail(a \o b) = Tail(a) \o b
<1> SUFFICES ASSUME NEW a \in Seq(Message), NEW b \in Seq(Message), a # <<>>
             PROVE  a \o b # <<>> /\ Tail(a \o b) = Tail(a) \o b
  OBVIOUS
<1>1. /\ Tail(a) \in Seq(Message) /\ Len(Tail(a)) = Len(a) - 1 /\ Len(a) > 0
      /\ \A i \in 1..Len(Tail(a)) : Tail(a)[i] = a[i + 1]
  BY HeadTailProperties
<1>2. /\ a \o b \in Seq(Message) /\ Len(a \o b) = Len(a) + Len(b)
      /\ \A i \in 1..(Len(a) + Len(b)) :
            (a \o b)[i] = IF i <= Len(a) THEN a[i] ELSE b[i - Len(a)]
  BY ConcatProperties
<1>3. /\ Tail(a) \o b \in Seq(Message) /\ Len(Tail(a) \o b) = Len(Tail(a)) + Len(b)
      /\ \A i \in 1..(Len(Tail(a)) + Len(b)) :
            (Tail(a) \o b)[i] = IF i <= Len(Tail(a)) THEN Tail(a)[i]
                                ELSE b[i - Len(Tail(a))]
  BY <1>1, ConcatProperties
<1>4. Len(a) \in Nat /\ Len(b) \in Nat /\ Len(a \o b) > 0
  BY <1>1, <1>2
<1>5. /\ a \o b # <<>> /\ Tail(a \o b) \in Seq(Message)
      /\ Len(Tail(a \o b)) = Len(a) + Len(b) - 1
      /\ \A i \in 1..(Len(a) + Len(b) - 1) : Tail(a \o b)[i] = (a \o b)[i + 1]
  BY <1>2, <1>4, HeadTailProperties
<1>6. ASSUME NEW i \in 1..(Len(a) + Len(b) - 1)
      PROVE  Tail(a \o b)[i] = (Tail(a) \o b)[i]
  <2>1. /\ i + 1 \in 1..(Len(a) + Len(b)) /\ i \in 1..(Len(Tail(a)) + Len(b))
        /\ i <= Len(a) - 1 => i \in 1..Len(Tail(a))
    BY <1>1, <1>4
  <2>2. QED BY <1>1, <1>2, <1>3, <1>4, <1>5, <2>1
<1>7. QED BY <1>1, <1>3, <1>4, <1>5, <1>6, SeqEqual

\* g is the function by which Addressed is defined.
Collects(g, w, q) ==
    g = [n \in 0..Len(q) |->
            IF n = 0 THEN <<>>
            ELSE IF q[n].to = w THEN Append(g[n - 1], q[n]) ELSE g[n - 1]]

\* One more message looked at.
Step(w, m, s) == IF m.to = w THEN Append(s, m) ELSE s

LEMMA CollectsUnique ==
    ASSUME NEW w, NEW T, NEW q \in Seq(T), NEW f, NEW g,
           Collects(f, w, q), Collects(g, w, q)
    PROVE  f = g
<1>1. Len(q) \in Nat
  OBVIOUS
<1> DEFINE S == {n \in 0..Len(q) : f[n] = g[n]}
<1>2. 0 \in S
  BY <1>1 DEF Collects
<1>3. ASSUME NEW k \in 0..Len(q), k \in S, k < Len(q)
      PROVE  k + 1 \in S
  <2>1. k + 1 \in 0..Len(q) /\ k + 1 # 0 /\ (k + 1) - 1 = k
    BY <1>1, <1>3
  <2>2. f[k + 1] = Step(w, q[k + 1], f[k]) /\ g[k + 1] = Step(w, q[k + 1], g[k])
    BY <2>1 DEF Collects, Step
  <2>3. QED BY <1>3, <2>1, <2>2
<1>4. 0..Len(q) \subseteq S
  BY <1>1, <1>2, <1>3, Inductive
<1>5. /\ f = [n \in 0..Len(q) |-> f[n]]
      /\ g = [n \in 0..Len(q) |-> g[n]]
  BY DEF Collects
<1>6. QED BY <1>4, <1>5

\* Of any g that collects, the last is the result.
LEMMA AddressedBy ==
    ASSUME NEW w, NEW T, NEW q \in Seq(T), NEW g, Collects(g, w, q)
    PROVE  Addressed(w, q) = g[Len(q)]
<1> DEFINE f == CHOOSE h : Collects(h, w, q)
<1>1. Collects(f, w, q)
  OBVIOUS
<1>2. f = g
  BY <1>1, CollectsUnique
<1>3. Addressed(w, q) = f[Len(q)]
  BY DEF Addressed, Collects
<1>4. QED BY <1>2, <1>3

\* g has in g[n] what the first n messages of q have for w.
Prefixes(g, w, q, T) ==
    /\ g \in [0..Len(q) -> Seq(T)]
    /\ g[0] = <<>>
    /\ \A n \in 0..Len(q) : n < Len(q) => g[n + 1] = Step(w, q[n + 1], g[n])

LEMMA PrefixesCollect ==
    ASSUME NEW w, NEW T, NEW q \in Seq(T), NEW g, Prefixes(g, w, q, T)
    PROVE  Collects(g, w, q)
<1>1. Len(q) \in Nat
  OBVIOUS
<1>2. ASSUME NEW n \in 0..Len(q)
      PROVE  g[n] = IF n = 0 THEN <<>>
                    ELSE IF q[n].to = w THEN Append(g[n - 1], q[n]) ELSE g[n - 1]
  <2>1. CASE n = 0
    BY <2>1 DEF Prefixes
  <2>2. CASE n # 0
    <3>1. n - 1 \in 0..Len(q) /\ n - 1 < Len(q) /\ (n - 1) + 1 = n
      BY <1>1, <2>2
    <3>2. QED BY <2>2, <3>1 DEF Prefixes, Step
  <2>3. QED BY <2>1, <2>2
<1>3. g = [n \in 0..Len(q) |-> g[n]]
  BY DEF Prefixes
<1>4. QED BY <1>2, <1>3 DEF Collects

\* Of a g that has them, the last is the result.
LEMMA AddressedIs ==
    ASSUME NEW w, NEW T, NEW q \in Seq(T), NEW g, Prefixes(g, w, q, T)
    PROVE  Addressed(w, q) = g[Len(q)]
<1>1. Collects(g, w, q)
  BY PrefixesCollect
<1>2. QED BY <1>1, AddressedBy

\* There is one, however long q is.
LEMMA PrefixesExist ==
    ASSUME NEW w, NEW T, NEW q \in Seq(T)
    PROVE  \E g : Prefixes(g, w, q, T)
<1>1. Len(q) \in Nat /\ \A i \in 1..Len(q) : q[i] \in T
  OBVIOUS
<1> DEFINE UpTo(g, k) ==
              /\ g \in [0..k -> Seq(T)]
              /\ g[0] = <<>>
              /\ \A n \in 0..k : n < k => g[n + 1] = Step(w, q[n + 1], g[n])
           S == {k \in 0..Len(q) : \E g : UpTo(g, k)}
<1>2. 0 \in S
  <2>1. UpTo([n \in 0..0 |-> <<>>], 0)
    OBVIOUS
  <2> HIDE DEF UpTo
  <2>2. \E g : UpTo(g, 0)
    BY <2>1
  <2>3. QED BY <1>1, <2>2
<1>3. ASSUME NEW k \in 0..Len(q), k \in S, k < Len(q)
      PROVE  k + 1 \in S
  <2>1. PICK g : UpTo(g, k)
    BY <1>3
  <2> DEFINE h == [n \in 0..(k + 1) |->
                      IF n = k + 1 THEN Step(w, q[k + 1], g[k]) ELSE g[n]]
  <2>2. k \in Nat /\ k + 1 \in 1..Len(q) /\ k \in 0..k /\ 0 \in 0..k
    BY <1>1, <1>3
  <2>3. g[k] \in Seq(T) /\ q[k + 1] \in T
    BY <1>1, <2>1, <2>2
  <2>4. Step(w, q[k + 1], g[k]) \in Seq(T)
    BY <2>3 DEF Step
  <2>5. h \in [0..(k + 1) -> Seq(T)]
    <3>1. ASSUME NEW n \in 0..(k + 1), n # k + 1 PROVE g[n] \in Seq(T)
      <4>1. n \in 0..k
        BY <2>2, <3>1
      <4>2. QED BY <2>1, <4>1
    <3>2. QED BY <2>4, <3>1
  <2>6. h[0] = <<>>
    BY <2>1, <2>2
  <2>7. ASSUME NEW n \in 0..(k + 1), n < k + 1
        PROVE  h[n + 1] = Step(w, q[n + 1], h[n])
    <3>1. n \in 0..k /\ n # k + 1 /\ n + 1 \in 0..(k + 1)
      BY <2>2, <2>7
    <3>2. CASE n = k
      BY <2>2, <3>1, <3>2
    <3>3. CASE n # k
      <4>1. n < k /\ n + 1 # k + 1
        BY <2>2, <3>1, <3>3
      <4>2. g[n + 1] = Step(w, q[n + 1], g[n])
        BY <2>1, <3>1, <4>1
      <4>3. QED BY <3>1, <4>1, <4>2
    <3>4. QED BY <3>2, <3>3
  <2>8. UpTo(h, k + 1)
    BY <2>5, <2>6, <2>7
  <2> HIDE DEF UpTo, h
  <2>9. QED BY <1>1, <1>3, <2>2, <2>8
<1>4. 0..Len(q) \subseteq S
  <2> HIDE DEF S
  <2>1. QED BY <1>1, <1>2, <1>3, Inductive
<1>5. Len(q) \in 0..Len(q)
  BY <1>1
<1>6. PICK g : UpTo(g, Len(q))
  BY <1>4, <1>5
<1>7. Prefixes(g, w, q, T)
  BY <1>6 DEF Prefixes
<1>8. QED BY <1>7

\* What Addressed takes out of a queue is made of the queue's messages.
LEMMA AddressedType ==
    ASSUME NEW w, NEW T, NEW q \in Seq(T)
    PROVE  Addressed(w, q) \in Seq(T)
<1>1. PICK g : Prefixes(g, w, q, T)
  BY PrefixesExist
<1>2. Addressed(w, q) = g[Len(q)]
  BY <1>1, AddressedIs
<1>3. Len(q) \in 0..Len(q)
  OBVIOUS
<1>4. QED BY <1>1, <1>2, <1>3 DEF Prefixes

LEMMA AddressedEmpty ==
    ASSUME NEW w
    PROVE  Addressed(w, <<>>) = <<>>
<1>1. <<>> \in Seq({}) /\ Len(<<>>) = 0
  OBVIOUS
<1>2. PICK g : Prefixes(g, w, <<>>, {})
  BY <1>1, PrefixesExist
<1>3. Addressed(w, <<>>) = g[Len(<<>>)]
  BY <1>1, <1>2, AddressedIs
<1>4. QED BY <1>1, <1>2, <1>3 DEF Prefixes

\* A message sent is behind the others that are to its receiver.
LEMMA AddressedAppend ==
    ASSUME NEW w, NEW T, NEW q \in Seq(T), NEW m \in T
    PROVE  Addressed(w, Append(q, m)) = Step(w, m, Addressed(w, q))
<1> DEFINE p == Append(q, m)
<1>1. /\ p \in Seq(T) /\ Len(p) = Len(q) + 1 /\ Len(q) \in Nat
      /\ p[Len(q) + 1] = m
      /\ \A i \in 1..Len(q) : p[i] = q[i]
  BY AppendProperties
<1>2. PICK g : Prefixes(g, w, q, T)
  BY PrefixesExist
<1>3. PICK f : Prefixes(f, w, p, T)
  BY <1>1, PrefixesExist
<1>4. /\ Addressed(w, q) = g[Len(q)]
      /\ Addressed(w, p) = f[Len(q) + 1]
  <2> HIDE DEF p
  <2>1. Addressed(w, q) = g[Len(q)]
    BY <1>2, AddressedIs
  <2>2. Addressed(w, p) = f[Len(p)]
    BY <1>1, <1>3, AddressedIs
  <2>3. QED BY <1>1, <2>1, <2>2
<1> DEFINE S == {n \in 0..Len(q) : f[n] = g[n]}
<1>5. 0 \in S
  BY <1>1, <1>2, <1>3 DEF Prefixes
<1>6. ASSUME NEW k \in 0..Len(q), k \in S, k < Len(q)
      PROVE  k + 1 \in S
  <2>1. k + 1 \in 0..Len(q) /\ k + 1 \in 1..Len(q) /\ k \in 0..Len(p) /\ k < Len(p)
    BY <1>1, <1>6
  <2>2. g[k + 1] = Step(w, q[k + 1], g[k])
    BY <1>2, <1>6 DEF Prefixes
  <2>3. f[k + 1] = Step(w, p[k + 1], f[k])
    BY <1>3, <2>1 DEF Prefixes
  <2>4. p[k + 1] = q[k + 1]
    BY <1>1, <2>1
  <2>5. QED BY <1>6, <2>1, <2>2, <2>3, <2>4
<1>7. 0..Len(q) \subseteq S
  <2> HIDE DEF S
  <2>1. QED BY <1>1, <1>5, <1>6, Inductive
<1>8. Len(q) \in 0..Len(q) /\ Len(q) \in 0..Len(p) /\ Len(q) < Len(p)
  BY <1>1
<1>9. f[Len(q)] = g[Len(q)]
  BY <1>7, <1>8
<1>10. f[Len(q) + 1] = Step(w, p[Len(q) + 1], f[Len(q)])
  BY <1>3, <1>8 DEF Prefixes
<1>11. QED BY <1>1, <1>4, <1>9, <1>10

\* The message routed first is the first of those to its receiver.
LEMMA AddressedTail ==
    ASSUME NEW w, NEW T, NEW q \in Seq(T), q # <<>>
    PROVE  Addressed(w, q) =
               (IF Head(q).to = w THEN <<Head(q)>> ELSE <<>>) \o Addressed(w, Tail(q))
<1>0. \A a, b, c \in Seq(T) : (a \o b) \o c = a \o (b \o c)
  BY Associative, SMTT(30) DEF Associates
<1> DEFINE t == Tail(q)
           h == IF Head(q).to = w THEN <<Head(q)>> ELSE <<>>
<1>1. /\ t \in Seq(T) /\ Len(t) = Len(q) - 1 /\ Len(q) \in Nat /\ Len(q) > 0
      /\ Head(q) = q[1] /\ Head(q) \in T
      /\ \A i \in 1..Len(t) : t[i] = q[i + 1] /\ t[i] \in T
  BY HeadTailProperties, ElementOfSeq
<1>2. PICK g : Prefixes(g, w, q, T)
  BY PrefixesExist
<1>3. PICK f : Prefixes(f, w, t, T)
  BY <1>1, PrefixesExist
<1>4. /\ Addressed(w, q) = g[Len(t) + 1]
      /\ Addressed(w, t) = f[Len(t)]
  <2>1. Len(t) + 1 = Len(q)
    BY <1>1
  <2> HIDE DEF t
  <2>2. Addressed(w, q) = g[Len(q)]
    BY <1>2, AddressedIs
  <2>3. Addressed(w, t) = f[Len(t)]
    BY <1>1, <1>3, AddressedIs
  <2>4. QED BY <2>1, <2>2, <2>3
<1>5. h \in Seq(T)
  BY <1>1
<1> DEFINE S == {n \in 0..Len(t) : g[n + 1] = h \o f[n]}
<1>6. 0 \in S
  <2>1. 0 \in 0..Len(q) /\ 0 < Len(q) /\ 0 \in 0..Len(t)
    BY <1>1
  <2>2. g[0 + 1] = Step(w, q[0 + 1], g[0]) /\ g[0] = <<>> /\ f[0] = <<>>
    BY <1>2, <1>3, <2>1 DEF Prefixes
  <2>3. Append(<<>>, Head(q)) = <<Head(q)>> /\ 0 + 1 = 1
    OBVIOUS
  <2>4. h \o <<>> = h
    BY <1>5, ConcatEmptySeq
  <2>5. Step(w, Head(q), <<>>) = h
    BY <2>3 DEF Step
  <2>6. QED BY <1>1, <2>1, <2>2, <2>3, <2>4, <2>5
<1>7. ASSUME NEW k \in 0..Len(t), k \in S, k < Len(t)
      PROVE  k + 1 \in S
  <2>1. /\ k + 1 \in 0..Len(t) /\ k + 1 \in 1..Len(t)
        /\ k + 1 \in 0..Len(q) /\ k + 1 < Len(q)
    BY <1>1, <1>7
  <2>2. f[k + 1] = Step(w, t[k + 1], f[k]) /\ f[k] \in Seq(T)
    BY <1>3, <1>7 DEF Prefixes
  <2>3. g[(k + 1) + 1] = Step(w, q[(k + 1) + 1], g[k + 1])
    BY <1>2, <2>1 DEF Prefixes
  <2>4. t[k + 1] = q[(k + 1) + 1] /\ t[k + 1] \in T
    BY <1>1, <2>1
  <2>5. g[k + 1] = h \o f[k]
    BY <1>7
  <2> HIDE DEF h, t
  <2>6. Append(h \o f[k], t[k + 1]) = h \o Append(f[k], t[k + 1])
    <3>1. /\ h \in Seq(T) /\ f[k] \in Seq(T) /\ h \o f[k] \in Seq(T)
          /\ <<t[k + 1]>> \in Seq(T) /\ t[k + 1] \in T
      BY <1>5, <2>2, <2>4, ConcatProperties
    <3>2. (h \o f[k]) \o <<t[k + 1]>> = h \o (f[k] \o <<t[k + 1]>>)
      BY <1>0, <3>1, ZenonT(30)
    <3>3. /\ Append(h \o f[k], t[k + 1]) = (h \o f[k]) \o <<t[k + 1]>>
          /\ Append(f[k], t[k + 1]) = f[k] \o <<t[k + 1]>>
      BY <3>1, AppendIsConcat
    <3>4. QED BY <3>2, <3>3
  <2>7. Step(w, t[k + 1], h \o f[k]) = h \o Step(w, t[k + 1], f[k])
    BY <2>6 DEF Step
  <2>8. QED BY <2>1, <2>2, <2>3, <2>4, <2>5, <2>7
<1>8. 0..Len(t) \subseteq S
  <2>1. Len(t) \in Nat
    BY <1>1
  <2> HIDE DEF S, t
  <2>2. QED BY <2>1, <1>6, <1>7, Inductive
<1>9. Len(t) \in 0..Len(t)
  BY <1>1
<1>10. g[Len(t) + 1] = h \o f[Len(t)]
  BY <1>8, <1>9
<1>11. QED BY <1>4, <1>10

(***************************************************************************)
(* The mailboxes of the scheduler.                                         *)
(***************************************************************************)

\* What the mapping of a step rests on.
BoxInv == FilingInv /\ MailInv

LEMMA BoxTypes ==
    ASSUME BoxInv
    PROVE  /\ inbox \in [WorkerId -> Seq(Message)]
           /\ outbox \in [WorkerId -> Seq(Message)]
           /\ atRecv \subseteq WorkerId /\ workers \subseteq WorkerId
           /\ Host \notin WorkerId /\ NoWorker \notin WorkerId
           /\ running \in WorkerId \cup {NoWorker}
           /\ running # NoWorker => running \in workers
           /\ \A w \in WorkerId : InFlight(w) \in Seq(Message)
           /\ Mail \in [WorkerId -> Seq(Message)]
<1>1. /\ inbox \in [WorkerId -> Seq(Message)]
      /\ outbox \in [WorkerId -> Seq(Message)]
      /\ atRecv \subseteq WorkerId /\ workers \subseteq WorkerId
      /\ Host \notin WorkerId /\ NoWorker \notin WorkerId
      /\ running \in WorkerId \cup {NoWorker}
      /\ running # NoWorker => running \in workers
  BY Places DEF BoxInv, FilingInv, TypeOK, Host, NoWorker
<1>2. ASSUME NEW w \in WorkerId PROVE InFlight(w) \in Seq(Message)
  <2>1. CASE running = NoWorker
    BY <2>1 DEF InFlight
  <2>2. CASE running # NoWorker
    <3>1. outbox[running] \in Seq(Message)
      BY <1>1, <2>2
    <3>2. QED BY <2>2, <3>1, AddressedType DEF InFlight
  <2>3. QED BY <2>1, <2>2
<1>3. ASSUME NEW w \in WorkerId
      PROVE  (IF w \in workers THEN inbox[w] \o InFlight(w) ELSE <<>>) \in Seq(Message)
  <2>1. inbox[w] \in Seq(Message)
    BY <1>1
  <2>2. inbox[w] \o InFlight(w) \in Seq(Message)
    BY <1>2, <2>1, ConcatProperties
  <2>3. QED BY <2>2
<1>4. Mail \in [WorkerId -> Seq(Message)]
  BY <1>3 DEF Mail
<1>5. QED BY <1>1, <1>2, <1>4

\* Mail is what it is made of.
LEMMA SameMail ==
    ASSUME UNCHANGED <<workers, inbox>>,
           \A w \in workers : InFlight(w)' = InFlight(w)
    PROVE  Mail' = Mail
BY DEF Mail

(***************************************************************************)
(* The steps.                                                              *)
(***************************************************************************)

\* A worker spawned has an empty mailbox, and it joins, or takes the place of the
\* last one.
LEMMA SpawnJoins ==
    ASSUME BoxInv, Spawn
    PROVE  Boxes!Replace \/ \E w \in WorkerId : Boxes!Join(w)
<1>1. /\ nextWorkerId \in WorkerId
      /\ nextWorkerId \in workers => nextWorkerId = MaxWorkerId
      /\ workers' = workers \cup {nextWorkerId}
      /\ inbox' = [inbox EXCEPT ![nextWorkerId] = <<>>]
      /\ atRecv' = atRecv \ {nextWorkerId}
      /\ running = NoWorker /\ running' = NoWorker
      /\ inbox \in [WorkerId -> Seq(Message)]
  BY MaxWorkerIdAssumption
     DEF BoxInv, FilingInv, TypeOK, IdsInUse, WorkerId, Spawn, BetweenRounds,
         roundVars
<1>2. \A w \in WorkerId : InFlight(w) = <<>> /\ InFlight(w)' = <<>>
  BY <1>1 DEF InFlight
<1>3. <<>> \o <<>> = <<>>
  OBVIOUS
<1>4. Mail' = [Mail EXCEPT ![nextWorkerId] = <<>>]
  <2>1. \A w \in WorkerId : w # nextWorkerId => Mail'[w] = Mail[w]
    BY <1>1, <1>2 DEF Mail
  <2>2. Mail'[nextWorkerId] = <<>>
    BY <1>1, <1>2, <1>3 DEF Mail
  <2>3. /\ Mail' = [w \in WorkerId |-> Mail'[w]]
        /\ Mail = [w \in WorkerId |-> Mail[w]]
    BY DEF Mail
  <2>4. QED BY <1>1, <2>1, <2>2, <2>3
<1>5. CASE nextWorkerId \in workers
  <2>1. workers' = workers
    BY <1>1, <1>5
  <2>2. QED BY <1>1, <1>4, <1>5, <2>1 DEF Boxes!Replace
<1>6. CASE nextWorkerId \notin workers
  <2>1. Mail[nextWorkerId] = <<>>
    BY <1>1, <1>6 DEF Mail
  <2>2. Mail' = Mail
    <3>1. Mail = [w \in WorkerId |-> Mail[w]]
      BY DEF Mail
    <3>2. QED BY <1>1, <1>4, <2>1, <3>1
  <2>3. QED BY <1>1, <1>6, <2>2 DEF Boxes!Join
<1>7. QED BY <1>5, <1>6

\* What the host delivers is posted.
LEMMA DeliverPosts ==
    ASSUME BoxInv, NEW m \in Message, m.from = Host, Deliver(m)
    PROVE  Boxes!Post(m)
<1>1. /\ m.to \in WorkerId /\ m.from \notin atRecv
      /\ workers' = workers /\ atRecv' = atRecv
      /\ running = NoWorker /\ running' = NoWorker
      /\ DeliverTo(m)
  BY BoxTypes DEF Message, Deliver, BetweenRounds, roundVars
<1>2. inbox \in [WorkerId -> Seq(Message)]
  BY BoxTypes
<1>3. \A w \in WorkerId : InFlight(w) = <<>> /\ InFlight(w)' = <<>>
  BY <1>1 DEF InFlight
<1>4. \A q \in Seq(Message) : q \o <<>> = q
  BY ConcatEmptySeq
<1>5. Mail = [w \in WorkerId |-> IF w \in workers THEN inbox[w] ELSE <<>>]
  BY <1>2, <1>3, <1>4 DEF Mail
<1>6. CASE m.to \in workers
  <2>1. inbox' = [inbox EXCEPT ![m.to] = Append(@, m)]
    BY <1>1, <1>6 DEF DeliverTo
  <2>2. Append(inbox[m.to], m) \in Seq(Message)
    BY <1>1, <1>2
  <2>3. inbox' \in [WorkerId -> Seq(Message)]
    BY <1>2, <2>1, <2>2
  <2>4. Mail' = [w \in WorkerId |-> IF w \in workers THEN inbox'[w] ELSE <<>>]
    BY <1>1, <1>3, <1>4, <2>3 DEF Mail
  <2>5. Mail' = [Mail EXCEPT ![m.to] = Append(@, m)]
    BY <1>1, <1>2, <1>5, <1>6, <2>1, <2>4
  <2>6. QED BY <1>1, <1>6, <2>5 DEF Boxes!Post
<1>7. CASE m.to \notin workers
  <2>1. inbox' = inbox
    BY <1>1, <1>7 DEF DeliverTo
  <2>2. Mail' = Mail
    BY <1>1, <1>3, <2>1 DEF Mail
  <2>3. QED BY <1>1, <1>7, <2>2 DEF Boxes!Post
<1>8. QED BY <1>6, <1>7

\* What a worker sends counts as posted when it is sent.
LEMMA SendPosts ==
    ASSUME BoxInv, NEW w \in WorkerId, NEW p \in Payload, OpSend(w, p)
    PROVE  \E m \in Message : Boxes!Post(m)
<1> DEFINE m == [from |-> running, to |-> w, payload |-> p]
<1>1. /\ running \in WorkerId /\ running # NoWorker /\ running \notin atRecv
      /\ outbox' = [outbox EXCEPT ![running] = Append(@, m)]
      /\ inbox' = inbox /\ atRecv' = atRecv /\ workers' = workers
      /\ running' = running
  BY BoxTypes DEF OpSend, InFrame, FrameUnchanged
<1>2. /\ inbox \in [WorkerId -> Seq(Message)]
      /\ outbox[running] \in Seq(Message)
      /\ Mail \in [WorkerId -> Seq(Message)]
  BY <1>1, BoxTypes
<1>3. m \in Message /\ m.to = w /\ m.from = running
  BY <1>1 DEF Message
<1>4. outbox'[running] = Append(outbox[running], m)
  BY <1>1, BoxTypes
<1>5. ASSUME NEW v \in WorkerId
      PROVE  /\ InFlight(v) = Addressed(v, outbox[running])
             /\ InFlight(v)' = Step(v, m, Addressed(v, outbox[running]))
             /\ Addressed(v, outbox[running]) \in Seq(Message)
  <2> HIDE DEF m
  <2>1. InFlight(v)' = Addressed(v, outbox'[running])
    BY <1>1 DEF InFlight
  <2>2. Addressed(v, Append(outbox[running], m))
           = Step(v, m, Addressed(v, outbox[running]))
    BY <1>2, <1>3, AddressedAppend
  <2>3. QED BY <1>1, <1>2, <1>4, <2>1, <2>2, AddressedType DEF InFlight
<1>6. ASSUME NEW v \in WorkerId, v # w
      PROVE  InFlight(v)' = InFlight(v)
  BY <1>3, <1>5, <1>6 DEF Step
<1>7. InFlight(w)' = Append(InFlight(w), m) /\ InFlight(w) \in Seq(Message)
  BY <1>3, <1>5 DEF Step
<1>8. inbox[w] \o Append(InFlight(w), m) = Append(inbox[w] \o InFlight(w), m)
  <2> HIDE DEF m
  <2>1. inbox[w] \in Seq(Message) /\ InFlight(w) \in Seq(Message)
    BY <1>2, <1>7
  <2>2. QED BY <1>3, <2>1, MessageBehind, Zenon
<1>9. Mail' = IF w \in workers THEN [Mail EXCEPT ![w] = Append(@, m)] ELSE Mail
  <2> HIDE DEF m
  <2>1. CASE w \in workers
    <3>1. Mail[w] = inbox[w] \o InFlight(w)
      BY <2>1 DEF Mail
    <3>2. Mail'[w] = Append(Mail[w], m)
      BY <1>1, <1>7, <1>8, <2>1, <3>1 DEF Mail
    <3>3. \A v \in WorkerId : v # w => Mail'[v] = Mail[v]
      BY <1>1, <1>6 DEF Mail
    <3>4. Mail' = [v \in WorkerId |-> Mail'[v]]
      BY DEF Mail
    <3>5. QED BY <1>2, <2>1, <3>2, <3>3, <3>4
  <2>2. CASE w \notin workers
    BY <1>1, <1>6, <2>2 DEF Mail
  <2>3. QED BY <2>1, <2>2
<1>10. Boxes!Post(m)
  BY <1>1, <1>3, <1>9 DEF Boxes!Post
<1>11. QED BY <1>3, <1>10

\* Routing takes the sender's oldest message to the end of the inbox: the
\* mailbox it is in stays as it was.
LEMMA RouteStutters ==
    ASSUME BoxInv, RouteOutbox
    PROVE  UNCHANGED <<workers, Mail, atRecv>>
<1> DEFINE q == outbox[running]
           m == Head(q)
<1>1. /\ running \in WorkerId /\ running # NoWorker
      /\ q # <<>> /\ DeliverTo(m)
      /\ outbox' = [outbox EXCEPT ![running] = Tail(@)]
      /\ workers' = workers /\ atRecv' = atRecv /\ running' = running
  BY BoxTypes DEF RouteOutbox, roundVars
<1>2. /\ inbox \in [WorkerId -> Seq(Message)]
      /\ q \in Seq(Message) /\ m \in Message /\ Tail(q) \in Seq(Message)
      /\ outbox'[running] = Tail(q)
  BY <1>1, BoxTypes, HeadTailProperties
<1>3. m.to \in WorkerId
  BY <1>2 DEF Message
<1>4. ASSUME NEW w \in WorkerId
      PROVE  /\ InFlight(w) = (IF m.to = w THEN <<m>> ELSE <<>>) \o InFlight(w)'
             /\ InFlight(w)' \in Seq(Message)
  <2>1. InFlight(w) = Addressed(w, q)
    BY <1>1 DEF InFlight
  <2>2. InFlight(w)' = Addressed(w, Tail(q))
    BY <1>1, <1>2 DEF InFlight
  <2> HIDE DEF q
  <2>3. Addressed(w, q) = (IF Head(q).to = w THEN <<Head(q)>> ELSE <<>>)
                            \o Addressed(w, Tail(q))
    BY <1>1, <1>2, AddressedTail
  <2>4. Addressed(w, Tail(q)) \in Seq(Message)
    BY <1>2, AddressedType
  <2>5. QED BY <2>1, <2>2, <2>3, <2>4
<1>5. ASSUME NEW w \in workers
      PROVE  inbox'[w] \o InFlight(w)' = inbox[w] \o InFlight(w)
  <2>1. w \in WorkerId /\ inbox[w] \in Seq(Message) /\ InFlight(w)' \in Seq(Message)
    BY <1>2, <1>4, BoxTypes
  <2>2. CASE m.to = w
    <3>1. inbox'[w] = Append(inbox[w], m)
      BY <1>1, <1>2, <2>1, <2>2 DEF DeliverTo
    <3>2. InFlight(w) = <<m>> \o InFlight(w)'
      BY <1>4, <2>1, <2>2
    <3> HIDE DEF m
    <3>3. QED BY <1>2, <2>1, <3>1, <3>2, AppendBefore
  <2>3. CASE m.to # w
    <3>1. inbox'[w] = inbox[w]
      BY <1>1, <1>2, <1>3, <2>1, <2>3 DEF DeliverTo
    <3>2. InFlight(w) = <<>> \o InFlight(w)'
      BY <1>4, <2>1, <2>3
    <3>3. <<>> \o InFlight(w)' = InFlight(w)'
      BY <2>1, ConcatEmptySeq
    <3>4. QED BY <3>1, <3>2, <3>3
  <2>4. QED BY <2>2, <2>3
<1>6. QED BY <1>1, <1>5 DEF Mail

\* What a receive takes is the head of the mailbox: the inbox comes before what
\* is still in flight.
LEMMA ReceiveTakes ==
    ASSUME BoxInv, OpRecv \/ OpTryRecv
    PROVE  Boxes!Take(running) /\ Mail' # Mail
<1>1. /\ running \in WorkerId /\ running # NoWorker /\ running \in workers
      /\ inbox[running] # <<>>
      /\ inbox' = [inbox EXCEPT ![running] = Tail(@)]
      /\ atRecv' = atRecv \ {running}
      /\ workers' = workers /\ running' = running /\ outbox' = outbox
  BY BoxTypes DEF OpRecv, OpTryRecv, InFrame, FrameUnchanged
<1>2. /\ inbox \in [WorkerId -> Seq(Message)]
      /\ Mail \in [WorkerId -> Seq(Message)]
      /\ InFlight(running) \in Seq(Message)
  BY <1>1, BoxTypes
<1>3. \A w \in WorkerId : InFlight(w)' = InFlight(w)
  BY <1>1 DEF InFlight
<1>4. Mail[running] = inbox[running] \o InFlight(running)
  BY <1>1 DEF Mail
<1>5. /\ inbox[running] \o InFlight(running) # <<>>
      /\ Tail(inbox[running] \o InFlight(running))
            = Tail(inbox[running]) \o InFlight(running)
  <2>1. inbox[running] \in Seq(Message)
    BY <1>1, <1>2
  <2>2. QED BY <1>1, <1>2, <2>1, MailTail, Zenon
<1>6. Mail'[running] = Tail(Mail[running])
  <2>1. Mail'[running] = Tail(inbox[running]) \o InFlight(running)
    BY <1>1, <1>2, <1>3 DEF Mail
  <2>2. QED BY <1>4, <1>5, <2>1
<1>7. \A w \in WorkerId : w # running => Mail'[w] = Mail[w]
  BY <1>1, <1>2, <1>3 DEF Mail
<1>8. Mail' = [w \in WorkerId |-> Mail'[w]]
  BY DEF Mail
<1>9. Mail' = [Mail EXCEPT ![running] = Tail(@)]
  BY <1>1, <1>2, <1>6, <1>7, <1>8
<1>10. Boxes!Take(running)
  BY <1>1, <1>4, <1>5, <1>9 DEF Boxes!Take
<1>11. Tail(Mail[running]) # Mail[running]
  <2>1. Mail[running] \in Seq(Message) /\ Mail[running] # <<>>
    BY <1>1, <1>2, <1>4, <1>5
  <2> DEFINE q == Mail[running]
  <2> HIDE DEF q
  <2>2. q \in Seq(Message) /\ q # <<>>
    BY <2>1 DEF q
  <2>3. Len(q) \in Nat /\ Len(Tail(q)) = Len(q) - 1
    BY <2>2
  <2>4. Tail(q) # q
    BY <2>3
  <2>5. QED BY <2>4 DEF q
<1>12. QED BY <1>6, <1>10, <1>11

\* What a worker left at a Recv may still have in its mailbox is what it sent
\* itself in this frame.
LEMMA EmptyReceiveBlocks ==
    ASSUME BoxInv, OpRecvEmpty
    PROVE  Boxes!Block(running)
<1>1. /\ running \in WorkerId /\ running # NoWorker /\ running \in workers
      /\ inbox[running] = <<>> /\ inbox' = inbox
      /\ atRecv' = atRecv \cup {running}
      /\ workers' = workers /\ running' = running /\ outbox' = outbox
  BY BoxTypes DEF OpRecvEmpty, InFrame, FrameUnchanged
<1>2. \A w \in WorkerId : InFlight(w)' = InFlight(w)
  BY <1>1 DEF InFlight
<1>3. Mail' = Mail
  BY <1>1, <1>2 DEF Mail
<1> DEFINE Mine == {m \in Message : m.from = running}
<1>4. outbox[running] \in Seq(Mine)
  <2>1. outbox[running] \in Seq(Message) /\ Own(running, outbox[running])
    BY <1>1, BoxTypes DEF BoxInv, MailInv, OutboxIsOwn
  <2>2. \A i \in 1..Len(outbox[running]) : outbox[running][i] \in Mine
    BY <2>1 DEF Own
  <2> HIDE DEF Mine
  <2>3. QED BY <2>1, <2>2
<1>5. InFlight(running) \in Seq(Mine)
  <2> HIDE DEF Mine
  <2>1. QED BY <1>1, <1>4, AddressedType DEF InFlight
<1>6. Mail[running] = InFlight(running)
  <2>1. <<>> \o InFlight(running) = InFlight(running)
    BY <1>5, ConcatEmptySeq
  <2>2. QED BY <1>1, <2>1 DEF Mail
<1>7. ASSUME NEW i \in 1..Len(Mail[running])
      PROVE  Mail[running][i].from = running
  <2>1. InFlight(running)[i] \in Mine
    <3> HIDE DEF Mine
    <3>1. QED BY <1>5, <1>6, <1>7
  <2>2. QED BY <1>6, <2>1
<1>8. QED BY <1>1, <1>3, <1>7 DEF Boxes!Block

\* The other steps are no business of the mailboxes.
LEMMA OthersStutter ==
    ASSUME BoxInv,
           \/ \E w \in WorkerId : Wake(w)
           \/ BeginRound \/ PopRunnable \/ Reconcile
           \/ OpLocal \/ OpYield \/ OpSleep \/ OpHalt \/ OpFault \/ BudgetExhausted
           \/ UNCHANGED vars
    PROVE  UNCHANGED <<workers, Mail, atRecv>>
<1>1. workers' = workers /\ inbox' = inbox /\ outbox' = outbox /\ atRecv' = atRecv
  BY DEF Wake, BeginRound, PopRunnable, Reconcile, OpLocal, OpYield, OpSleep,
         OpHalt, OpFault, OpEnd, BudgetExhausted, FrameUnchanged, vars, vmVars
<1>2. ASSUME NEW w \in WorkerId
      PROVE  InFlight(w)' = InFlight(w)
  <2>1. CASE PopRunnable
    <3>1. /\ runnable \in Seq(WorkerId) /\ runnable # <<>>
          /\ running = NoWorker /\ running' = Head(runnable)
      BY <2>1 DEF PopRunnable, BoxInv, FilingInv, TypeOK
    <3>2. running' \in WorkerId /\ running' # running
      BY <3>1, HeadTailProperties, BoxTypes
    <3>3. outbox[running'] = <<>>
      BY <3>2 DEF BoxInv, MailInv, OutboxRouted
    <3>4. QED BY <1>1, <3>1, <3>2, <3>3, AddressedEmpty DEF InFlight
  <2>2. CASE Reconcile
    <3>1. running # NoWorker /\ running' = NoWorker /\ outbox[running] = <<>>
      BY <2>2 DEF Reconcile
    <3>2. QED BY <3>1, AddressedEmpty DEF InFlight
  <2>3. CASE ~PopRunnable /\ ~Reconcile
    <3>1. running' = running
      BY <2>3 DEF Wake, BeginRound, OpLocal, OpYield, OpSleep, OpHalt, OpFault,
                  OpEnd, BudgetExhausted, FrameUnchanged, vars, roundVars
    <3>2. QED BY <1>1, <3>1 DEF InFlight
  <2>4. QED BY <2>1, <2>2, <2>3
<1>3. QED BY <1>1, <1>2 DEF Mail

\* A post that changes no mailbox is to a stranger.
LEMMA PostsMap ==
    ASSUME NEW m \in Message, Boxes!Post(m)
    PROVE  Boxes!Next \/ UNCHANGED <<workers, Mail, atRecv>>
<1>1. m \in Boxes!Letter
  BY DEF Boxes!Letter, Message
<1>2. CASE Mail' # Mail
  BY <1>1, <1>2 DEF Boxes!Next
<1>3. CASE Mail' = Mail
  BY <1>3 DEF Boxes!Post
<1>4. QED BY <1>2, <1>3

\* Every step of the scheduler is a step of the mailboxes, or none.
LEMMA StepsMap ==
    ASSUME BoxInv, [Next]_vars
    PROVE  Boxes!Next \/ UNCHANGED <<workers, Mail, atRecv>>
<1>1. CASE Spawn
  BY <1>1, SpawnJoins DEF Boxes!Next
<1>2. ASSUME NEW w \in WorkerId, NEW p \in Payload,
             Deliver([from |-> Host, to |-> w, payload |-> p])
      PROVE  Boxes!Next \/ UNCHANGED <<workers, Mail, atRecv>>
  <2> DEFINE m == [from |-> Host, to |-> w, payload |-> p]
  <2>1. m \in Message /\ m.from = Host
    BY DEF Message
  <2> HIDE DEF m
  <2>2. Boxes!Post(m)
    BY <1>2, <2>1, DeliverPosts DEF m
  <2>3. QED BY <2>1, <2>2, PostsMap
<1>3. ASSUME NEW w \in WorkerId, NEW p \in Payload, OpSend(w, p)
      PROVE  Boxes!Next \/ UNCHANGED <<workers, Mail, atRecv>>
  <2>1. PICK m \in Message : Boxes!Post(m)
    BY <1>3, SendPosts
  <2>2. QED BY <2>1, PostsMap
<1>4. CASE OpRecv \/ OpTryRecv
  <2>1. running \in WorkerId
    BY <1>4, BoxTypes DEF OpRecv, OpTryRecv, InFrame
  <2>2. QED BY <1>4, <2>1, ReceiveTakes DEF Boxes!Next
<1>5. CASE OpRecvEmpty
  <2>1. running \in WorkerId
    BY <1>5, BoxTypes DEF OpRecvEmpty, InFrame
  <2>2. QED BY <1>5, <2>1, EmptyReceiveBlocks DEF Boxes!Next
<1>6. CASE RouteOutbox
  BY <1>6, RouteStutters
<1>7. CASE \/ \E w \in WorkerId : Wake(w)
           \/ BeginRound \/ PopRunnable \/ Reconcile
           \/ OpLocal \/ OpYield \/ OpSleep \/ OpHalt \/ OpFault \/ BudgetExhausted
           \/ UNCHANGED vars
  BY <1>7, OthersStutter
<1>8. QED
  BY <1>1, <1>2, <1>3, <1>4, <1>5, <1>6, <1>7 DEF Next, HostCall, RoundStep, Opcode

\* The scheduler implements Mailboxes: through sends, frames that end in any
\* way, routing, parking and requeueing, every message is delivered exactly once
\* and in the order of the sends, to the worker it names, and is taken from the
\* front; a worker that stands at a Recv sends nothing.
THEOREM SchedulerImplementsMailboxes == Spec => ImplementsMailboxes
<1>1. Init => Boxes!Init
  BY DEF Init, Boxes!Init, Mail
<1>2. BoxInv /\ [Next]_vars => [Boxes!Next]_(Boxes!boxVars)
  BY StepsMap DEF Boxes!boxVars
<1>3. Spec => []BoxInv
  BY Filing, Mails, PTL DEF BoxInv
<1>4. QED BY <1>1, <1>2, <1>3, PTL DEF Spec, ImplementsMailboxes, Boxes!Spec

=============================================================================

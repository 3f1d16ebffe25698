------------------------- MODULE SchedulerRefinement -------------------------
(***************************************************************************)
(* The scheduler implements Mailboxes.  A worker's mailbox is its inbox    *)
(* followed by what the running worker has sent it and route_outbox has    *)
(* not delivered yet: nobody else runs in between, so a message counts as  *)
(* posted from the Send on.                                                *)
(***************************************************************************)
EXTENDS Scheduler

\* The messages of q that are to w, in their order.  (A recursive function,
\* which proofs can expand.)
Addressed(w, q) ==
    LET upTo[n \in 0..Len(q)] ==
            IF n = 0 THEN <<>>
            ELSE IF q[n].to = w THEN Append(upTo[n - 1], q[n]) ELSE upTo[n - 1]
    IN  upTo[Len(q)]

\* The messages in flight to w.
InFlight(w) ==
    IF running = NoWorker THEN <<>> ELSE Addressed(w, outbox[running])

Mail == [w \in WorkerId |->
            IF w \in workers THEN inbox[w] \o InFlight(w) ELSE <<>>]

Boxes == INSTANCE Mailboxes WITH
            Id <- WorkerId, Sender <- WorkerId \cup {Host},
            Last <- MaxWorkerId,
            members <- workers, mail <- Mail, blocked <- atRecv

\* Messages are delivered exactly once and in the order they were sent, to
\* the inbox of the worker they name, through outboxes, routing, parking and
\* requeueing; a worker blocked at a Recv sends nothing until it has taken
\* one.
ImplementsMailboxes == Boxes!Spec

=============================================================================

------------------------------ MODULE Mailboxes ------------------------------
(***************************************************************************)
(* What the scheduler promises about messages, without queues of workers,  *)
(* rounds, frames or outboxes: every member has one mailbox; a message     *)
(* posted to a member is in its mailbox at once, behind the ones posted    *)
(* before it, and stays there until the member takes it; a message posted  *)
(* to a stranger is dropped; nothing else touches a mailbox.               *)
(*                                                                         *)
(* A member that finds nothing to take may block.  From then on it only    *)
(* takes.  The promise has the holes the code has: a member may also block *)
(* over messages it posted to itself, and when the names run out the last  *)
(* one is given to another member, and the mail of the first is lost.      *)
(***************************************************************************)
EXTENDS Naturals, Sequences

CONSTANTS Id, Sender, Payload,
          Last      \* the member that may be replaced

VARIABLES members, mail, blocked

boxVars == <<members, mail, blocked>>

Letter == [from : Sender, to : Id, payload : Payload]

Init ==
    /\ members = {}
    /\ mail = [w \in Id |-> <<>>]
    /\ blocked = {}

Join(w) ==
    /\ w \notin members
    /\ members' = members \cup {w}
    /\ blocked' = blocked \ {w}
    /\ UNCHANGED mail

\* Another takes the last member's name and starts with an empty mailbox.
Replace ==
    /\ Last \in members
    /\ mail' = [mail EXCEPT ![Last] = <<>>]
    /\ blocked' = blocked \ {Last}
    /\ UNCHANGED members

Post(m) ==
    /\ m.from \notin blocked
    /\ mail' = IF m.to \in members
               THEN [mail EXCEPT ![m.to] = Append(@, m)] ELSE mail
    /\ UNCHANGED <<members, blocked>>

Take(w) ==
    /\ mail[w] # <<>>
    /\ mail' = [mail EXCEPT ![w] = Tail(@)]
    /\ blocked' = blocked \ {w}
    /\ UNCHANGED members

Block(w) ==
    /\ \A i \in 1..Len(mail[w]) : mail[w][i].from = w
    /\ blocked' = blocked \cup {w}
    /\ UNCHANGED <<members, mail>>

Next ==
    \/ \E w \in Id : Join(w) \/ Block(w)
    \/ Replace
    \/ /\ mail' # mail      \* A post to a stranger changes nothing.
       /\ \/ \E w \in Id : Take(w)
          \/ \E m \in Letter : Post(m)

Spec == Init /\ [][Next]_boxVars

=============================================================================

\* Two workers, the second under the last id, which every further spawn gives
\* out again; two letters of two kinds per mailbox.
SPECIFICATION Spec
CONSTANTS
    MaxWorkerId = 2
    Payload = {a, b}
    a = a
    b = b
    StepBudget = 2
    MaxMail = 2
    MaxQueue = 2
INVARIANTS TypeOK FiledOnce FiledAsItIs WaitingMailIsOwn RoundRunsPlan
PROPERTIES RecvTakesMessage StoppedStaysStopped ImplementsMailboxes
SYMMETRY PayloadSymmetry

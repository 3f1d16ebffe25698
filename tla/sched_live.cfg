\* As sched.cfg with letters of one kind: liveness under FairSpec.
SPECIFICATION FairSpec
CONSTANTS
    MaxWorkerId = 2
    Payload = {a}
    a = a
    b = b
    StepBudget = 2
    MaxMail = 2
    MaxQueue = 2
PROPERTIES EveryTurnComes OthersMailResumesWaiter

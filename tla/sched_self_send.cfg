\* One worker that may send to itself.
SPECIFICATION FairSpec
CONSTANTS
    MaxWorkerId = 2
    Payload = {a}
    a = a
    b = b
    StepBudget = 2
    MaxMail = 1
    MaxQueue = 1
PROPERTIES MailResumesWaiter

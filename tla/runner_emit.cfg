\* The documented freedom of a system to emit, against the borrowed queue.
SPECIFICATION RunnerSpec
CONSTANTS
    Component = {}
    Resource = {}
    Persistent = {}
    Value = {"nil"}
    Nil = "nil"
    Slot = {}
    MaxEntity = 1
    EventType = {"ping"}
    SystemCount = 1
    InputCount = 0
    MaxRounds = 2
    StepBudget = 2
    MaxEvents = 2
    MaxEmitted = 2
INVARIANTS SystemsMayEmit
CHECK_DEADLOCK FALSE

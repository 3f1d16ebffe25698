\* Two systems, two event types, two inputs, four frames of two opcodes.
SPECIFICATION FairRunnerSpec
CONSTANTS
    Component = {"position", "cursor"}
    Resource = {}
    Persistent = {"position"}
    Value = {"nil"}
    Nil = "nil"
    Slot = {1}
    MaxEntity = 2
    EventType = {"ping", "pong"}
    SystemCount = 2
    InputCount = 2
    MaxRounds = 4
    StepBudget = 2
    MaxEvents = 1
    MaxEmitted = 2
INVARIANTS InputsInOrder DispatchedInOrder
PROPERTIES RunEnds
CHECK_DEADLOCK FALSE

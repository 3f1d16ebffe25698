\* Documented uniqueness of entity ids, across a load.
SPECIFICATION WorldSpec
CONSTANTS
    Component = {"position"}
    Resource = {}
    Persistent = {"position"}
    Value = {"v"}
    Slot = {1}
    MaxEntity = 3
INVARIANTS IdsNeverReused

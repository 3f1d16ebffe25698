\* Two systems, two ticks, three events; a world with one persistent component
\* and one transient resource.  The bounds on ticks and events stop the system.
SPECIFICATION GameSpec
CONSTANTS
    Component = {"position"}
    Resource = {"hover"}
    Persistent = {"position"}
    Value = {"v"}
    Slot = {1}
    MaxEntity = 2
    System = {1, 2}
    MaxEventsPerTick = 2
    MaxSequence = 3
    MaxTick = 2
INVARIANTS PersistentOwned CounterAhead SavesCompatible EventsInOrder EventsAccounted
CHECK_DEADLOCK FALSE

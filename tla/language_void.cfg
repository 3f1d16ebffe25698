\* A function that returns nothing takes an operand of its caller, or its
\* caller pops one that is not there.
CONSTANTS
    IntBits = 6
    MaxInbox = 2
    Fuel = 40
    field_id <- MCfield_id
    Readings <- MCReadings
    Program <- MCProgram
    Meaning <- MCMeaning
    Modules <- VoidModules
    Assembled <- NoAssembled
    Inputs <- MCInputs
SPECIFICATION FairSpec
INVARIANT CheckedIsSafe
CHECK_DEADLOCK FALSE

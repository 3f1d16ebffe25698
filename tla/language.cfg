\* Scripts of every statement and expression, compiled and run beside what they
\* mean, and bytecode that comes from elsewhere.
CONSTANTS
    IntBits = 6
    MaxInbox = 2
    Fuel = 40
    field_id <- MCfield_id
    Readings <- MCReadings
    Program <- MCProgram
    Meaning <- MCMeaning
    Modules <- MCModules
    Assembled <- MCAssembled
    Inputs <- MCInputs
SPECIFICATION FairSpec
INVARIANTS ReadsAsWritten RunsAsWritten CheckedIsSafe LoweredVerifies VerifiedResolves LoweredBalances OperandsOwned
PROPERTY ProgramEnds
CHECK_DEADLOCK FALSE

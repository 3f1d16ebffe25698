\* Scripts of three calls of one group or of one with ext.vm, with and without
\* the GUI; one slot, and two for the scripts that save and call outside.
SPECIFICATION SessionSpec
CONSTANTS
    IntBits = 4
    Slot = {1, 2}
    FirstSlot = 1
    Name = {"a", "b"}
    Texts <- MCTexts
    Programs <- MCPrograms
    Masks <- MCMasks
    MaxCalls = 3
INVARIANTS LoadedIsSaved TextInLog GuiNeedsCapability StepsAddUp
PROPERTY FailedCallsShowOnly
CHECK_DEADLOCK FALSE

SPECIFICATION FairSpec
CONSTANTS
    NProc = 4
    Valid <- MCValid
    Primary = 1
INVARIANTS
    InitBeforeUse
    HaltsWhenFinished
    SomebodyTold
PROPERTIES
    EventuallyHalts
CHECK_DEADLOCK FALSE

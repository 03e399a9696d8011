SPECIFICATION FairSpec
CONSTANTS
    MaxCalls = 1
    MaxStarts = 1
    MaxRedials = 1
    MaxEvents = 1
    Repeats = 1
    MaxQueue = 1
    Reported = {"Established"}
    Faults = {"people", "key", "version", "empty", "error"}
    Dialogs = TRUE
    DhFails = FALSE
    PatientRedial = TRUE
CHECK_DEADLOCK FALSE
INVARIANT KeepsGoing
 
 
INVARIANT AcceptsOnce
PROPERTY EventuallyGone

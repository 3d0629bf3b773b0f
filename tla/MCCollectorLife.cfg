SPECIFICATION Spec
CONSTANTS
    Programs <- SameNames
    JsonHooks <- AppJson
    MaxCalls = 4
INVARIANTS HandlesOwnKernel AttachedIsPollable NoObjectNoProbes EventsNamed CompleteTableAttached
CHECK_DEADLOCK FALSE

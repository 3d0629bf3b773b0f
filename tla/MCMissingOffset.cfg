SPECIFICATION Spec
CONSTANTS
    Programs <- SameNames
    JsonHooks <- AppJson
    MaxCalls = 4
INVARIANT AttachStaysInTable

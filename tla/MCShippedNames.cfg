SPECIFICATION Spec
CONSTANTS
    Programs <- BpfPrograms
    JsonHooks <- AppJson
    MaxCalls = 4
INVARIANT AttachSkipsOnlyRefused

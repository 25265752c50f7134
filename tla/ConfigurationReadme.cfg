SPECIFICATION Spec
CONSTANTS
    Documents <- ReadmeFile
    Worlds <- FourClients
    MaxHandlers = 128
    MaxDispatchers = 128
INVARIANTS
    IsAccepted

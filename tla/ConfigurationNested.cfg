SPECIFICATION Spec
CONSTANTS
    Documents <- NestedFile
    Worlds <- FourClients
    MaxHandlers = 128
    MaxDispatchers = 128
INVARIANTS
    ParsedAsWritten

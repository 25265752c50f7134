SPECIFICATION Spec
CONSTANTS
    Documents <- MostFiles
    Worlds <- SomeWorlds
    MaxHandlers = 1
    MaxDispatchers = 1
INVARIANTS
    TypeOK
    ParsedAsWritten
    ServersAreBalanced
    RequestsAreDisjoint
    RequestsStayInside

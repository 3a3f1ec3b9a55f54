SPECIFICATION Spec
CONSTANTS
    Files <- Spellings
    NormalForm <- Normal
    Script <- ScriptPath
    Lines = {4, 7}
    Edits <- RemoveAndDisable
    MaxIds = 3
INVARIANTS
    EngineAgrees
    OthersUntouched
    AllDecided
PROPERTIES
    IdsAreNew
CHECK_DEADLOCK FALSE

SPECIFICATION Spec
CONSTANTS
    a = a
    b = b
    d1 = d1
    d2 = d2
    Accounts <- MCAccounts
    Folder = Folder
    None = None
    Docs <- MCDocs
    Pulled <- MCPulled
    First <- MCFirst
    MaxId = 3
    MaxText = 1
    MaxCommands = 2
CHECK_DEADLOCK FALSE
INVARIANTS
    TypeOK
    FolderTokenStaysHere
    OneNotePerDocument
    GoneDraftsArrived
    TokenHasProfile

\* The boxes of mconf on a terminal that changes its size.
SPECIFICATION Spec
CONSTANTS
    CallsFail = TRUE
    TeeBuffer = 3
    CatBuffer = 3
    TraceFails = TRUE
    InitialBuf = 2
    PipeRoom = 2
    WordMax = 5
    InitialSize = 3
    MaxHistory = 2
    DdRuns <- MCDdRuns
    TeeRuns <- MCTeeRuns
    CatRuns <- MCCatRuns
    Base64Runs <- MCBase64Runs
    DosRuns <- MCDosRuns
    Outputs <- MCOutputs
    Lines <- MCLines
    Typed <- MCTyped
    Programs <- MCPrograms
    Block = 4
    LenBytes = 2
    Word = 32
    Applets = {"md5sum", "sha1sum", "sha224sum", "sha256sum", "crc32"}
    Folders <- MCFolders
    OperandLists <- MCOperandLists
    Options <- MCOptions
    Chunk = 8
    ReadsFail = TRUE
    MenuLists <- MCMenuLists
    MenuRooms = {0, 1, 2, 3, 5}
    CheckLists <- MCCheckLists
    CheckRoom = 3
    TextRuns <- MCTextRuns
    TextRooms = {1, 2, 4}
    MaxScroll = 2
    FieldWidth = 2
    MaxInput = 5
    FirstInputs <- MCFirstInputs
    InputLetters = {"p", "q"}
INVARIANT
    MenuChangesSize

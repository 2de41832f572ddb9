\* A list in text mode, the default, of one file that does not change.
SPECIFICATION Spec
CONSTANTS
    CallsFail = TRUE
    TeeBuffer = 3
    CatBuffer = 3
    TraceFails = TRUE
    InitialBuf = 2
    PipeRoom = 2
    WordMax = 5
    InitialSize = 3
    MaxHistory = 2
    DdRuns <- MCDdRuns
    TeeRuns = {}
    CatRuns = {}
    Base64Runs = {}
    DosRuns = {}
    Outputs = {}
    Lines = {}
    Typed = {}
    Programs = {}
    Block = 4
    LenBytes = 2
    Word = 32
    Applets = {"sha1sum", "sha224sum", "sha256sum"}
    Folders <- MCFolders
    OperandLists <- MCOperandLists
    Options <- MCOptions
    Chunk = 8
    ReadsFail = FALSE
    MenuLists <- MCMenuLists
    MenuRooms = {0, 1, 2, 3, 5}
    CheckLists <- MCCheckLists
    CheckRoom = 3
    TextRuns <- MCTextRuns
    TextRooms = {1, 2, 4}
    MaxScroll = 2
    FieldWidth = 2
    MaxInput = 5
    FirstInputs = {}
    InputLetters = {}
INVARIANT
    RoundTrip

\* The modified flag when a save may fail.
SPECIFICATION Spec
CONSTANTS
    Char = {"a"}
    Tab <- MCTab
    NL = "NL"
    NUL = "NUL"
    Contents <- MCExisting
    NewFile = FALSE
    SaveFails = TRUE
    SizeY = 3
    MaxNode = 3
    MaxChars = 2
INVARIANT
    ModifiedTellsTruth
\* The editor is quit in the end.
CHECK_DEADLOCK FALSE

\* A connection is reset while the file is sent.
SPECIFICATION Spec
CONSTANTS
    f1 = f1
    f2 = f2
    File = {f1}
    Above <- NoFolders
    TooLong = {}
    TooDeep = {}
    Slot <- TwoSlots
    MaxEdits = 1
    MaxFaults = 1
    MaxRemovals = 1
    Trouble = {"throw"}
    NoFile = NoFile
    NoRow = NoRow
    NoUpload = NoUpload
    NoTime = NoTime
INVARIANTS SendingHasSipper
\* Nothing more happens once every change is backed up and the bounds are reached.
CHECK_DEADLOCK FALSE

\* A file becomes a folder while the client is stopped.
SPECIFICATION FairSpec
CONSTANTS
    f1 = f1
    f2 = f2
    File = {f1, f2}
    Above <- F1IsFolderOfF2
    TooLong = {}
    TooDeep = {}
    Slot <- TwoSlots
    MaxEdits = 3
    MaxFaults = 1
    MaxRemovals = 1
    Trouble = {}
    NoFile = NoFile
    NoRow = NoRow
    NoUpload = NoUpload
    NoTime = NoTime
PROPERTIES EveryUploadEnds
\* Nothing more happens once every change is backed up and the bounds are reached.
CHECK_DEADLOCK FALSE

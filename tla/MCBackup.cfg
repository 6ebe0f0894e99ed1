\* One file, four changes, one fault, under fairness.
SPECIFICATION FairSpec
CONSTANTS
    f1 = f1
    f2 = f2
    File = {f1}
    Above <- NoFolders
    TooLong = {}
    TooDeep = {}
    Slot <- TwoSlots
    MaxEdits = 4
    MaxFaults = 1
    MaxRemovals = 1
    Trouble = {"restart", "throw"}
    NoFile = NoFile
    NoRow = NoRow
    NoUpload = NoUpload
    NoTime = NoTime
INVARIANTS SentIsStored
PROPERTIES CurrentCopyKept ConvergesOrSticks
\* Nothing more happens once every change is backed up and the bounds are reached.
CHECK_DEADLOCK FALSE

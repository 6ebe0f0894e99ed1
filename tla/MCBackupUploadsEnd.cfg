\* Two changes at any moment and one fault, under fairness.
SPECIFICATION FairSpec
CONSTANTS
    f1 = f1
    f2 = f2
    File = {f1}
    Above <- NoFolders
    TooLong = {}
    TooDeep = {}
    Slot <- TwoSlots
    MaxEdits = 2
    MaxFaults = 1
    MaxRemovals = 1
    Trouble = {"user", "removal", "early", "restart"}
    NoFile = NoFile
    NoRow = NoRow
    NoUpload = NoUpload
    NoTime = NoTime
INVARIANTS TypeOK SendingHasSipper
PROPERTIES EveryUploadEnds
\* Nothing more happens once every change is backed up and the bounds are reached.
CHECK_DEADLOCK FALSE

\* A fault during the needless second upload after another fault.
SPECIFICATION Spec
CONSTANTS
    f1 = f1
    f2 = f2
    File = {f1}
    Above <- NoFolders
    TooLong = {}
    TooDeep = {}
    Slot <- TwoSlots
    MaxEdits = 1
    MaxFaults = 2
    MaxRemovals = 1
    Trouble = {}
    NoFile = NoFile
    NoRow = NoRow
    NoUpload = NoUpload
    NoTime = NoTime
INVARIANTS SentIsStored
\* Nothing more happens once every change is backed up and the bounds are reached.
CHECK_DEADLOCK FALSE

\* A change while the upload of the one before is queued.
SPECIFICATION Spec
CONSTANTS
    f1 = f1
    f2 = f2
    File = {f1}
    Above <- NoFolders
    TooLong = {}
    TooDeep = {}
    Slot <- TwoSlots
    MaxEdits = 2
    MaxFaults = 0
    MaxRemovals = 1
    Trouble = {"user"}
    NoFile = NoFile
    NoRow = NoRow
    NoUpload = NoUpload
    NoTime = NoTime
PROPERTIES CurrentCopyKept
\* Nothing more happens once every change is backed up and the bounds are reached.
CHECK_DEADLOCK FALSE

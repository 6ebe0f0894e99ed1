\* Two files, one of which the server cannot open; one fault, under fairness.
SPECIFICATION FairSpec
CONSTANTS
    f1 = f1
    f2 = f2
    File = {f1, f2}
    Above <- NoFolders
    TooLong = {f2}
    TooDeep = {}
    Slot <- TwoSlots
    MaxEdits = 2
    MaxFaults = 1
    MaxRemovals = 1
    Trouble = {"restart"}
    NoFile = NoFile
    NoRow = NoRow
    NoUpload = NoUpload
    NoTime = NoTime
PROPERTIES Converges
\* Nothing more happens once every change is backed up and the bounds are reached.
CHECK_DEADLOCK FALSE

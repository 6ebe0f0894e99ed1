\* A tree, two removals and an upload of one account, under fairness.
SPECIFICATION FairSpec
CONSTANTS
    d1 = d1
    d2 = d2
    f1 = f1
    f2 = f2
    t1 = t1
    t2 = t2
    r1 = r1
    r2 = r2
    u1 = u1
    Home = Home
    Old = Old
    Partial = Partial
    NoFile = NoFile
    NoRow = NoRow
    File = {f1, f2}
    Folder = {d1, d2}
    Path <- SmallPath
    Tree = {t1}
    Removal = {r1, r2}
    List <- SmallList
    Upload = {u1}
    Target <- SmallTarget
    Shortened <- SmallShortened
    Attempts = 2
    Trouble = {}
INVARIANTS TypeOK AnsweredIsStored ServerKeepsRunning NoEmptyFolders
PROPERTIES TreeIsComplete AttemptsAreDeserved EveryRequestEnds
\* Each request comes once; then nothing happens any more.
CHECK_DEADLOCK FALSE

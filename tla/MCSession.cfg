SPECIFICATION FairSpec
CONSTANTS
    c1 = c1
    c2 = c2
    alice = alice
    bob = bob
    ha = ha
    hb = hb
    Client = {c1, c2}
    User = {alice, bob}
    Hash = {ha, hb}
    Options <- NoneAndUsername
    Wrong = Wrong
    Empty = Empty
    Broken = Broken
    Missing = Missing
    Given = Given
    Tries = 2
    Trouble = {"kill", "lost"}
    Account <- TwoAccounts
    Made = {alice}
    Main = Main
INVARIANTS
    TypeOK
    StopMessageUnread
PROPERTIES
    LoggedInIsRight
    OnlyTheFailedEndServer
    ServerStops
    NobodyWaits

SPECIFICATION Spec
CONSTANTS
    c1 = c1
    c2 = c2
    alice = alice
    bob = bob
    ha = ha
    hb = hb
    Client = {c1}
    User = {alice}
    Hash = {ha, hb}
    Options <- NoOptions
    Wrong = Wrong
    Empty = Empty
    Broken = Broken
    Missing = Missing
    Given = Given
    Tries = 2
    Trouble = {}
    Account <- OneAccount
    Made = {alice}
    Main = Main
PROPERTIES
    ServerKeepsRunning

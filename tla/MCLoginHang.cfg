CONSTANTS
    alice = alice
    root = root
    odd = odd
    None = None
    p1 = p1
    p2 = p2
    NoPid = NoPid
    Names <- JustAlice
    Typed <- JustAlice
    Accounts <- JustAlice
    Roots <- NoRoots
    Valid <- JustAlice
    Files <- PlainFiles
    Pids <- OnePid
    Inputs <- MenuInputs
    QueueBound = 1
    PipeCap = 2
    StrayLimit = 1
    AdminEdits = FALSE
    Rivals = FALSE
SPECIFICATION HangSpec
PROPERTY OptionsDuringLogin

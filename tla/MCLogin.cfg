CONSTANTS
    alice = alice
    root = root
    odd = odd
    None = None
    p1 = p1
    p2 = p2
    NoPid = NoPid
    Names <- ThreeNames
    Typed <- TwoNames
    Accounts <- ThreeNames
    Roots <- OnlyRoot
    Valid <- TwoNames
    Files <- ManyFiles
    Pids <- OnePid
    Inputs <- FormInputs
    QueueBound = 1
    PipeCap = 2
    StrayLimit = 1
    AdminEdits = TRUE
    Rivals = FALSE
SPECIFICATION Spec
INVARIANT SessionPaired ScreenUsable OncePerBoot CancelHolds BoxTruthful StopOnlyIdle
PROPERTY AutologinEarned SessionEarned ImplementsSeat

CONSTANTS
    alice = alice
    bob = bob
    root = root
    ghost = ghost
    None = None
    Users <- Everybody
    Accounts <- WithAccount
    Roots <- OnlyRoot
    OpeningStyles <- AllStyles
    ClosingStyles <- AllStyles
SPECIFICATION Spec
PROPERTY AnswersHonest

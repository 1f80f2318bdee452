CONSTANTS
    alice = alice
    bob = bob
    root = root
    ghost = ghost
    None = None
    Users <- Everybody
    Accounts <- WithAccount
    Roots <- OnlyRoot
    OpeningStyles <- AllStyles
    ClosingStyles <- NoPrompts
SPECIFICATION Spec
INVARIANT LedgerAgrees
PROPERTY EndsClean AnswersHonest ImplementsPromise

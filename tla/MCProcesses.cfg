CONSTANTS
    alice = alice
    Root = Root
    NoPid = NoPid
    Self = 2
    Users <- JustAlice
    Pids <- SomePids
SPECIFICATION FairSpec
INVARIANT RunsAsUser PowerHonest SessionKnown OnlyTheirs
PROPERTY NoneLeft Returns

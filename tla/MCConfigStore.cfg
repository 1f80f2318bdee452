CONSTANTS
    alice = alice
    wide = wide
    quoted = quoted
    flags = flags
    Header = Header
    Empty = Empty
    Garbled = Garbled
    NoFile = NoFile
    Torn = Torn
    Limit = 7
    Users <- JustAlice
    Images <- TwoImages
    Unsafe <- OneUnsafe
    Rest <- OneRest
    Files <- SomeFiles
    Size <- LineSize
SPECIFICATION Spec
INVARIANT NeverTorn FailureHonest NoLitter SetIsLoaded OthersKept

CONSTANTS
    i1 = i1
    i2 = i2
    None = None
    Images <- TwoImages
    ImageLists <- SomeLists
    Points <- SomePoints
SPECIFICATION Spec
INVARIANT MenuCoherent
PROPERTY ImplementsConfirm FormBehindMenu BackgroundWorks

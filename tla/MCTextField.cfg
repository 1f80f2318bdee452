CONSTANTS
    Capacity = 7
    AcceptMax = 5
    PieceMax = 2
    KeyMax = 5
    First <- Starts
    Width <- Widths
    Cont = {"c"}
    Control = {"^"}
    Nul = "0"
    Composed = TRUE
    Typed <- Strokes
    Names <- Users
SPECIFICATION Spec
INVARIANT NothingBehind WholeCharacters
PROPERTY ImplementsEditor

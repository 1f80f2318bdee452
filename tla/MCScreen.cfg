CONSTANTS
    None = None
    Screens <- Displays
    RowCounts <- Menus
SPECIFICATION FairSpec
INVARIANT ScreenShown Reachable FocusKept
PROPERTY ResizeShown

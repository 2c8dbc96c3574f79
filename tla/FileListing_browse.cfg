SPECIFICATION Spec
CONSTANTS
    Keys = {1, 2, 3, 4, 5, 6}
    Supported = {1, 4, 5}
    PageSize = 2
    MaxChanges = 2
INVARIANT InOrderOnce
INVARIANT NothingSkipped
INVARIANT OnlyLastPageShort
PROPERTY ListingEnds

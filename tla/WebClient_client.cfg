SPECIFICATION FairClientSpec
CONSTANTS
    j1 = j1
    j2 = j2
    a1 = a1
    Jobs = {j1, j2}
    Answers = {a1}
    NoAnswer = NoAnswer
    NoJob = NoJob
    NoData = NoData
    Asked = Asked
    Refused = Refused
    RowIds = {0, 1, 8}
    MaxPageSize = 3
    PageSizes = {2, 3}
    FirstSize = 2
    SwitchWhileCancelling = FALSE
INVARIANT NeverAhead
INVARIANT ScreenShowsItsRows
INVARIANT NeverBehindTheEnd
PROPERTY OnlyCancelPutsBack
PROPERTY SettlesOnOutcome
\* Jobs finish: the system may come to rest.
CHECK_DEADLOCK FALSE

SPECIFICATION Spec
CONSTANTS
    Patterns <- MCPatterns
    Verdict <- StructuralVerdict
    Elements <- MCElements
    Depth <- MCDepth
    Alphabet <- MCAlphabet
    InCategory <- MCInCategory
    Fold <- MCFold
    MaxWord = 4
    Forms <- MCForms
    Files <- MCFiles
    Lower <- MCLower
    RegexRules <- MCRegexRules
    Normalizations <- MCNormalizations
    Maskings <- MCMaskings
    Row <- MCRow
    Null = Null
    NoFile = NoFile
    NoPattern = NoPattern
    NoSpec = NoSpec
    NoRow = NoRow
    MaxChanges = 1
    MaxAttempts = 2
INVARIANT EmptyIsFound
INVARIANT AlternativesAreDisjoint
INVARIANT IterationsAreCutOneWay
INVARIANT NeverAskedForNothing
INVARIANT OnlyCheckedPatternsRun
INVARIANT ColumnsFoundUpFrontStay
INVARIANT ReplacementsReadAlike
INVARIANT NoColumnIsIgnored
INVARIANT UnmatchedRowIsUnchanged
INVARIANT MasksLeaveNothing
\* A finished or refused job is the end.
CHECK_DEADLOCK FALSE

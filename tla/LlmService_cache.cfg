SPECIFICATION Spec
CONSTANTS
    c1 = c1
    c2 = c2
    d1 = d1
    d1spaced = d1spaced
    s1 = s1
    s2 = s2
    good = good
    odd = odd
    Callers = {c1, c2}
    Releases <- MCReleases
    Descriptions = {d1, d1spaced}
    SampleSets = {s1, s2}
    Suggestions = {good, odd}
    NoEntry = NoEntry
    Questions <- MCQuestions
    Words <- MCWords
    Prompt <- MCPrompt
    Schema <- MCSchema
    Accepts <- MCAccepts
SYMMETRY CallerSymmetry
INVARIANT AnswerFitsQuestion
INVARIANT AnswerPassesOwnRules
INVARIANT CacheHoldsAcceptedOnly

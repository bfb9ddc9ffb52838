SPECIFICATION Spec
CONSTANTS
    Tokens <- MCTokens
    UTF8StringLength <- MCLengths
    max_context_length = 3
    max_contexts = 3
    first_beam_size = 2
    second_beam_size = 2
    Frames <- MCFrames
    HotwordLists <- MCLists
    MaxFrames = 4
INVARIANTS
    TypeOK
    Exact
    ContextScore
    TimesMatch

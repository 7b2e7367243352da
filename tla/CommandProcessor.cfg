SPECIFICATION FairSpec
CONSTANTS
    Last = 3
    CommandIds = {a, b, c}
    MaxInterruptions = 2
    Kept = {a, b}
INVARIANTS
    AnswersAreBacked
    CursorFollowsAnswers
    OneCompletionEach
PROPERTIES
    ImplementsService
    SealedIsFinal
    AnswersArrive

SPECIFICATION FairSpec
CONSTANTS
    Requests = {q1}
    MaxVersion = 3
INVARIANTS AnswersAreCurrent
PROPERTIES ListCatchesUp

CONSTANTS
    spend = spend
    recs = recs
    Keys = {spend, recs}
    TtlOf <- MCTtlOf
    None = None
    MaxTime = 5
SPECIFICATION Spec
INVARIANTS
    BoundedStaleness
PROPERTIES
    SuccessesSpaced
    AnswersNeverGoBack

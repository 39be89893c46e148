CONSTANTS
    Planned = 2
    MaxFollowUps = 1
    Processes = {p1, p2}
    a1 = a1
    a2 = a2
    a3 = a3
    AnswersTo <- TwoForTheFirst
    None = none
    MaxCrashes = 1

SPECIFICATION Spec
SYMMETRY Alike
CHECK_DEADLOCK FALSE
INVARIANT QuestionsNumbered
INVARIANT ChargedForEvaluation
PROPERTY ImplementsScript

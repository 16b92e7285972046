CONSTANTS
    Radars = {r1}
    MaxForwards = 3
    Operators = {o1, o2}
    Workers = {w1}
    MaxAttempts = 1
    DlqMax = 2
    JournalMax = 2
    NoJob = NoJob
SPECIFICATION Spec
SYMMETRY ActorSymmetry
INVARIANTS ReplayTypeOK ReplaysAreForwards AnsweredLettersAreGone
    ReplaysStartAfresh FailedCanBeReplayed
PROPERTIES LettersAreKept ImplementsHub

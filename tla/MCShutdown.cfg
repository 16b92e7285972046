CONSTANTS
    MaxForwards = 2
    Results <- MCResults
    NoResult = NoResult
SPECIFICATION Spec
INVARIANT TerminalWasRefused

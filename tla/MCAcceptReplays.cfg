CONSTANTS
    Handlers = {h1, h2}
    first = first
    again = again
    other = other
    reuse = reuse
    Messages = {first, again, other}
    Bad = {other}
    Keys = {"k1", "k2"}
    Bodies = {"b1", "b2"}
    Nonces = {"n1", "n2", "n3"}
    KeyOf <- MCKeyOf
    BodyOf <- MCBodyOf
    NonceOf <- MCNonceOf
    Interest <- MCInterest
    Radars = {r1, r2}
    Window = 1
    TTL = 4
    MaxAhead = 0
    MaxHandling = 1
    MaxReports = 2
    NoMessage = NoMessage
    NoReport = NoReport
    NoRecord = NoRecord
SPECIFICATION FairSpec
INVARIANT AnswersAreTrue
PROPERTY ReplaysAreFiled

CONSTANTS
    Handlers = {h1}
    first = first
    again = again
    other = other
    reuse = reuse
    Messages = {first, reuse}
    Bad = {}
    Keys = {"k1", "k2"}
    Bodies = {"b1", "b2"}
    Nonces = {"n1", "n2", "n3"}
    KeyOf <- MCKeyOf
    BodyOf <- MCBodyOf
    NonceOf <- MCNonceOf
    Interest <- MCInterest
    Radars = {}
    Window = 2
    TTL = 6
    MaxAhead = 3
    MaxHandling = 1
    MaxReports = 2
    NoMessage = NoMessage
    NoReport = NoReport
    NoRecord = NoRecord
SPECIFICATION Spec
INVARIANT NonceOnceInWindow

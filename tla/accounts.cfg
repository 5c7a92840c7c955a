SPECIFICATION Spec
CONSTANTS
    l1 = l1
    l2 = l2
    a1 = a1
    p1 = p1
    p2 = p2
    NoAccount = NoAccount
    NoPin = NoPin
    Issued = Issued
    Unknown = Unknown
    NoToken = NoToken
    NoLearner = NoLearner
    k1 = k1
    k2 = k2
    r1 = r1
    r2 = r2
    Learners = {l1, l2}
    Accounts = {a1}
    Pins = {p1, p2}
    Tokens = {k1, k2}
    LoginRequests = {r1, r2}
    AdminRequests = {r1, r2}
    InitialLearners = {l1}
    InitialPins = {p2}
    AdminInputs <- Inputs
    MaxSessions = 2
INVARIANTS LedgerIsTrue LiveSessionsHaveTheCredential AnswersAreTrue
PROPERTIES NothingIsUndone
SYMMETRY Alike

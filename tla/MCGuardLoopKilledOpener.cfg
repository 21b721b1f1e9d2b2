SPECIFICATION FairSpec
CONSTANTS
    e1 = e1  e2 = e2  e3 = e3  e4 = e4
    p1 = p1  p2 = p2  owner = owner
    k1 = k1  k2 = k2  a1 = a1  a2 = a2  pair = pair
    NoKey = NoKey  NoAuth = NoAuth  Overflow = Overflow
    Events = {e1, e3}
    PermEvents = {e1, e3}
    Procs = {p1, p2, owner}
    Keys = {k1, k2}
    Auths = {a1, a2}
    Pairs = {pair}
    OpenerOf <- MCOpenerOf
    HelperOf <- MCHelperOf
    OwnerOf <- MCOwnerOf
    PairOf <- MCPairOf
    Views <- MCViews
    Default = "Allow"
    QueueLimit = 3
    BatchLimit = 2
    Faults = {"kill"}
PROPERTIES
    AnswerDelivered
CHECK_DEADLOCK FALSE

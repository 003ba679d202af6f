SPECIFICATION FairSpec
CONSTANTS
    None = None
    a = a
    b = b
    kp = kp
    kq = kq
    kr = kr
    v1 = v1
    v2 = v2
    h1 = h1
    h2 = h2
    Addr = {a, b}
    MaxCalls = 1
    PublicKey = {kp, kq}
    PublicKeyOf <- OwnKeyOf
    BlackList = {}
    Value = {v1}
    LastSlot = 1
    MaxTime = 0
    Hash = {h1, h2}
    Envelope <- HashEnvelopes
    CacheMax = 1
    MaxDrift = 1
    Honest = {kp}
    Validators = {kp, kq}
    Slices <- OfOne
    KnownLedger = 0
    KnownIsAged = TRUE
    KnownQuorumSets = {}
    Sent = {"scpMessage", "scpQuorumset", "dontHave"}
CHECK_DEADLOCK FALSE
INVARIANTS
    OneRequestAtATime
    KnownReachesItsNodes
PROPERTIES
    AskedInTurn
    RequestsRunOut

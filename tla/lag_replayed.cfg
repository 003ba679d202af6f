SPECIFICATION Spec
CONSTANTS
    None = None
    a = a
    b = b
    kp = kp
    kq = kq
    kr = kr
    v1 = v1
    v2 = v2
    h1 = h1
    h2 = h2
    Addr = {a}
    MaxCalls = 1
    PublicKey = {kp, kq, kr}
    PublicKeyOf <- OwnKeyOf
    BlackList = {}
    Value = {v1}
    LastSlot = 1
    MaxTime = 1
    Hash = {h1}
    Envelope <- RepeatEnvelopes
    CacheMax = 2
    MaxDrift = 1
    Honest = {kp}
    Validators = {kp, kq, kr}
    Slices <- OfOne
    KnownLedger = 0
    KnownIsAged = FALSE
    KnownQuorumSets = {}
    Sent = {"scpMessage"}
CHECK_DEADLOCK FALSE
PROPERTY
    LagIsKept

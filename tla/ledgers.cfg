SPECIFICATION Spec
CONSTANTS
    None = None
    a = a
    b = b
    kp = kp
    kq = kq
    kr = kr
    v1 = v1
    v2 = v2
    h1 = h1
    h2 = h2
    Addr = {a}
    MaxCalls = 1
    PublicKey = {kp, kq, kr}
    PublicKeyOf <- OwnKeyOf
    BlackList = {}
    Value = {v1, v2}
    LastSlot = 3
    MaxTime = 2
    Hash = {h1}
    Envelope <- LedgerEnvelopes
    CacheMax = 1
    MaxDrift = 1
    Honest = {kp, kq}
    Validators = {kp, kq, kr}
    Slices <- Nested
    KnownLedger = 1
    KnownIsAged = FALSE
    KnownQuorumSets = {h1}
    Sent = {"scpMessage", "peers", "errorMsg"}
CHECK_DEADLOCK FALSE
INVARIANTS
    TypeOK
    HonestNotBlamed
    VerdictsComplete
    LagFromTheFirst
    DuplicateIsCounted
    ValidatorsParticipate
PROPERTIES
    LedgersCloseInOrder
    ImplementsChain

SPECIFICATION Spec
CONSTANTS
    t = t
    a = a
    b = b
    x = x
    kt = kt
    ka = ka
    kb = kb
    kx = kx
    Addr = {t, a, b, x}
    TopTier = {t}
    Seeds = {a}
    MaxCalls = 1
    MaxOpen = 2
    MaxStragglers = 2
    PublicKey = {kt, ka, kb, kx}
    PublicKeyOf <- SharedKeyOf
    BlackList = {kx}
CHECK_DEADLOCK FALSE
INVARIANTS
    TypeOK
    OpenConnectionsBounded
    TaskEndsWithItsConnection
    CrawlWillEnd
    HaltIsWatched
    ActiveConnectionsExact
    StragglersCovered
    StopWillEnd
    LifecycleAsserts
PROPERTY
    ImplementsSession

SPECIFICATION FairSpec
CONSTANTS
    t = t
    a = a
    b = b
    x = x
    kt = kt
    ka = ka
    kb = kb
    kx = kx
    Addr = {t, a, b, x}
    TopTier = {t}
    Seeds = {}
    MaxCalls = 1
    MaxOpen = 1
    MaxStragglers = 2
    PublicKey = {kt, ka, kb, kx}
    PublicKeyOf <- SharedKeyOf
    BlackList = {kx}
CHECK_DEADLOCK FALSE
INVARIANTS
    DiscoveredIsCrawled
    CrawlWillEnd
    StragglersCovered
    StopWillEnd
PROPERTIES
    CrawlSettles
    EveryPeerLeaves
    ImplementsSession
    ImplementsLife

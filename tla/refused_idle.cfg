SPECIFICATION Spec
CONSTANTS
    t = t
    a = a
    b = b
    x = x
    kt = kt
    ka = ka
    kb = kb
    kx = kx
    Addr = {t, a}
    TopTier = {t}
    Seeds = {}
    MaxCalls = 2
    MaxOpen = 1
    MaxStragglers = 1
    PublicKey = {kt, ka, kb, kx}
    PublicKeyOf <- KeyOf
    BlackList = {kx}
CHECK_DEADLOCK FALSE
PROPERTY
    RefusedOnlyWhileRunning

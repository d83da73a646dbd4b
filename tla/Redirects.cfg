\* A link that expires, is changed or disabled while both services redirect
\* through cache and buffer.
SPECIFICATION Spec
CONSTANTS
    Codes = {c1, c2}
    Urls = {u1}
    Keys = {}
    Pys = {p1}
    Rss = {t1}
    NoKey = NoKey
    Deadlines = {1}
    Never = 99
    Versions = {1}
    MaxWrites = 1
    MaxClicks = 1
    MaxFaults = 1
    TTL = 2
    CacheSize = 1
    FlushInterval = 1
INVARIANTS
    TypeOK
    ExpiryHonoured
    StaleLessThanTTL
    ReadsItsWrites
    ClicksAccounted
SYMMETRY Sym
CHECK_DEADLOCK FALSE

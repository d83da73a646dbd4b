\* Two writes to links, through a Python process and a thread of the Rust service,
\* retried, refused and cut short by one crash.
SPECIFICATION Spec
CONSTANTS
    Codes = {c1, c2}
    Urls = {u1, u2}
    Keys = {k1}
    Pys = {p1}
    Rss = {t1}
    NoKey = NoKey
    Deadlines = {}
    Never = 99
    Versions = {1, 2, 3}
    MaxWrites = 2
    MaxClicks = 0
    MaxFaults = 1
    TTL = 0
    CacheSize = 1
    FlushInterval = 0
INVARIANTS
    KeyNamesItsLink
    AuditExplains
PROPERTY
    KeepsContract
SYMMETRY Sym
CHECK_DEADLOCK FALSE

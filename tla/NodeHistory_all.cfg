CONSTANTS
    p1 = p1  p2 = p2
    d1 = d1  d2 = d2
    a1 = a1
    c1 = c1
    None = None
    ProxyIds = {p1, p2}
    FakeDomains = {d1, d2}
    Ips = {a1}
    Calls = {c1}
    MaxLines = 2
    MaxCreated = 2
SYMMETRY Symmetry
SPECIFICATION HistorySpec
INVARIANTS HistoryTypeOK LinesArriveWhole 
PROPERTIES RecordedForOwner
CHECK_DEADLOCK FALSE

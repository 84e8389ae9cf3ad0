SPECIFICATION Spec
CONSTANTS
    t1 = t1
    t2 = t2
    u1 = u1
    u2 = u2
    m1 = m1
    m2 = m2
    c1 = c1
    c2 = c2
    Threads = {t1, t2}
    Urls = {u1}
    Measures = {m1, m2}
    MeasureOf <- OfOne
    Callbacks = {c1, c2}
    Requests <- TwoClients
    NoRequest = NoRequest
    NoUrl = NoUrl
    NoMeasure = NoMeasure
    NoCallback = NoCallback
PROPERTIES
    NotifiesClients

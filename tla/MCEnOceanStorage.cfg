SPECIFICATION Spec
CONSTANTS
    c1 = c1  c2 = c2  w1 = w1  w2 = w2
    g1 = g1  g2 = g2  a1 = a1  s1 = s1  m1 = m1
    r1 = r1  r2 = r2  r3 = r3  k1 = k1  k2 = k2
    l1 = l1  l2 = l2  l3 = l3  T = T  x = x  y = y
    None = None  Reader = Reader
    Threads = {c1, c2, w1, w2, Reader}
    ClientThreads = {c1, c2}
    AdminThreads = {w1, w2}
    LocationThreads = {w1, w2}
    Groups = {g1, g2}  Addresses = {a1}  Shortcuts = {T}  Names = {x, y}
    Sensors = {s1}  Measures = {m1}  Rows = {r1, r2, r3}  Clients = {k1, k2}
    Locations = {l1, l2, l3}
    Unscaled = {}  DefaultLocation = l1
    MaxDays = 1
    Scenarios <- AllScenarios
SYMMETRY RowKeys
INVARIANTS LastIsNewest OnlyLastWithoutClients LostOnlyDisturbed UngroupedOnlyBroken PathsCurrent
PROPERTIES KeptForClients

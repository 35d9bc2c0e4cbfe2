CONSTANTS
    k1 = k1
    k2 = k2
    i1 = i1
    i2 = i2
    c1 = c1
    c2 = c2
    Key = {k1, k2}
    KeyTypeOf <- MCKeyTypeOf
    Nonce = {n1, n2}
    Contact = {c1, c2}
    Profile = {"", "p"}
    Identifier = {i1, i2}
    Suffixed <- MCSuffixed
    Body <- MCBody
    Upstream = {"u1", "u2"}
    ConfigFile <- MCConfigFile
    Req = {r1, r2}
    MaxSigned = 2
    MaxRestart = 1
    NoRow = NoRow
    NoBody = NoBody
SPECIFICATION Spec
SYMMETRY Symmetry
INVARIANTS TypeOK SignedOnceActsOnce OrderIsAuthentic AnnouncedAccountResolves RoutedAsWritten
CHECK_DEADLOCK FALSE

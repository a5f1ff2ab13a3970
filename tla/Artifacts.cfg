CONSTANTS
    k1 = k1
    k2 = k2
    a = a
    b = b
    s1 = s1
    s2 = s2
    h1 = h1
    h2 = h2
    Unset = Unset
    Cleaner = Cleaner
    Content = {a, b}
    Key = {k1, k2}
    Source = {s1, s2}
    Handler = {h1, h2}
    Mixes <- FileSets
    MaxObjects <- Quota
    Reservation = 1
    Retention = 2
    MaxVersion = 3
    MaxCount = 2
SPECIFICATION FilesSpec
SYMMETRY Handlers
INVARIANTS FilesTypeOK ContentIsThere QuotaIsHonest

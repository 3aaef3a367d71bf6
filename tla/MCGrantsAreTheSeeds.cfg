CONSTANTS
    d1 = d1  d2 = d2  t1 = t1  t2 = t2  u1 = u1  u2 = u2
    p1 = p1  p2 = p2  r1 = r1  r2 = r2  noColumns = noColumns
    None = None
    DB = {d1, d2}
    Table = {t1, t2}
    User = {u1, u2}
    Password = {p1, p2}
    Payload = {r1, r2, noColumns}
    Columnless = {noColumns}
    Configs <- MCConfigs
SPECIFICATION SeedSpec
INVARIANT
    GrantsAreTheSeeds

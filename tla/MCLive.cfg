CONSTANTS
    d1 = d1  Dx = Dx  dx = dx  t1 = t1  Tx = Tx  tx = tx  u1 = u1  u2 = u2
    p1 = p1  p2 = p2  r1 = r1  r2 = r2  noColumns = noColumns
    conn = conn
    None = None
    Conn = {conn}
    DB = {d1, dx}
    Table = {t1}
    User = {u1, u2}
    Password = {p1, p2}
    Payload = {r1, r2}
    Columnless = {}
    Configs <- MCDeployed
    Queries <- MCLiveQueries
    Lower <- MCLower
SPECIFICATION Spec
INVARIANTS
    QuietReadsAreExact
    UnqualifiedReadsWereGranted
    ListedDBsAreGranted
    RowsComeFromSeeds
    SessionsHaveCredentials
PROPERTIES
    CommandsAreAnswered

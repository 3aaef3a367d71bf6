CONSTANTS
    d1 = d1  Dx = Dx  dx = dx  t1 = t1  Tx = Tx  tx = tx  u1 = u1  u2 = u2
    p1 = p1  p2 = p2  r1 = r1  r2 = r2  noColumns = noColumns
    None = None
    Conn = {conn}
    conn = conn
    DB = {d1, Dx, dx}
    Table = {t1, Tx, tx}
    User = {u1, u2}
    Password = {p1, p2}
    Payload = {r1, r2, noColumns}
    Columnless = {noColumns}
    Configs <- MCStaticFiles
    Queries <- MCStaticQueries
    Lower <- MCLower
SPECIFICATION StaticSpec
INVARIANT
    SeededTablesAreReadable

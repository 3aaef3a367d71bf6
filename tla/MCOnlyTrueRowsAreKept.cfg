CONSTANTS
    None = None
    NaN = NaN
    Lower <- MCLower
    NumberIn <- MCNumberIn
    Rendered <- MCRendered
    Precedes <- MCPrecedes
    Arithmetic <- MCArithmetic
    Float <- MCFloat
    Runes <- MCRunes
    Bytes <- MCBytes
    SameFold <- MCSameFold
    Unit = 2
    Finds <- MCFinds
    BadPatterns = {"("}
    Tables <- MCTables
    Statements <- MCStatements
    Half = 8
    Name <- MCName
    Datum <- MCDatum
    Expr <- MCExpr
    Nesting <- MCNesting
SPECIFICATION Spec
INVARIANT OnlyTrueRowsAreKept
CHECK_DEADLOCK FALSE

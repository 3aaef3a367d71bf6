CONSTANTS
    q1 = q1  q2 = q2  bad = bad
    tree1 = tree1  tree2 = tree2  syntaxError = syntaxError
    g1 = g1  g2 = g2  g3 = g3
    Nothing = Nothing
    Goroutine = {g1, g2, g3}
    Text = {q1, q2, bad}
    Tree = {tree1, tree2, syntaxError}
    ParseOf <- MCParseOf
SPECIFICATION ParserSpec
INVARIANTS
    ParserTypeOK
    MutualExclusion
PROPERTIES
    ImplementsService

CONSTANTS
    MaxConns = 2
    MaxStmts = 3
    MaxDepth = 2
SPECIFICATION Spec
INVARIANTS
    ConnectionOutlivesItsUsers
    StatementsAreOwned

CONSTANTS
    c1 = c1
    c2 = c2
    k1 = k1
    k2 = k2
    Callers = {c1, c2}
    Closers = {k1, k2}
    Calls = 2
SPECIFICATION OracleSpec
INVARIANTS
    AnswersOwnRequest
PROPERTIES
    EveryCallReturns
CHECK_DEADLOCK FALSE

SPECIFICATION Spec
CONSTANTS
    IntMax = 7
    ExactBelow = 4
    Values = {1, 5}
    Doubles = {1, 6}
    Keys <- MCKeys
    Tables <- MCTables
    Queries <- MCQueries
INVARIANTS
    PlainExact
    PlainOrdered
    GlobalExact
    GroupedExact
\* A query ends.
CHECK_DEADLOCK FALSE

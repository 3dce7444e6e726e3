SPECIFICATION ContentSpec
CONSTANTS
    Columns <- MCColumns
    Tables <- MCTables
    Tables2 <- MCTables2
    PropSets <- PlainProps
INVARIANTS ValuesKeptWhole
CHECK_DEADLOCK FALSE

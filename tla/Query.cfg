\* Every statement of MCSql over every content of the two tables; any call to the transaction
\* may fail.
CONSTANTS
    Unit = 6
    MaxFails = 2
    Catalog <- MCCatalog
    Queries <- MCQueries
    Databases <- MCDatabases
SPECIFICATION Spec
INVARIANT AnswersExact
PROPERTY WritesExact
CHECK_DEADLOCK FALSE

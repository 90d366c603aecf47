\* Every query of MCFamilies over its collection.
\* Deadlock is not checked: a query ends.
SPECIFICATION Spec
CONSTANT Families <- MCFamilies
INVARIANTS
    TypeOK
    NoConditionLost
    UserParameterKept
    RefusedForValuesOnly
    PlainScanExact
    RewriteKeepsAnswer
CHECK_DEADLOCK FALSE

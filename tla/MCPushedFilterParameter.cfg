\* An expression of the WHERE clause beside a filter of the user's.
\* Deadlock is not checked: a query ends.
SPECIFICATION Spec
CONSTANT Families <- MCFamilies
INVARIANT WhereTakesPrecedence
CHECK_DEADLOCK FALSE

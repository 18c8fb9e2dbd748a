CONSTANTS
    n1 = n1
    n2 = n2
    Nodes <- MCNodes
    Offsets <- MCOffsets
    Limit = 2
SPECIFICATION Spec
INVARIANTS TypeOK ShownIsAcknowledged WindowIsExact
PROPERTIES ImplementsAckedProgress
\* The stream is finite: once every command is shown nothing is left to do.
CHECK_DEADLOCK FALSE

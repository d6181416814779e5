SPECIFICATION Spec
CONSTANTS
    Oid = {1, 2}
    Kinds <- MCKinds
    MaxFileSize = 1
    Exts = {"doc"}
    Begins <- MCBegins
    Indices <- MCIndices
INVARIANTS
    TypeOK
    AllOrNothing
    ReportedIsIndexed
    DocumentsAreListed
PROPERTIES
    ImplementsAtomicTask
CHECK_DEADLOCK FALSE

SPECIFICATION Spec
CONSTANTS
    Pid = {1, 2, 3}
    Kind = {builder, scanner}
INVARIANTS
    TypeOK
    FileNamesDaemon
CHECK_DEADLOCK FALSE

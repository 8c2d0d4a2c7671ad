SPECIFICATION Spec
CONSTANTS
    command = command
    message = message
    Header = Header
    Absent = Absent
    Items <- MCItems
    Commands <- MCCommands
    Scripts <- MCScripts
    Capacity = 2
    MaxAhead = 2
    MaxFaults = 1
INVARIANTS
    RecoveryIsAuthoritative
CHECK_DEADLOCK FALSE

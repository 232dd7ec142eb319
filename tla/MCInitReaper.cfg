SPECIFICATION FairSpec
CONSTANTS
    Pid = {p1, p2, p3, p4}
    MaxInterrupts = 2
INVARIANTS TypeOK OneConsoleShell WaitsForItsShell
PROPERTIES ShellComesBack OrphansReaped
CHECK_DEADLOCK FALSE

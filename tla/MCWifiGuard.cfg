\* The engine and two commands of any kind, reports at any time, one mishap.
CONSTANTS
    Ssids <- MCSsids
    Secret <- MCSecret
    Passwords <- MCPasswords
    Radios <- MCRadios
    FirstRadio <- Weak
    Requests <- MCRequests
    Start <- MCStart
    Made = {"yard"}
    Own = {"home"}
    Dead = {"shop"}
    Cmds = {1, 2}
    Ops = {"apply", "switch", "connect", "report"}
    Engine = 0
    Inodes <- MCInodes
    MaxMishaps = 1
SPECIFICATION Spec
INVARIANTS
    DiskIsMemory
    EngineObeys
PROPERTIES
    PasswordsAreKept
    StrandsOnlyUnmanaged
\* The console stops asking and the guard may be off: the system may rest.
CHECK_DEADLOCK FALSE

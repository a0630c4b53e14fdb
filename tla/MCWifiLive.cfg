\* The engine and one command of any kind, two mishaps, reports at any time: does
\* the engine ever get away from a weak link?
CONSTANTS
    Ssids <- MCSsids
    Secret <- MCSecret
    Passwords <- MCPasswords
    Radios <- MCRadios
    FirstRadio <- Weak
    Requests <- MCRequests
    Start <- MCStart
    Made = {"yard"}
    Own = {"home"}
    Dead = {"shop"}
    Cmds = {1}
    Ops = {"apply", "switch", "connect", "report"}
    Engine = 0
    Inodes <- MCInodes
    MaxMishaps = 2
SPECIFICATION FairSpec
PROPERTIES
    WeakLinkIsLeft
\* The console stops asking and the guard may be off: the system may rest.
CHECK_DEADLOCK FALSE

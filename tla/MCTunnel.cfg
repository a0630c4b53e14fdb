\* What the target of one session sends, through channels of size one, over a
\* tunnel that is replaced by another.
CONSTANTS
    None = None
    s1 = s1
    s2 = s2
    Streams = {1, 2}
    Sess = {s1}
    MaxIn <- NoBytes
    MaxOut <- TwoBytes
    FrameMax = 2
    ReadMax = 1
    DownCap = 1
    UpCap = 2
    ChCap = 1
    OutCap = 1
    SockCap = 1
SPECIFICATION FairSpec
INVARIANTS
    OutputInOrder
    RegistersAreTrue
PROPERTIES
    ReadersEnd
    TunnelRegisters
\* Everything comes to an end: bytes, sessions and streams are finite.
CHECK_DEADLOCK FALSE

\* Two sessions on a tunnel with room for one frame, one of them to a target
\* that takes less than is written: the open frame of each may find nt.mu
\* taken, the window full, and the agent's loop waiting for the target.
CONSTANTS
    None = None
    s1 = s1
    s2 = s2
    Streams = {1}
    Sess = {s1, s2}
    MaxIn <- OneWrites
    MaxOut <- NoBytes
    FrameMax = 1
    ReadMax = 1
    DownCap = 1
    UpCap = 1
    ChCap = 1
    OutCap = 1
    SockCap = 1
SPECIFICATION FairSpec
INVARIANTS
    InputInOrder
PROPERTIES
    OpenReturns
\* Everything comes to an end: bytes, sessions and streams are finite.
CHECK_DEADLOCK FALSE

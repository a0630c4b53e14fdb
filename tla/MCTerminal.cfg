\* One session over two streams, two messages typed; a channel with room for one frame.
CONSTANTS
    Sess = {s1}
    LastStream = 2
    MaxKeys = 2
    MaxOut = 2
    SinkCap = 1
SPECIFICATION FairSpec
INVARIANTS
    KeysAtMostOnce
    OutputInOrder
PROPERTIES
    ShellsEnd
    BrowserIsTold
\* A session may be over, or wait for a user.
CHECK_DEADLOCK FALSE

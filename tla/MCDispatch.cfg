\* Two calls to one node, over two successive streams.
CONSTANTS
    n1 = n1
    n2 = n2
    None = None
    Nodes = {n1}
    Streams = {s1, s2}
    Calls = {c1, c2}
    Cmds = {c1, c2}
    CmdOf <- PrivateCommands
    Target <- SameNode
    Window = 1
    Beating = {}
    DbErrors = 1
SPECIFICATION Spec
SYMMETRY Symmetry
INVARIANTS
    NoSendOnClosed
    OwnAnswer
    LedgerAgrees
    NoWaiterLeak
    SessionBacked
PROPERTIES
    KeepsContract

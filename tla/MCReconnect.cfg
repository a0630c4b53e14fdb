\* One node whose agent is back before the old handler has returned.
CONSTANTS
    n1 = n1
    n2 = n2
    None = None
    Nodes = {n1}
    Streams = {s1, s2}
    Calls = {c1}
    Cmds = {c1}
    CmdOf <- PrivateCommands
    Target <- SameNode
    Window = 1
    Beating = {}
    DbErrors = 1
SPECIFICATION Spec
INVARIANT ServedNodeHasSession

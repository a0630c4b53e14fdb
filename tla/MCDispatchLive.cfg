\* One call over two successive streams, whose window an answer to a
\* heartbeat fills, under the fairness of the code.
CONSTANTS
    n1 = n1
    n2 = n2
    None = None
    Nodes = {n1}
    Streams = {s1, s2}
    Calls = {c1}
    Cmds = {c1}
    CmdOf <- PrivateCommands
    Target <- SameNode
    Window = 1
    Beating = {s1, s2}
    DbErrors = 0
SPECIFICATION FairSpec
PROPERTIES
    DispatchReturns
    GoneAgentGoesOffline

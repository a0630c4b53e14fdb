CONSTANTS
    a = a
    b = b
    None = None
    Tabs <- MCTwo
    MaxTokens = 2
    Containers <- MCTwo
    Managed <- MCTwo
    MaxRequests = 2
    DirNames <- MCTwo
    MaxDepth = 2
    MaxLoads = 2
    MaxChains = 2
    MaxRfbs = 3
    MaxShells = 3
    MaxSockets = 3
    MaxPromises = 2
    Nodes <- MCOne
    Example = b
    MaxVersions = 2
    MaxSelected = 2
    MaxBatches = 2
    Instances <- MCTwo
    MaxReads = 2
    Binaries <- MCTwo
    MaxReloads = 2
    Ssids <- MCOne
    MaxScans = 1
    MaxEdits = 1
    MaxCharts = 2
    Hosts <- MCTwo
    MaxCalls = 2
    Boxes <- MCTwo
    Names <- MCOne
    Domains <- MCTwo
    MaxDeploys = 2
    MaxChecks = 1
    MaxRules = 2
    MaxSaves = 1
SPECIFICATION Spec

    
    
    
PROPERTIES
    
    RequestsSettle
    ConnectionsComeBack
CHECK_DEADLOCK FALSE

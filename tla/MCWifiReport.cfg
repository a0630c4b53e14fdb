\* Every scan of up to four access points, with every link and setting.
CONSTANTS
    Blocks <- MCBlocks
    Lines <- MCLines
    IwLinks <- MCIwLinks
    NmcliLinks <- MCNmcliLinks
    Settings <- MCSettings
    MaxHeard <- MCMaxHeard
SPECIFICATION Spec
INVARIANTS
    AdviceIsSound
    StatsAddUp

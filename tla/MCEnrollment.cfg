\* Two devices installed with one key, two mishaps, and a certificate that expires.
CONSTANTS
    None = None
    Torn = Torn
    Devices = {d1, d2}
    Keys = {k1}
    KeyOf <- SameKey
    Ids = {i1, i2}
    Calls = {c1, c2}
    MaxBreaks = 2
    MaxExpired = 1
SPECIFICATION FairSpec
INVARIANTS
    CertsFollowFingerprints
    CertFitsKey
PROPERTIES
    JoinsUnlessShutOut
CHECK_DEADLOCK FALSE

CONSTANTS
    Families <- OnlyV4
    Width <- ThreeBits
    MaxAddresses = 4
    Global <- UpperHalf
    Names <- AllNames
    Products <- SomeProducts
    Ports <- SomePorts
    MentionsOf <- Mentions
    MaxFindings = 2
SPECIFICATION Spec
INVARIANTS
    NormalIsCanonical
    OverlapsIsSharing
    RevalidationAccepts
    NormalisingIsOnce
    RiskGrows
CHECK_DEADLOCK FALSE

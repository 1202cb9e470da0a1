CONSTANTS
    Families <- BothFamilies
    Width <- TwoBits
    MaxAddresses = 2
    Global <- UpperHalf
    Names <- AllNames
    Products <- SomeProducts
    Ports <- SomePorts
    MentionsOf <- Mentions
    MaxFindings = 0
SPECIFICATION Spec
INVARIANTS
    RevalidationAccepts
CHECK_DEADLOCK FALSE

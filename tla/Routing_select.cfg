SPECIFICATION Spec
CONSTANTS
    Labels = {"a", "A", "b"}
    Fold <- TwoCases
    SuffixLength = 2
    QueryLength = 2
    MaxRules = 3
    Addresses <- Texts
    DefaultPort = 53
    NoPort = 65536
    MaxUpstreams = 2
INVARIANTS
    GroupsSound
    SelectsMostSpecific

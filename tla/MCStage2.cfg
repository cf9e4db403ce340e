CONSTANTS
    Page = 2
    Top = 10
    BiosMaps <- SmallMaps
SPECIFICATION Stage2Spec
INVARIANTS
    RegionsTrue
CHECK_DEADLOCK FALSE

SPECIFICATION FairSpec
CONSTANTS
    i1 = i1
    i2 = i2
    None = None
    Ioc = {i1, i2}
    MaxDetail = 2
    MaxList = 2
    Sizes <- MCSizes
INVARIANTS
    SkipIsSound
PROPERTIES
    ChangesNoticed
    PanelCatchesUpUnlessFailed
    ListCatchesUp

SPECIFICATION FairSpec
CONSTANTS
    i1 = i1
    i2 = i2
    None = None
    Ioc = {i1}
    MaxDetail = 1
    MaxList = 1
    Sizes <- MCFailureSizes
PROPERTIES
    PanelCatchesUp

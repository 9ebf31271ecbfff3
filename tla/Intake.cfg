SPECIFICATION Spec
CONSTANTS
    TtlModulus = 4
    Mode = "server"
    CategoryDetectors <- MCCategoryDetectors
    Embedders <- MCEmbedders
    Pages <- MCPages
    Half = 100
    MaxZone = 20
    MinTextLength = 3
    ComputeNasty = TRUE
    MinTitleSize <- MCMinTitleSize
INVARIANTS
    TypeOK
    ParsedIsPage
    RejectionIsAboutUnknowns
CHECK_DEADLOCK FALSE

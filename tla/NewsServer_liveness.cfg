SPECIFICATION FairSpec
CONSTANTS
    TtlModulus = 4
    Mode = "top"
    CategoryDetectors <- MCCategoryDetectors
    Embedders <- MCEmbedders
    Keys = {k1, k2}
    Handlers = {h1}
    Bodies <- FairBodies
    Headers <- OneAge
    Clusterings <- MCClusterings
    RequiredKeys <- MCRequiredKeys
    OldDocs <- NoDocs
    SerialClients = TRUE
    DbFaults = FALSE
    MaxCrashes = 1
    NoDoc = NoDoc
    Null = Null
PROPERTIES
    BecomesReady
    RequestsAreAnswered
    StoredDocsSurface

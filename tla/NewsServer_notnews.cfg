SPECIFICATION Spec
CONSTANTS
    TtlModulus = 4
    Mode = "top"
    CategoryDetectors <- MCCategoryDetectors
    Embedders <- MCEmbedders
    Keys = {k1}
    Handlers = {h1}
    Bodies <- MixedBodies
    Headers <- OneAge
    Clusterings <- MCClusterings
    RequiredKeys <- MCRequiredKeys
    OldDocs <- NoDocs
    SerialClients = TRUE
    DbFaults = FALSE
    MaxCrashes = 0
    NoDoc = NoDoc
    Null = Null
INVARIANTS
    ClusteredDocsAreNews

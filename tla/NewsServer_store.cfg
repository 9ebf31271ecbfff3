SPECIFICATION Spec
CONSTANTS
    TtlModulus = 4
    Mode = "top"
    CategoryDetectors <- MCCategoryDetectors
    Embedders <- MCEmbedders
    Keys = {k1, k2}
    Handlers = {h1}
    Bodies <- AllBodies
    Headers <- AllHeaders
    Clusterings <- MCClusterings
    RequiredKeys <- MCRequiredKeys
    OldDocs <- NoDocs
    SerialClients = TRUE
    DbFaults = FALSE
    MaxCrashes = 1
    NoDoc = NoDoc
    Null = Null
INVARIANTS
    TypeOK
    ReadyMeansWired
    FreshestSurvives
    IndexMirrorsStore
    StoreStaysClusterable
PROPERTIES
    LossNeedsRace
    ImplementsNewsStore

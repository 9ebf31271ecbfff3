SPECIFICATION Spec
CONSTANTS
    TtlModulus = 4
    Mode = "top"
    CategoryDetectors <- MCCategoryDetectors
    Embedders <- MCEmbedders
    Keys = {k1, k2}
    Handlers = {h1, h2}
    Bodies <- OneBody
    Headers <- OneAge
    Clusterings <- MCClusterings
    RequiredKeys <- MCRequiredKeys
    OldDocs <- UnclusterableDocs
    SerialClients = TRUE
    DbFaults = TRUE
    MaxCrashes = 0
    NoDoc = NoDoc
    Null = Null
SYMMETRY Permuted
INVARIANTS
    IndexIsLive
PROPERTIES
    AnswersAreTrue

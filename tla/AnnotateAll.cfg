SPECIFICATION FairSpec
CONSTANTS
    TtlModulus = 4
    Mode = "categories"
    CategoryDetectors <- MCCategoryDetectors
    Embedders <- MCEmbedders
    Workers = {w1, w2, w3}
    TaskIds = {1, 2, 3}
    NoTask = NoTask
    MaxInputs = 3
    Bodies <- MCBodies
    Unannotatable <- MCUnannotatable
    RequestedLanguages <- MCRequestedLanguages
    SaveNotNews = FALSE
INVARIANTS
    TypeOK
    TasksRunOnce
    NoTaskSleeps
    PoolIsDrained
PROPERTIES
    ImplementsAnnotateInOrder
CHECK_DEADLOCK FALSE

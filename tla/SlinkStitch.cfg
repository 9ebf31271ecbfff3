SPECIFICATION Spec
CONSTANTS
    chunk_size = 4
    intersection_size = 2
    MaxDocs = 8
INVARIANTS
    TypeOK
    EachDocumentLabelledOnce
    RepeatedAreInBatch
    
PROPERTIES
    LoopMakesProgress
CHECK_DEADLOCK FALSE

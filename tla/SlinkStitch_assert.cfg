SPECIFICATION Spec
CONSTANTS
    chunk_size = 4
    intersection_size = 2
    MaxDocs = 8
INVARIANTS
    TranslationsGoForward
CHECK_DEADLOCK FALSE

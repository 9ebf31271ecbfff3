SPECIFICATION Spec
CONSTANTS
    TtlModulus = 4
    MaxDocs = 3
    DocumentKinds <- MCDocumentKinds
    Hosts <- MCHosts
    AgencyScore <- MCAgencyScore
    HostWeight <- MCHostWeight
    Sigmoid <- MCSigmoid
    One = 4
    Tolerance = 10
    Clusterings = {"LN_RU", "LN_EN"}
    Percentile = 50
    MinClusterSizes = {1, 2}
    Limit = 1
    Periods <- MCPeriods
    QueryCategories = {"NC_ANY", "NC_SOCIETY", "NC_NOT_NEWS"}
    Windows = {0, 1, 5}
    SaveNotNews = FALSE
    Half = 4
    Wide = 64
INVARIANTS
    TypeOK
    IndexIsComplete
    AnswerIsExact
    BestComeFirst
    AgesAreExact
    OrdersFollowWeights
    ImportancesAreBestSlices
CHECK_DEADLOCK FALSE

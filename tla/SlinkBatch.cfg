SPECIFICATION Spec
CONSTANTS
    docSize = 4
    InfDistance = 3
    Configs <- MCConfigs
    Sitings <- MCSitings
INVARIANTS
    TypeOK
    DistancesNeverDecrease
    PairIsClosest
    LabelsAreFirstDocuments
    SitesAreDistinct
    BigClustersAreTight
    IsSingleLinkage
CHECK_DEADLOCK FALSE

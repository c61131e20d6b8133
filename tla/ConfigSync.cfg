SPECIFICATION MCSpec
CONSTANTS
    Pods = {p1}
    MaxVersion = 2
    MaxFaults = 2
    Catalog <- MCCatalog
    Overlays <- MCOverlays
    Queries <- MCQueries
    Synonyms <- MCSynonyms
    Related <- MCRelated
    Engines = {"off", "substring", "bm25", "vector", "hybrid"}
    DefaultLimit = 1
    MaxLimit = 2
    DefaultPerPage = 2
    MaxPerPage = 3
    Unit = 238266
CHECK_DEADLOCK FALSE
INVARIANTS ReadinessIsTrue  
PROPERTIES SettingsNeverGoBack ReconnectionBringsSettings

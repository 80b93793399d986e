\* Three collectors; five deployments that run, seventeen that are refused.
SPECIFICATION FairSpec
CONSTANTS
    Collectors <- MCCollectors
    Layers <- MCLayers
    TenantNames = {"a", "b", "", "_discovery"}
    Discoveries <- MCDiscoveries
INVARIANTS
    TypeOK
    ProvidersOutliveEmitters
    ExitCodeMeans
PROPERTIES
    CollectsAgain
    StopsWhenTold

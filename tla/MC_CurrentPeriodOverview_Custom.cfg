CONSTANTS
    MaxAmount <- MC_MaxAmount
    MaxMeters <- MC_MaxMeters
    StaticKinds <- MC_AllStaticKinds
    Currencies <- MC_OneCurrency
    OrgPresence <- MC_OrgLoaded
    Undefined = Undefined
    NaN = NaN
    Null = Null
    Thrown = Thrown
SPECIFICATION Spec
INVARIANTS
    EstimateMatchesSpec

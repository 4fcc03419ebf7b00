CONSTANTS
    MaxTime <- MC_MaxTime
    Period <- MC_Period
    MaxClicks <- MC_MaxClicks
    AllowCustomerUpdates = TRUE
    HasOrganization = TRUE
SPECIFICATION Spec
PROPERTIES
    UncancelIssuedBeforePeriodEnd
CHECK_DEADLOCK FALSE

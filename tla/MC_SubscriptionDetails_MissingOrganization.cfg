CONSTANTS
    MaxTime <- MC_MaxTime
    Period <- MC_Period
    MaxClicks <- MC_MaxClicks
    AllowCustomerUpdates = TRUE
    HasOrganization = FALSE
SPECIFICATION Spec
INVARIANTS
    MissingOrganizationRendersNothing
CHECK_DEADLOCK FALSE

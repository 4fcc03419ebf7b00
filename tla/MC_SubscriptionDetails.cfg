CONSTANTS
    MaxTime <- MC_MaxTime
    Period <- MC_Period
    MaxClicks <- MC_MaxClicks
    AllowCustomerUpdates = TRUE
    HasOrganization = TRUE
SPECIFICATION Spec
INVARIANTS
    SingleUncancelInFlight
    NoUncancelForEndedSubscription
PROPERTIES
    ImplementsUncancelTracker
CHECK_DEADLOCK FALSE

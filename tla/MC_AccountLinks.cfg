CONSTANTS
    a1 = a1
    a2 = a2
    Accounts <- MC_Accounts
    AccountStatuses <- MC_AccountStatuses
    MaxClicks <- MC_MaxClicks
SPECIFICATION Spec
PROPERTIES
    EveryLinkClickSettles
CHECK_DEADLOCK FALSE

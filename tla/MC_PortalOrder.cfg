CONSTANTS
    o1 = o1
    o2 = o2
    Orders <- MC_Orders
    MaxClicks <- MC_MaxClicks
SPECIFICATION Spec
INVARIANTS
    SingleInvoiceRequestInFlight
PROPERTIES
    EveryDownloadSettles
    ImplementsTracker
CHECK_DEADLOCK FALSE

SPECIFICATION FairSpec
CONSTANTS
    PageSize = 2
    Words = 10
    Archs = {"arm"}
    Requests <- AllRequests
    Reclaims = FALSE

PROPERTY HcReturns

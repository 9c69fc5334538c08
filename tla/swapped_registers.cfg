SPECIFICATION FairSpec
CONSTANTS
    PageSize = 2
    Words = 10
    Archs = {"i386"}
    Requests <- NvramRequests
    Reclaims = FALSE

PROPERTY HcReturns

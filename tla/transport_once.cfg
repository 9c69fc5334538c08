SPECIFICATION Spec
CONSTANTS
    PageSize = 2
    Words = 10
    Archs = {"arm", "aarch64", "mips", "i386"}
    Requests <- NvramRequests
    Reclaims = TRUE

INVARIANT TypeOK
PROPERTY EffectOnce

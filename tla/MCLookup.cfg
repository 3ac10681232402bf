CONSTANTS
    a1 = a1
    a2 = a2
    a3 = a3
    lma = lma
    rho = rho
    v0 = v0
    v1 = v1
    bogus = bogus
    null = null
    Objs <- MCObjs
    Keys <- MCKeys
    Vals <- MCVals
    Default <- MCDefault
    Unknown <- bogus
    NULL <- null
SPECIFICATION Spec

INVARIANT TableMatchesAddr
PROPERTY ParametersRefined

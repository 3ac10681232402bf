CONSTANTS
    NPatches = 2
    NSpecies = 2
    MaxHeight = 1
    MaxCohort = 1
    MaxSeeds = 1
    SeedsPerPlant = 1
    MaxAge = 2
    StepSizes <- MCStepSizes
SPECIFICATION Spec
INVARIANT TypeOK
INVARIANT SeedProbabilityCursor
PROPERTY GrowthFollowsIndividual
PROPERTY SeedlingsWhereRequested

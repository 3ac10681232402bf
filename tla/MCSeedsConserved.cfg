CONSTANTS
    NPatches = 2
    NSpecies = 2
    MaxHeight = 1
    MaxCohort = 2
    MaxSeeds = 1
    SeedsPerPlant = 1
    MaxAge = 1
    StepSizes <- MCStepSizes
SPECIFICATION Spec
PROPERTY SeedsConserved

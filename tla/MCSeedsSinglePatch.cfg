\* One patch and one species: j = 1 at the only patch, p = 1.
CONSTANTS
    NPatches = 1
    NSpecies = 1
    MaxHeight = 1
    MaxCohort = 2
    MaxSeeds = 2
    SeedsPerPlant = 2
    MaxAge = 2
    StepSizes <- MCStepSizes
SPECIFICATION Spec
PROPERTY SeedsConserved

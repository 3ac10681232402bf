\* Three patches: j wraps after patch 2 and p = 1/j is a valid probability
\* again at patch 3, after a NaN draw at patch 2.
CONSTANTS
    NPatches = 3
    NSpecies = 3
    MaxHeight = 1
    MaxCohort = 1
    MaxSeeds = 1
    SeedsPerPlant = 1
    MaxAge = 1
    StepSizes <- MCStepSizes
    RMatrices <- MCRMatrices
SPECIFICATION Spec
INVARIANT SeedsNeverCreated
CONSTRAINT MCPopulationBound

CONSTANTS
    MaxHeight = 2
    HeightMax = 1
    Envs = {e1, e2}
SPECIFICATION Spec

PROPERTY ExactRatesFresh

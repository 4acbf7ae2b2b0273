SPECIFICATION FairSpec
CONSTANTS
    Sizes = {2, 4}
    MaxFaults = 3
PROPERTIES OkMeansWhole LossesAreHarmless ResetIntoWhole UpdateCompletes

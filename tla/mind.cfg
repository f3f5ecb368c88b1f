SPECIFICATION Spec
CONSTANTS
    Names = {A, B, C}
    GivenLinks <- SomeLinks
    Threshold = 50
    FocusSize = 1
    Intensities = {500}
    SpreadingRate = 100
    Plans <- SomePlans
    MaxAtoms = 7
    PremiseLists <- SomePremises
    MaxSteps = 2
INVARIANTS TypeOK AtomsAgree ConclusionsFollow ResultIsStored GoesOn AttentionFollowsLinks
SYMMETRY NameSymmetry
CHECK_DEADLOCK FALSE

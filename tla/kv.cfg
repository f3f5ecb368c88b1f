\* All calls on a small cache, with and without an attention window.
CONSTANTS
    NCells = 4
    NSeqs = 2
    Batches <- SomeBatches
    NUbatch = 2
    MaxPos = 4
    Ranges <- SomeRanges
    Shifts <- SomeShifts
    MaxShift = 4
    MaxSaved = 2
    Divisors = {2}
    MaxMoves = 2
    Modes <- SomeModes
    NoState = NoState
SPECIFICATION Spec
INVARIANTS TypeOK IndexesExact RotationTracked
PROPERTIES RefusedOnlyIfFull NoNewHoles ImplementsStore
VIEW Essence

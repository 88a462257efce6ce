SPECIFICATION ProviderFairSpec
CONSTANTS
    Consumer = {c1, c2}
    BeatModulus = 3
    FrameModulus = 2
    BeatLength = {1, 2}
INVARIANTS
    BeatTicksRegistered
    OneLateBeat
    BeatTracksLast
PROPERTIES
    EndThreadReturns

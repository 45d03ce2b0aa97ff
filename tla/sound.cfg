SPECIFICATION SoundFairSpec
CONSTANTS
    Channels = 2
    Full = 2
    AttackStep = 1
    DecayStep = 1
    ReleaseSamples = 2
    Sustains = {0, 1}
    BaseHz = 2
    SampleRate = 1
    Cycles = {1, 3}
    Parts = 2
    Intervals = {1}
INVARIANTS SoundTypeOK NotesFollowGates StatusFresh
PROPERTIES ReleaseEnds

CONSTANTS
    MaxMembers = 3
    MaxParticipant = 2
    MaxPackets = 3
SPECIFICATION MixerFairSpec
CHECK_DEADLOCK FALSE
INVARIANTS
    ZeroIsNotMixed
    CrashIsExplained
PROPERTIES
    AudioNeverGoesBack
    NewestIsHeard

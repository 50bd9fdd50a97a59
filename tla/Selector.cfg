\* Three descriptors: the passive socket and two that come and go.
SPECIFICATION FairSpec
CONSTANTS
    ITEMS_MAX_SIZE = 3
    InitialElements = 3
INVARIANTS
    TypeOK
    MaxFdIsMax
    MastersMatch
    EveryEventIsTaken
    NoJobLost
    NoLostWakeup
PROPERTY
    NotifiedIsHandled

SPECIFICATION AllSpec
CONSTANTS
    Base = 10
    Cap = 600
    MaxAttempt = 6
    Width = 11
    MaxEvents = 3
    MaxPanics = 1
    MaxFailures = 9
    Services = {s1}
    BackoffMin = 1
    BackoffMax = 4
    Carried = {TRUE, FALSE}
    MaxWire = 2
    MaxChanges = 2
    MaxFaults = 1
    Nil = Nil
    JointFailures = 1
    JointBreaks = 1
    JointChanges = 1
INVARIANTS NoLostWake HintBeforeWake DelaysFollowFailures
PROPERTIES ManagedChangeIsTold NobodyGivesUp HintStarts EverythingStops

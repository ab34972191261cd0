SPECIFICATION Spec
CONSTANTS
    a = a
    b = b
    c = c
    Records = {a, b, c}
    Created <- DaysCreated
    Expires <- DaysExpires
    MaxLifetime = 1
    Skew = 1
    Width = 4
    DayLength = 2
    MaxActive = 2
    MaxDaily = 2
    KeptDays = 0
    QueueSize = 1
    MaxBatch = 2
    MaxTime = 3
    MaxFaults = 1
INVARIANTS WithinCapacity LifeBounded
PROPERTY SafetyLifts

CONSTANTS
    QueueSize = 2
    LinkSize = 2
    MaxFaults = 2
    Wrap = 64
    Stamps = {58, 60, 62, 64, 67}
    Targets = {2, 4}
    MaxPackets = 3
    MaxConcealed = 2
    Spare = 2
    AccelerateEvery = 2
    Ratio = 2
    MaxHold = 12
    MaxHeld = 2
    Queues = {1}
    FirstPicture = 120
    Gaps = {3}
    MaxPictures = 3
SPECIFICATION Spec
CHECK_DEADLOCK FALSE
PROPERTIES PathRepairs PlaysOn

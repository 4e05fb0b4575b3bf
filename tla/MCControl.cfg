SPECIFICATION ControlSpec
CONSTANTS
    MaxClicks = 3
    PingPeriod = 3
    WatchPeriod = 9
    MaxDelay = 2
    ConnectBound = 3
    MaxSpurious = 1
INVARIANTS
    NeverTerminates
    CapturingIsActive
    QuietWhenStopped
    CaptureIsFiltered
    WatchdogIsSound
PROPERTIES
    ClicksAreHonoured
    HelperEnds

SPECIFICATION BrowserSpec
CONSTANTS
    MaxProcs = 5
    MaxMishaps = 1
    MaxClicks = 1
    Linger = FALSE
    v1 = v1
    Viewers = {v1}
    Cap = 2
    MaxRead = 2
    MaxTotal = 6
    MaxMarkers = 2
    Prompt = TRUE
    Heartbeats = FALSE
INVARIANTS QuitCleansUp InstallPrevails
PROPERTIES ComesBack BytesInOrder ResetBetween StreamsEnd
CHECK_DEADLOCK FALSE

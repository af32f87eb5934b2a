CONSTANTS
    Colours <- MCColours
    Brightnesses = {128}
    Leds = {0, 2}
    MaxDiscover = 10
SPECIFICATION LightFairSpec
INVARIANTS
    LightTypeOK
    ToldTheTruth
PROPERTIES
    ReportsWhatShows
    TellsInTheEnd

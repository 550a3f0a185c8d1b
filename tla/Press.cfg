SPECIFICATION ScreenSpec
CONSTANTS
    Viewers = {"ana", "ben"}
    Composer = "ana"
    Crowds = {"ann", "both"}
    Size <- MCSize
    MaxPresses = 5
    MaxMoves = 1
PROPERTY LaterPressFreezesAnew
CHECK_DEADLOCK FALSE

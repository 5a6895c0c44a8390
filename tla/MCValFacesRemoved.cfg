SPECIFICATION FacesSpec
CONSTANTS
    Area <- MCArea
    FLOOD_AREA = "0"
    MaxFaces = 4
INVARIANT TimerHasFace
CHECK_DEADLOCK FALSE

SPECIFICATION FacesSpec
CONSTANTS
    Area <- MCArea
    FLOOD_AREA = "0"
    MaxFaces = 5
INVARIANTS
    AreaKeepsItsFace
    NetworkListExact
    NoDanglingReference
CHECK_DEADLOCK FALSE

SPECIFICATION Spec
SYMMETRY Symmetry
CONSTANTS
    o1 = o1
    o2 = o2
    x1 = x1
    r1 = r1
    r2 = r2
    NoMission = NoMission
    Operators <- MCOperators
    Marks <- MCMarks
    Labels <- MCLabels
    Ranges <- MCRanges
    MaxMissions = 3
    MaxInFlight = 2
INVARIANTS StoreAgrees OneActive
PROPERTY ReturnedSurvives

CONSTANTS
    Keys = {k1, k2}
    Vals = {v1, v2}
    Absent = Absent
    Unwritten = Unwritten
    Idle = Idle
    MaxDepth = 3
SPECIFICATION Spec
INVARIANTS
    ScanAgreesWithGet
PROPERTIES
    RefinesViewStack

SPECIFICATION Spec
CONSTANTS
    Cases = {c1}
    Keys = {k1, k2}
    Escalations = {}
    Requests = {q1, q2}
    NoCase = NoCase
    NoKey = NoKey
    NoEscalation = NoEscalation
    NoRequest = NoRequest
    IncludedLimit = 1
    MaxFaults = 0
SYMMETRY Symmetry
CHECK_DEADLOCK FALSE
INVARIANTS HandoverReviewed

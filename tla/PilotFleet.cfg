SPECIFICATION Spec
CONSTANTS
    Cases = {c1}
    Keys = {k1, k2}
    Escalations = {e1}
    Requests = {q1, q2}
    NoCase = NoCase
    NoKey = NoKey
    NoEscalation = NoEscalation
    NoRequest = NoRequest
    IncludedLimit = 1
    MaxFaults = 1
SYMMETRY Symmetry
CHECK_DEADLOCK FALSE
INVARIANTS TypeOK OnePublisher TrustChain
PROPERTIES OrphansNeverAdopted RunHistoryKept FinalDecisionKept

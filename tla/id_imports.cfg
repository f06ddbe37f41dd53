CONSTANTS
    Requests = {q1, q2}
    Writers = {w1, w2}
    MaxShare = 2
    MaxFaults = 1
    MaxCalls = 3
SYMMETRY Symmetry
SPECIFICATION Spec
INVARIANTS EndedMeansIdea DuplicatesHaveACause SecondIdeaHasACause 
PROPERTIES EditsSurvive
CHECK_DEADLOCK FALSE

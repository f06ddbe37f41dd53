CONSTANTS
    Handlers = {h1, h2}
    Sessions = {s1}
    Runs = {r1}
    Reviews = {v1}
    None = None
    FirstBalance = 1
    Price = 2
    Cost = 1
    MinBalance = 1
    MaxRequests = 2
    MaxOddities = 2
    ReviewCost = 1
    MaxStartups = 1
SYMMETRY Symmetry
SPECIFICATION Spec
INVARIANTS EffectsHaveACause RestrictionHasACause  ReviewsAreSettled
CHECK_DEADLOCK FALSE

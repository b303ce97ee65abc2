SPECIFICATION CheckoutSpec
CONSTANTS
    Installation = {i1}
    Repository = {r1}
    Project = {p1}
    Ref = {main}
    Place = {a}
    Attempt = {a1, a2}
    Reservation = {x1, x2}
    Request = {q1}
    MaxRevisions = 3
    None = None
SYMMETRY CheckoutSymmetry
INVARIANT
    OneOpenToken

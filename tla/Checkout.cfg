SPECIFICATION CheckoutSpec
CONSTANTS
    Installation = {i1}
    Repository = {r1, r2}
    Project = {p1}
    Ref = {main}
    Place = {a}
    Attempt = {a1}
    Reservation = {x1}
    Request = {q1, q2}
    MaxRevisions = 6
    None = None
SYMMETRY CheckoutSymmetry
INVARIANTS
    OneTokenPerReservation
    TokenForFrozenRepository
PROPERTIES
    StartsOnUnbrokenAuthority
    RunningEndsByClose

SPECIFICATION WebhookSpec
CONSTANTS
    Installation = {i1}
    Repository = {r1}
    Project = {p1}
    Ref = {main, dev}
    Place = {a, b}
    Commit = {c1}
    Delivery = {d1, d2}
    Nonce = {n1, n2}
    MaxRevisions = 7
    None = None
SYMMETRY WebhookSymmetry
PROPERTY
    ExactRedeliverySucceeds

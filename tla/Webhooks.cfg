SPECIFICATION WebhookSpec
CONSTANTS
    Installation = {i1}
    Repository = {r1}
    Project = {p1}
    Ref = {main}
    Place = {a, b}
    Commit = {c1, c2}
    Delivery = {d1, d2}
    Nonce = {n1, n2}
    MaxRevisions = 7
    None = None
SYMMETRY WebhookSymmetry
INVARIANTS
    ActiveBindingHasAuthority
    NoSilentReauthorization
    OneIntentPerCommit
    AcceptedPushIsQueued
PROPERTIES
    RedeliveryHasNoEffect

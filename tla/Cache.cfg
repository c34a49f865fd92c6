SPECIFICATION Spec
CONSTANTS
    page = page
    pageAgain = pageAgain
    other = other
    Greenlets = {g1, g2, g3}
    Requests = {page, pageAgain, other}
    Keys = {"page", "other"}
    KeyOf <- MCKeyOf
    Expiry = 2
    MaxView = 2
    None = None
SYMMETRY Symmetric
INVARIANTS
    TypeOK
    BoundedStaleness
    OwnAnswer

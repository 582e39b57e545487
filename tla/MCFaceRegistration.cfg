SPECIFICATION Spec
CONSTANTS
    alice = alice
    between = between
    bob = bob
    jpeg = jpeg
    png = png
    jpg = jpg
    u1 = u1
    u2 = u2
    u9 = u9
    w1 = w1
    w2 = w2
    Users = {u1, u2}
    Strangers = {u9}
    Faces = {alice, between, bob}
    Distance <- MCDistance
    ConflictThreshold = 7
    PaymentThreshold = 10
    Extensions = {jpeg, png, jpg}
    Savable = {jpeg, png}
    Workers = {w1, w2}
    Clients <- MCOwnClient
    Faults = {"commit"}
    MaxFaces = 2
    None = None
    Deleted = Deleted
INVARIANTS
    TypeOK
    OneFacePerUser
    PhotoOfEveryFace
    NoSharedFace
    PaymentFindsItsUser
SYMMETRY MCSymmetry
CHECK_DEADLOCK FALSE

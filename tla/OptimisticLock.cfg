SPECIFICATION Spec
CONSTANTS
    Clients = {c1, c2}
    Ids = {r1, r2}
    EntityIds = {r1, r2}
    NoId = NoId
    MaxVersion = 2
    Gone = Gone
    Unwritten = Unwritten
    NoEntity = NoEntity
SYMMETRY Symmetry
INVARIANTS TypeOK VersionIdentifiesContent DirectlyAgain
PROPERTY NoLostUpdate

SPECIFICATION Spec
CONSTANTS
    Registrars = {r1, r2}
    Queriers = {q1, q2, q3}
    Fields = {id, name, tenant}
    Embedded = {name}
    NoInstance = NoInstance
INVARIANTS TypeOK MutualExclusion Canonical Resolvable
PROPERTY Returns

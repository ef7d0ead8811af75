SPECIFICATION Spec
CONSTANTS
    x = x
    y = y
    z = z
    h1 = h1
    h2 = h2
    Users = {x, y, z}
    Handlers = {h1, h2}
    Asks <- MCAsks
    Nobody = Nobody
SYMMETRY Interchangeable
INVARIANTS AuthorityWasHeld OwnerRemains
PROPERTIES RolesComeFromOwners

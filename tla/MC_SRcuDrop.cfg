CONSTANTS
    Readers = {r1}
    Updaters = {u1}
    Objs = {o1, o2}
    ReadOps = {"read"}
    UpdateOps = {"update"}
    MayDrop = TRUE
    None = None
    r1 = r1
    r2 = r2
    u1 = u1
    u2 = u2
    o1 = o1
    o2 = o2
    o3 = o3
    o4 = o4
    InitObj = o1
SPECIFICATION Spec
INVARIANT OwnershipConserved
CHECK_DEADLOCK FALSE

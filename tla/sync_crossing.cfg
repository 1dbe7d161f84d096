SPECIFICATION Spec
CONSTANTS
    Config = {c1, c2, c3}
    Refused = {}
    Link = {"none", "blank", "token"}
    Setups <- CrossingSetups
SYMMETRY Perms
INVARIANTS
    OwesOrAgrees
CHECK_DEADLOCK FALSE

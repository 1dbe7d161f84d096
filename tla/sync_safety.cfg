SPECIFICATION Spec
CONSTANTS
    Config = {c1, c2, c3}
    Refused = {}
    Link = {"none", "blank", "token"}
    Setups <- SafetySetups
SYMMETRY Perms
INVARIANTS
    VersionsOrdered
    AwaitingIsOneReport
    AgreesUnlessParted
PROPERTY LedgerSpec
CHECK_DEADLOCK FALSE

SPECIFICATION FairSpec
CONSTANTS
    Config = {c1, c2, c3}
    Refused = {}
    Link = {"token"}
    Setups <- AgreementSetups
PROPERTY EventuallyInStep
CHECK_DEADLOCK FALSE

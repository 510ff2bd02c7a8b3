SPECIFICATION Spec
CONSTANTS
    Writers = {"post", "edit", "verify", "approve"}
    Appends <- OneOrTwo
    Forged = Forged
    Nobody = Nobody
CHECK_DEADLOCK FALSE
INVARIANTS OneChain WholeIsIntact BreaksAreNamed

CONSTANTS
    None = None
    c1 = c1
    c2 = c2
    Consumers = {c1}
    Envelope <- LossEnvelope
    Messages <- LossMessages
    Malformed = {}
    Breaking = {"bet"}
    LateWallets = {}
    MaxReceives = 3
    MaxBatch = 2
SPECIFICATION Spec
INVARIANTS
    UndecidedAreDeadLetters
CHECK_DEADLOCK FALSE

CONSTANTS
    None = None
    c1 = c1
    c2 = c2
    Consumers = {c1}
    Envelope <- RefusalEnvelope
    Messages <- RefusalMessages
    Malformed = {"garbage"}
    Breaking = {"early"}
    LateWallets = {"w2"}
    MaxReceives = 3
    MaxBatch = 2
SPECIFICATION Spec
INVARIANTS
    AcknowledgedLeavesTrace
PROPERTIES
    EveryMessageLeaves
CHECK_DEADLOCK FALSE

CONSTANTS
    None = None
    c1 = c1
    c2 = c2
    Consumers = {c1, c2}
    Envelope <- RedeliveryEnvelope
    Messages <- RedeliveryMessages
    Malformed = {}
    Breaking = {"bet"}
    LateWallets = {}
    MaxReceives = 3
    MaxBatch = 2
SPECIFICATION Spec
INVARIANTS
    TypeOK
    AcknowledgedLeavesTrace
    DeadLettersAfterPersistence
PROPERTIES
    RowsAreFinal
SYMMETRY Symmetry
CHECK_DEADLOCK FALSE

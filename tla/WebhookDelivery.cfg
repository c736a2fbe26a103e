\* Two deliveries and two handlers, over both stores, with two faults.
CONSTANTS
    Delivery = {"first", "second"}
    EventMaps <- MCEventMaps
    Handler = {h1, h2}
    Lease = 2
    Completed = 3
    MaximumRecords = 1
    MaxFaults = 2
    None = None
SPECIFICATION FairSpec
INVARIANTS
    AcknowledgedIsProcessed
PROPERTIES
    ImplementsLease
    DeliveriesAreProcessed

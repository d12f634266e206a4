CONSTANTS
    Changes = {c1, c2}
    Targets = {t1}
    Workers = {w1, w2}
    DeliveryBatch = 2
    MaxAttempts = 2
    InitialBackoff = 1
    MaxBackoff = 1
    MaxTime = 2
    MaxRestarts = 1
    MaxWriteErrors = 1
    MaxReadErrors = 1
    Reconfigures = TRUE
    Never = Never
SPECIFICATION HookFairSpec
INVARIANTS QueueIsSound
PROPERTIES DeliveriesAreDue DueIsAttempted
CHECK_DEADLOCK FALSE

CONSTANTS
    s1 = s1  s2 = s2  w1 = w1  w2 = w2
    Txs <- MCTxs
    Deploy = 1
    Senders = {s1, s2}
    Workers = {w1}
    BatchSize = 1
    Checked = TRUE
    Faults = TRUE
SPECIFICATION FairSpec
CHECK_DEADLOCK FALSE
INVARIANTS TypeOK OutboxExclusive RefundSound StatusBacked
PROPERTIES  ImplementsDelivery OutcomesHandled

CONSTANTS
    c1 = c1  c2 = c2  t1 = t1  v1 = v1  k1 = k1
    Nobody = Nobody
    Creators = {c1, c2}
    Transmitters = {t1}
    Verifiers = {v1}
    Checkers = {k1}
    ParseSize = 1
    MaxTxs = 2
    EmptyBlocks = 0
    MaxDrops = 2
    NodeErrors = TRUE
    Faults = TRUE
SPECIFICATION FairSpec
INVARIANTS NonceOrder NoSkip ParsedSound
PROPERTIES Delivered

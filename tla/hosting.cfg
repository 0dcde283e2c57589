CONSTANTS
    d1 = d1  d2 = d2  d3 = d3  w1 = w1  w2 = w2  r1 = r1  r2 = r2
    index = index  page = page
    Deployments = {d1, d2, d3}
    Staged = {d1}
    Workers = {w1, w2}
    Reviewers = {r1, r2}
    Paths = {index, page}
    Index = index
    Sessions = {1, 2}
    Uploaded <- MCUploaded
    MaxRetries = 1
    Limits <- MCLimits
SPECIFICATION FairSpec
CHECK_DEADLOCK FALSE
INVARIANTS BucketsConsistent ReviewedFirst OutcomeSound
PROPERTIES DeploymentsSettle

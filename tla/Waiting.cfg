SPECIFICATION WaitingSpec
CONSTANTS
    Syncers = {s1, s2}
    CatalogReaders = {r1}
    MaxGeneration = 3
    MaxCrashes = 1
    NoGen = NoGen
    a = a
    b = b
    c = c
    v1 = v1
    v2 = v2
    Names = {a, b, c}
    Versions = {v1, v2}
    Document <- MCDocument
    Batch = 1
    DeleteBatch = 1
    Readers = {q1, q2}
    Revalidators = {q3}
    Gates = {g1, g2, g3, g4}
INVARIANTS CatalogIsSound OneFetch NoGateLeaks
PROPERTIES FetchesAreDue NobodyWaitsForever


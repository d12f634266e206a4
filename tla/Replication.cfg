SPECIFICATION Spec
CONSTANTS
    Files = {f1, f2}
    Overrides = {o1}
    Artifacts = {a1}
    Provenances = {}
    Followers = {w1}
    PageLimit = 2
    MaxSerial = 4
    MaxFaults = 1
    MaxRestores = 1
    Purging = TRUE
    Hidden = Hidden
    Absent = Absent
    Untouched = Untouched
INVARIANTS TypeOK SnapshotAtSerial BlobsBeforeMetadata HealthSound PromotableJournal
PROPERTIES AppliesForward
SYMMETRY Symmetry

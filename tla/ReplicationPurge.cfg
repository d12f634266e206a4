SPECIFICATION Spec
CONSTANTS
    Files = {f1, f2}
    Overrides = {o1}
    Artifacts = {a1}
    Provenances = {p1, p2}
    Followers = {w1}
    PageLimit = 2
    MaxSerial = 3
    MaxFaults = 1
    MaxRestores = 0
    Purging = TRUE
    Hidden = Hidden
    Absent = Absent
    Untouched = Untouched
SYMMETRY Symmetry
INVARIANTS
    JournalBlobsKept

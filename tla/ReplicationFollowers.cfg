SPECIFICATION FairSpec
CONSTANTS
    Files = {f1, f2}
    Overrides = {}
    Artifacts = {a1}
    Provenances = {p1}
    Followers = {w1, w2}
    PageLimit = 2
    MaxSerial = 3
    MaxFaults = 1
    MaxRestores = 0
    Purging = FALSE
    Hidden = Hidden
    Absent = Absent
    Untouched = Untouched
PROPERTIES CatchesUp

SPECIFICATION RegistrySpec
CONSTANTS
    c1 = c1  c2 = c2  p1 = p1  p2 = p2  b1 = b1  img = img  idx = idx  t1 = t1
    None = None
    Clients = {c1, c2}  Places = {p1, p2}  Blobs = {b1}  Manifests = {img, idx}  Tags = {t1}
    Layers <- LayersOf  Platforms <- PlatformsOf  Subject <- SubjectOf
    Faults = TRUE  MaxTorn = 1
INVARIANTS ImagesAreWhole
SYMMETRY Symmetries

\* Three sessions on one resource.
CONSTANTS
    s1 = s1  s2 = s2  s3 = s3  r1 = r1  r2 = r2
    Sessions = {s1, s2, s3}
    Resources = {r1}
    Modes = {"X"}
    MaxKey = 2
    Hash <- HashOne
    MaxTry = 2
    OwnersOf <- OwnersSession
    Timeouts = {"nowait"}
    Terminable = {}
    MaxHold = 1
    MaxRefs = 2
SPECIFICATION Spec
SYMMETRY SessionSymmetry
INVARIANT MutualExclusion

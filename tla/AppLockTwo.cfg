\* Two sessions, which may be terminated while they wait, and two resources
\* without a common candidate key.
CONSTANTS
    s1 = s1  s2 = s2  s3 = s3  r1 = r1  r2 = r2
    Sessions = {s1, s2}
    Resources = {r1, r2}
    Modes = {"S", "U", "X"}
    MaxKey = 3
    Hash <- HashApart
    MaxTry = 2
    OwnersOf <- OwnersApart
    Timeouts = {"nowait", "forever"}
    Terminable = {s1, s2}
    MaxHold = 1
    MaxRefs = 2
SPECIFICATION Spec
SYMMETRY SessionSymmetry
INVARIANTS LocksSound UniqueKey RefcountCovers
PROPERTY OwnLockReleasable

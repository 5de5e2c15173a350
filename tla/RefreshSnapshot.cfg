SPECIFICATION Spec
CONSTANTS
    f1 = f1  f2 = f2  t1 = t1  t2 = t2  t3 = t3  u1 = u1
    r1 = r1  r2 = r2  r3 = r3  r4 = r4
    Tokens = {t1, t2, t3, u1}
    Families = {f1, f2}
    FamilyOf <- MCFamilyOf
    Reqs = {r1, r2, r3, r4}
    NoToken = NoToken
SYMMETRY Symmetry
INVARIANTS
    NoSurvivor
CHECK_DEADLOCK FALSE

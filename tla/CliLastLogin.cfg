SPECIFICATION Spec
CONSTANTS
    p1 = p1  p2 = p2  g1 = g1  g2 = g2  g3 = g3
    fa = fa  fb = fb  a1 = a1  a2 = a2  a3 = a3  b1 = b1
    Procs = {p1, p2}
    Threads = {g1, g2, g3}
    ProcOf <- MCProcOf
    Tokens = {a1, a2, a3, b1}
    Families = {fa, fb}
    FamilyOf <- MCFamilyOf
    NoToken = NoToken
    NoThread = NoThread
    NoFamily = NoFamily
INVARIANTS
    FileOfLastLogin
CHECK_DEADLOCK FALSE

CONSTANTS
    Callers = {c1, c2, c3}
    Keys = {k1, k2}
    MaxSize = 1
    MaxValues = 3
    MaxCloses = 1
    None = None
SPECIFICATION Spec
SYMMETRY Symmetry
INVARIANT VanishedOnlyAfterClose

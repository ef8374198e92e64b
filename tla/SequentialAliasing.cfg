SPECIFICATION Spec
CONSTANTS
    NumBackends = 3
    k1 = k1
    k2 = k2
    k3 = k3
    Keys = {k1, k2, k3}
    Body = Body
    NoopBackends <- MCNoop
    Blank = {}
    Replacements <- MCReplacements
INVARIANTS
    ParamsAreTheNamedBackends

SPECIFICATION Spec
CONSTANTS
    Threads = {t1, t2}
    Sides <- BothSides
INVARIANT NegativeMeansWriter

CONSTANTS
    Terms = {t1}
    None = None
SPECIFICATION Spec
INVARIANTS PointersAlive

CONSTANTS
    Terms = {t1, t2}
    None = None
SPECIFICATION Spec
INVARIANTS NoWaitCycle

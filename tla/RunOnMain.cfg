CONSTANTS
    Terms = {t1, t2}
    None = None
SPECIFICATION FairSpec
INVARIANTS OnlyRepliesEntangle
PROPERTIES BounceReturns
CHECK_DEADLOCK FALSE

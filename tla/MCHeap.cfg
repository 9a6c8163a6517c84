CONSTANTS
    t1 = t1
    t2 = t2
    NoThread = NoThread
    h1 = h1
    h2 = h2
    NoBlock = NoBlock
    Busy = Busy
    Thread = {t1, t2}
    Handle = {h1, h2}
    Lengths = {1, 4}
    Aligned = {2}
    Alignments = {2, 4}
    HeapBase = 2
    HeapSize = 18
    MaxShift = 3
    DelayBound = 1
SPECIFICATION Spec
SYMMETRY Symmetry
INVARIANTS HeapTiled ContentsKept EveryChunkHeld
CHECK_DEADLOCK FALSE

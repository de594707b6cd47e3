SPECIFICATION Spec
CONSTANTS
    BLOCK_SIZE = 4
    Sizes = {0, 1, 4, 6, 9}
    MaxCalls = 4
    MaxOffset = 4
    Zero = Zero
INVARIANT TypeOK
INVARIANT SizeCovers
INVARIANT GapBelowBlock
INVARIANT FirstBlockReadsBack
CHECK_DEADLOCK FALSE

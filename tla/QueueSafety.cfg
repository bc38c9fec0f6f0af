SPECIFICATION BlockingSpec
CONSTANTS
    MAX_BLOCK_SIZE = 2
    Sizes = {1, 3, 4}
    MaxBlocks = 3
    MaxItems = 4
    MaxPending = 1
INVARIANTS AnswersHonest AssertsHold NothingLeaks CountExact
PROPERTIES ElementsInOrder WaitReturns
CHECK_DEADLOCK FALSE

SPECIFICATION FairSpec
CONSTANT BufLen = 3
CONSTANT TxDepth = 1
CONSTANT RxDepth = 2
CONSTANT Low = 0
CONSTANT Numbers = 3
CONSTANT MaxCount = 2
CONSTANT Uses <- MCUses
CONSTANT Unread = 1
CONSTANT DefaultTimeout = 2
CONSTANT INT_MAX = 4
CONSTANT Timeouts <- MCTimeouts
INVARIANT TypeOK
INVARIANT Armed
PROPERTY RefinesPipes
PROPERTY CallsReturn

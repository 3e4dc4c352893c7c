SPECIFICATION UartSpec
CONSTANT Chars = {c1, c2}
CONSTANT None = none
CONSTANT Divisor = 2
CONSTANT RxChars <- MCRxChars
CONSTANT RxDivisor = 9
CONSTANT Jitter = 1
INVARIANT TypeOK
INVARIANT NeverOverrun
PROPERTY RefinesQueue
PROPERTY BitsAreWhole
INVARIANT FramesAreReceived
INVARIANT StatusTellsAll

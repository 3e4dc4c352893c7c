SPECIFICATION FirstSpec
CONSTANT KeyValues <- MCKeyValues
CONSTANT Zero = zero
CONSTANT None = none
CONSTANT Operands = {zero, a, b, c}
CONSTANT Values = 64
CONSTANT CyclesPerUs = 50
CONSTANT CyclesPerLoop = 9
CONSTANT Requests <- MCRequests
CONSTANT MaxLoops = 1000
CONSTANT Texts <- MCTexts
CONSTANT Space = " "
CONSTANT Cells = 5
CONSTANT MaxResets = 2
INVARIANT TypeOK
INVARIANT ScreenFollowsCount
PROPERTY AnswerUntilBack
PROPERTY LitOnceAnswered
PROPERTY HeldButtonsWork
INVARIANT CiTypeOK
INVARIANT OperandsStillThere
PROPERTY RefinesBus
PROPERTY NeverStuck
INVARIANT SleepsAsCalibrated
PROPERTY SleepEnds
INVARIANT ShownOnReturn
INVARIANT OneTextAtATime
INVARIANT OnlySetsAreLost
PROPERTY AskedIsShown

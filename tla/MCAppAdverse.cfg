SPECIFICATION Spec
CONSTANT KeyValues <- MCFewKeys
CONSTANT Reliable = FALSE
CONSTANT Prompt = FALSE
CONSTANT MaxLen = 2
CONSTANT MaxDrops = 1
CONSTANT ConsoleSize = 1
CONSTANT MaxResets = 1
CONSTRAINT OneMishap
INVARIANT LateAtMostOne
PROPERTY MenuSteps
CONSTANT ResetAnywhere = TRUE

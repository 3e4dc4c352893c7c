SPECIFICATION Spec
CONSTANT KeyValues <- MCFewKeys
CONSTANT Reliable = TRUE
CONSTANT Prompt = TRUE
CONSTANT MaxLen = 2
CONSTANT MaxDrops = 1
CONSTANT ConsoleSize = 2
CONSTANT MaxResets = 0
INVARIANT MessageSentIsTrue
CONSTANT ResetAnywhere = FALSE

SPECIFICATION Spec
CONSTANT KeyValues <- MCKeyValues
CONSTANT Reliable = TRUE
CONSTANT Prompt = TRUE
CONSTANT MaxLen = 39
CONSTANT MaxDrops = 0
CONSTANT ConsoleSize = 2
CONSTANT MaxResets = 1
INVARIANT DialogueInStep
INVARIANT OkIsFresh
INVARIANT MessageSentIsTrue
INVARIANT MenuIsOffline
PROPERTY RefinesMenu
PROPERTY RunsEnd
CONSTANT ResetAnywhere = FALSE

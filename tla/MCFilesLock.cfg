SPECIFICATION Spec
CONSTANT Tasks = {main, t2}
CONSTANT Main = main
CONSTANT NoTask = noTask
CONSTANT ALT_MAX_FD = 5
CONSTANT Devices <- MCDevices
CONSTANT FileSystems <- MCFileSystems
CONSTANT Null <- MCNull
CONSTANT None = none
CONSTANT Names <- MCNames
CONSTANT Streams <- MCStreams
CONSTANT Tuned = {3}
INVARIANT LockIsExclusive

CONSTANTS
    Callers = {main, worker}
    Main = main
    Programs <- Closer
    Stdins = {2}
    NoStdin = NoStdin
    MaxOutput = 1
    PipeCap = 1
    MaxWrites = 0
    PollMayFail = FALSE
SPECIFICATION Spec
PROPERTIES
    SigpipeIgnoredWhileFeeding

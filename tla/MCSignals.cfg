CONSTANTS
    SignalTable <- TwoSignals
    Callbacks = {f}
    Coroutines = {main, co}
    Main = main
    MaxDepth = 2
SPECIFICATION FairSpec
PROPERTIES
    OnlyHandledSignalsCallBack
    ServedOnce
    DeliveredIsDispatched

SPECIFICATION Spec
PROPERTIES
    ListenersServe
    BackgroundWorkDone

SPECIFICATION EventsSpec
CONSTANT MaxListeners = 1
INVARIANT ListenersFit
INVARIANT NullOnlyBehindTheProgram
CHECK_DEADLOCK FALSE

SPECIFICATION Spec
INVARIANTS
    BuffersOwned
    RepliesAccounted
    SetAddsAccounted
    EventsCountedOnce
    HistoryListedOnce
    HotStateCurrent

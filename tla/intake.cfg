SPECIFICATION FairSpec
CONSTANTS
    MaxSerial = 3
    FeedWindow = 2
    RecentCapacity = 2
    ChannelCapacity = 1
    MaxCrashes = 1
INVARIANTS LoggedFirst CursorSkipsNothing DedupeWindow
PROPERTY JournalDelivers

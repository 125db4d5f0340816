SPECIFICATION FairSpec
CONSTANTS
    MaxSerial = 2
    FeedWindow = 2
    RecentCapacity = 2
    ChannelCapacity = 1
    MaxCrashes = 1
PROPERTY LoggedIsCaptured

SPECIFICATION HotKeySpec
CONSTANTS
    a = a
    b = b
    c = c
    Keys = {a, b, c}
    HotKey = a
    MaxEntries = 2
    CompactFactor = 4
    CompactSlack = 16
    MaxGeneration = 32
PROPERTY RecentEntryKept
\* The model stops when its generations are used up.
CHECK_DEADLOCK FALSE

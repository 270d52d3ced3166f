SPECIFICATION FeedSpec
CONSTANTS
    Rest = 2
    Sanity = 4
    Blocked = 2
    MaxShift = 2
PROPERTY RestWithoutSocket

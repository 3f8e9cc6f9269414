SPECIFICATION LibrarySpec
CONSTANTS
    ByteBits = 4
    ByteValues = 4
    BitmapLen = 2
    Top = 5
    MaxCount = 4
INVARIANT ScanStaysInside
CHECK_DEADLOCK FALSE

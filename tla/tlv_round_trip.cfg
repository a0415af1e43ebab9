SPECIFICATION WireSpec
CONSTANTS
  MaxRequests = 3
  MAX_BLOCK_LENGTH = 4
  LENGTH_LENGTH = 2
  TAG_LENGTH = 3
  Lengths = {1, 2, 3, 4, 5, 8, 9, 10}
  MaxMessages = 3
  Tags = {"a", "b"}
  MaxFragment = 3
  ValueLengths = {0, 1, 2, 3, 4, 5, 6, 7, 8, 9}
  MaxItems = 3
  TextLengths = {0, 1, 16, 254, 255, 256, 510, 600}
  MaxListed = 3
  Byte = 4
  InlineInt = 2
  InlineLength = 2
  InlineItems = 2
  MaxHeader = 40
  Sizes = {0, 1, 2, 3, 7, 8, 9, 127, 128, 129, 300}
  DataLengths = {0, 2, 3, 4, 15, 16}
  OtherLengths = {3}
  MaxValues = 3
  MaxDepth = 2
CHECK_DEADLOCK FALSE
INVARIANT RoundTrip

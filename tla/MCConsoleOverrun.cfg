CONSTANTS
  Byte = {1, 2}
  NoByte = 255
  Size = 3
  BurstCount = 1
  ThrottleMS = 2
  MaxKeys = 4
SPECIFICATION Spec
PROPERTY WritesStayInArray

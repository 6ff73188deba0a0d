CONSTANTS
  Byte = {1, 2}
  NoByte = 255
  Size = 3
  BurstCount = 1
  ThrottleMS = 2
  MaxKeys = 2
SPECIFICATION RateSpec
INVARIANTS TypeOK IndexOK RateBound
PROPERTIES ImplementsFifo WaitingByteIsRead

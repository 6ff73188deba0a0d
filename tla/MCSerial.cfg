CONSTANTS
  Byte = {1, 2}
  NoByte = 255
  Size = 2
  BurstCount = 1
  ThrottleMS = 1
  MaxKeys = 1
  SerSize = 2
  ClockDepth = 2
SPECIFICATION SerFairSpec
INVARIANTS SerTypeOK DataStillThere NestingBounded
PROPERTIES DriverIsFifo EverythingIsRead

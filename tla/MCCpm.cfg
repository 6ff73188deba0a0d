SPECIFICATION Spec
CONSTANTS
  HardDiscs <- MCHard
  Floppies <- MCOne
  Openable <- MCOpen
  HardSectors = 3
  sectorxlat <- MCSkew
  StrayBytes <- MCStray
  HeaderAt = 1
  SectorSize = 2
  Written = {1}
  DmaAddr <- MCDma
  DefaultDma = 128
  HostFails = TRUE
  Addresses <- MCAddr
  IntRange = 16
  WordRange = 256
  UnixNames <- MCNames
  UnixFiles <- MCUnix
  Selected <- MCSelect
  Tracks <- MCTracks
  Logicals <- MCLogical
  RawSectors = {0}
  Records <- MCRecords
  MadeTracks = 2
  Made <- MCMade
  HardFiles <- MCHardF
  MaxPlace = 5
  MaxPrograms = 2
  CopyWeight = 2
  MaxBreaks = 1
CHECK_DEADLOCK FALSE
INVARIANTS CpmTypeOK LengthAgrees WildOnlyAfterBreak
PROPERTIES ImplementsDisc MadeDiscReads  ServedUnlessBroken

SPECIFICATION LineSpec
CONSTANTS
  HomeFiles <- MCHomeFiles
  ReadOnly <- MCReadOnly
  Phrase <- MCPhrase
  ASBLen = 5
  LBsz = 4
  CmdSize = 6
  RemoteSays <- MCRemoteSays
  ConsoleSays <- MCConsoleSays
  RemoteEnds <- MCRemoteEnds
  Turns = 5
INVARIANTS
  FilterTypeOK
  WholeOrNothing
  LineShown
PROPERTIES
  AutostartExact
  SavedListing
CHECK_DEADLOCK FALSE

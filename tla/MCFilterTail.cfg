SPECIFICATION LineSpec
CONSTANTS
  HomeFiles <- MCHomeFiles
  ReadOnly <- MCReadOnly
  Phrase <- MCPhrase
  ASBLen = 5
  LBsz = 4
  CmdSize = 6
  RemoteSays <- MCRemoteSays
  ConsoleSays <- MCConsoleSays
  RemoteEnds <- MCRemoteEnds
  Turns = 2
CHECK_DEADLOCK FALSE
INVARIANT CommandAsTyped

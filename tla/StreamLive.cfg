\* One connection: commands, ticks, a full channel, clients that hang or leave, frames that
\* are malformed.
SPECIFICATION BoundedSpec
CONSTANTS
  btc = btc
  Symbol = {btc}
  Stream <- FewStreams
  Params <- FewParams
  MaxCommands = 3
  MaxSequence = 2
  Capacity = 1
PROPERTIES
  UnsubscribedIsSilent
  GoneClientsLeave
  CloseIsHeeded
  CatchesUp

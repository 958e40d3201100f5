CONSTANTS
  MaxPolls = 2
  MaxWaits = 2
  Packets = {0, 2}
  PacketSize = 2
  Sizes = {0, 1, 3}
  MaxHeaderWait = 2
  MaxPacketWait = 2
  MaxUnits = 7

SPECIFICATION TransferSpec
INVARIANTS
  ZeroMeansSent
  BusyOnlyInCall
  PinTellsHost
  
  UartZeroMeansSent
  
PROPERTY EveryCallReturns

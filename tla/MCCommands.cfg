CONSTANTS
  Commands <- BusCommands
  I2cCommands <- BusI2cCommands

SPECIFICATION CommandsSpec
INVARIANTS
  CommandIntact
  SlaveHears
  FreshAnswer
  I2cHears
PROPERTIES
  Recovers
  
  GetIsAnswered

CONSTANTS
  Commands <- BusCommands
  I2cCommands <- BusI2cCommands

SPECIFICATION CommandsSpec
INVARIANT RtosHears

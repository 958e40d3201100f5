----------------------------- MODULE MCTransfer -----------------------------
(***************************************************************************)
(* The transfer protocols for TLC.  A build has one link to its host,      *)
(* chosen by the preprocessor (UART_PROTOCOL, SPI_MASTER_SEND); the run    *)
(* checks each.                                                            *)
(***************************************************************************)
EXTENDS SpiWrite, UartSend, SlaveRead

VARIABLE link       \* "write": SPI, sending; "read": SPI slave, receiving; "uart"

allVars == <<writeVars, uartVars, slaveVars, link>>

TransferInit ==
  /\ WriteInit /\ UartInit /\ SlaveInit
  /\ link \in {"write", "read", "uart"}

TransferNext ==
  \/ link = "write" /\ WriteNext /\ UNCHANGED <<uartVars, slaveVars, link>>
  \/ link = "uart" /\ UartNext /\ UNCHANGED <<writeVars, slaveVars, link>>
  \/ link = "read" /\ SlaveNext /\ UNCHANGED <<writeVars, uartVars, link>>

MainThread ==
  \/ link = "write" /\ WriterStep /\ UNCHANGED <<uartVars, slaveVars, link>>
  \/ link = "uart" /\ SendStep /\ UNCHANGED <<writeVars, slaveVars, link>>

\* The main thread goes on; the drivers and the host promise nothing.
TransferSpec == TransferInit /\ [][TransferNext]_allVars /\ WF_allVars(MainThread)

\* Every write, master read and UART send returns, whatever the driver does:
\* the polls of each wait are counted (spi_master_protocol.c:206, 329,
\* spi_slave_protocol.c:307, uart_protocol.c:73, 111).
EveryCallReturns ==
  /\ wr.pc # "idle" \/ rd.pc # "idle" ~> WriterIdle
  /\ us.pc # "idle" ~> us.pc = "idle"

=============================================================================

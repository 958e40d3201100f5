------------------------------ MODULE MCCommands ------------------------------
(***************************************************************************)
(* The commands of the host for TLC.  A build has one link, chosen by the  *)
(* preprocessor; the side of the others stays as it began.                 *)
(***************************************************************************)
EXTENDS SpiCommands, I2cComm

hostVars == <<peripheralVars, spiVars, i2cVars>>

CommandsInit == PeripheralInit /\ build \in Builds /\ SpiStart /\ I2cStart

Spi == build \in {"spi", "uart"}

CommandsNext ==
  \/ Spi /\ SpiNext /\ UNCHANGED i2cVars
  \/ ~Spi /\ I2cNext /\ UNCHANGED spiVars

\* What the host has begun arrives; the event loop dispatches what is raised and
\* the callbacks go on, or the scheduler runs the task.  The host promises no
\* further command and no read.
CommandsSpec ==
  /\ CommandsInit
  /\ [][CommandsNext]_hostVars
  /\ WF_hostVars(Spi /\ Arrives /\ UNCHANGED i2cVars)
  /\ WF_hostVars(Spi /\ Dispatch /\ UNCHANGED i2cVars)
  /\ WF_hostVars(Spi /\ CommandStep /\ UNCHANGED i2cVars)
  /\ WF_hostVars(~Spi /\ HandlerStep /\ UNCHANGED spiVars)

\* Commands that were mixed up leave no trace in the link: once the host pauses,
\* the buffer is clean, a read is armed and the next command is taken as it is
\* (evt_spiscomm.c:79-81).
Recovers == <>[](sending = Silent) => <>[](~disturbed /\ rx_buf = AllWiped)

\* A command that asks, and that the device has heard, is answered for the host
\* to read, unless the host writes on (evt_i2ccomm.c:430, 496, 510).
GetIsAnswered ==
  /\ event \/ task = "process"
  /\ gRead_buf = asked
  /\ asked.checksum
  /\ asked.kind \in Asks
  ~> (offered /\ gWrite_buf.new) \/ answer.new \/ hasty

-----------------------------------------------------------------------------
BusCommands ==
  {[type |-> "basic", what |-> "none", val |-> 1],
   [type |-> "set", what |-> "language", val |-> 1],
   [type |-> "get", what |-> "language", val |-> 0],
   [type |-> "other", what |-> "none", val |-> 0],
   [type |-> "noise", what |-> "none", val |-> 0]}

Is(k, m, ok) == [kind |-> k, mask |-> m, checksum |-> ok]

BusI2cCommands ==
  {Is(k, {}, TRUE) : k \in {"aux_get", "chip_id", "set", "upgrade"}}
  \cup {Is("customer", {}, FALSE), Is("ver_bsp", {}, FALSE)}
  \cup {Is("spi", m, TRUE) : m \in {{}, {"all_on"}, {"all_on", "jpg", "pdm"},
                                    {"jpg", "disable_algo"}}}

=============================================================================

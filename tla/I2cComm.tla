------------------------------- MODULE I2cComm -------------------------------
(***************************************************************************)
(* The I2C slave of the application (evt_i2ccomm/evt_i2ccomm.c): the host  *)
(* writes commands and reads the answers, and the device does both from    *)
(* one buffer each.  A command is taken when a read is enabled; its        *)
(* handler fills gWrite_buf, offers it to the host and, at its end,        *)
(* enables the next read.  Nothing tells the host that a command was       *)
(* dropped, nor the device that an answer was read.                        *)
(*                                                                         *)
(* The handler runs as the callback of EVT_INDEX_I2CS_RX, or as a FreeRTOS *)
(* task that suspends itself between two commands.  The library below is   *)
(* binary: a command arrives as a whole, an answer is offered until it has *)
(* been read to its end, and a read without an offer gives nothing.        *)
(***************************************************************************)
EXTENDS PeripheralCmd

CONSTANT I2cCommands       \* what the host may write

\* The commands that are answered; the OTP may keep the last two from it.
Asks == {"ver_bsp", "ver_i2c", "ahb_get", "aux_get", "gpio_get", "sensor_get",
         "ota_result"}
AsksOtp == {"chip_id", "algo_id"}

\* "set": the commands that write a register, a pin, a multiplexer or a clock
\* gate, and those that are not known.
Kinds == Asks \cup AsksOtp \cup {"set", "spi", "customer", "upgrade"}

\* Bits of the feature SPI.
Bits == {"jpg", "meta", "voice", "pdm", "rawimg", "all_on", "disable_algo"}

I2cCommand == [kind : Kinds, mask : SUBSET Bits, checksum : BOOLEAN]

ASSUME I2cCommandsAssumption == I2cCommands \subseteq I2cCommand

VARIABLES
  asked,      \* the last command the host wrote
  gRead_buf,  \* the command received last
  enabled,    \* a read is enabled
  gWrite_buf, \* the answer: for which command, what its command byte says, and
              \* whether it was made for the last command the host wrote
  offered,    \* the host may read gWrite_buf
  event,      \* EVT_INDEX_I2CS_RX
  task,       \* the handler
  customer,   \* i2ccomm_cmd_customer_register_cb has been called
  reading,    \* the host reads, and whether gWrite_buf has changed meanwhile
  answer,     \* what the host has read since it asked
  hasty       \* the host wrote that command while an answer was on its way

i2cVars == <<asked, gRead_buf, enabled, gWrite_buf, offered, event, task,
             customer, reading, answer, hasty>>
linkVars == <<peripheralVars, i2cVars>>

Unasked == [kind |-> "none", mask |-> {}, checksum |-> FALSE]

\* NoAnswer also stands for a buffer that is being filled: its checksum does
\* not fit.
NoAnswer == [for |-> "none", says |-> "none", new |-> FALSE]
Answers  == [for : Kinds \cup {"none"}, says : Kinds \cup {"none"}, new : BOOLEAN]

I2cTypeOK ==
  /\ build \in Builds
  /\ parts \in [Parts -> BOOLEAN]
  /\ asked \in I2cCommand \cup {Unasked}
  /\ gRead_buf \in I2cCommand \cup {Unasked}
  /\ enabled \in BOOLEAN
  /\ gWrite_buf \in Answers
  /\ offered \in BOOLEAN
  /\ event \in BOOLEAN
  /\ task \in {"loop", "idle", "process", "fill", "offer", "clear", "enable",
               "crashed", "gone"}
  /\ customer \in BOOLEAN
  /\ reading \in {"no", "yes", "torn"}
  /\ answer \in Answers
  /\ hasty \in BOOLEAN

\* evt_i2ccomm_init, i2ccomm_task_init.  The task begins with a suspension.
I2cStart ==
  /\ asked = Unasked
  /\ gRead_buf = Unasked
  /\ enabled = TRUE
  /\ gWrite_buf = NoAnswer
  /\ offered = FALSE
  /\ event = FALSE
  /\ task = IF build = "i2c_rtos" THEN "loop" ELSE "idle"
  /\ customer \in BOOLEAN
  /\ reading = "no"
  /\ answer = NoAnswer
  /\ hasty = FALSE

I2cInit == PeripheralInit /\ build \in {"i2c", "i2c_rtos"} /\ I2cStart

-----------------------------------------------------------------------------
(* The host.                                                               *)

Answered(c) == c.checksum /\ c.kind \in Asks \cup AsksOtp

\* An answer is on its way: offered, or to be made.
Owed ==
  \/ offered
  \/ event /\ Answered(gRead_buf)
  \/ task \in {"process", "fill", "offer"} /\ Answered(gRead_buf)

Outdated(a) == [a EXCEPT !.new = FALSE]

\* The interrupt of a command that was taken: the event, or the task is resumed
\* if it is suspended.
Interrupt ==
  IF build = "i2c_rtos"
  THEN /\ task' = IF task = "idle" THEN "process" ELSE task
       /\ UNCHANGED event
  ELSE /\ event' = TRUE
       /\ UNCHANGED task

\* The host writes a command.  Without a read enabled it is dropped.
HostWrites(c) ==
  /\ reading = "no"
  /\ asked' = c
  /\ answer' = NoAnswer
  /\ gWrite_buf' = Outdated(gWrite_buf)
  /\ hasty' = Owed
  /\ IF enabled
     THEN /\ gRead_buf' = c
          /\ enabled' = FALSE
          /\ Interrupt
     ELSE UNCHANGED <<gRead_buf, enabled, event, task>>
  /\ UNCHANGED <<peripheralVars, offered, customer, reading>>

HostReads ==
  /\ reading = "no"
  /\ offered
  /\ reading' = "yes"
  /\ UNCHANGED <<peripheralVars, asked, gRead_buf, enabled, gWrite_buf, offered,
                 event, task, customer, answer, hasty>>

\* i2ccomm_callback_fun_tx.  The host takes what bears a good checksum.
HostHasRead ==
  /\ reading # "no"
  /\ answer' = IF reading = "torn" THEN NoAnswer ELSE gWrite_buf
  /\ reading' = "no"
  /\ offered' = FALSE
  /\ UNCHANGED <<peripheralVars, asked, gRead_buf, enabled, gWrite_buf, event,
                 task, customer, hasty>>

HostStopsReading ==
  /\ reading # "no"
  /\ reading' = "no"
  /\ UNCHANGED <<peripheralVars, asked, gRead_buf, enabled, gWrite_buf, offered,
                 event, task, customer, answer, hasty>>

-----------------------------------------------------------------------------
(* evt_i2ccomm_rx_cb, i2ccomm_task.                                        *)

Dispatched ==
  /\ task = "idle"
  /\ event
  /\ event' = FALSE
  /\ task' = "process"
  /\ UNCHANGED <<peripheralVars, asked, gRead_buf, enabled, gWrite_buf, offered,
                 customer, reading, answer, hasty>>

\* vTaskSuspend at the head of the loop.
Suspend ==
  /\ task = "loop"
  /\ task' = "idle"
  /\ UNCHANGED <<peripheralVars, asked, gRead_buf, enabled, gWrite_buf, offered,
                 event, customer, reading, answer, hasty>>

Goes(next) ==
  /\ task = "process"
  /\ task' = next
  /\ UNCHANGED <<build, cfg, asked, gRead_buf, enabled, gWrite_buf, offered,
                 event, customer, reading, answer, hasty>>

\* Every handler but the customer's begins with the checksum.
ChecksumFails == ~gRead_buf.checksum /\ gRead_buf.kind # "customer"

\* FAULT: the error path returns from the callback.
BadChecksumReturns ==
  /\ ChecksumFails
  /\ Goes("idle")
  /\ UNCHANGED parts

BadChecksum ==
  /\ ChecksumFails
  /\ Goes("clear")
  /\ UNCHANGED parts

ProcessSet ==
  /\ gRead_buf.checksum
  /\ gRead_buf.kind = "set"
  /\ Goes("clear")
  /\ UNCHANGED parts

\* FAULT: the answer is offered before it is there.
ProcessGetOffers ==
  /\ task = "process"
  /\ Answered(gRead_buf)
  /\ task' = "fill"
  /\ offered' = TRUE
  /\ UNCHANGED <<peripheralVars, asked, gRead_buf, enabled, gWrite_buf, event,
                 customer, reading, answer, hasty>>

ProcessGet ==
  /\ Answered(gRead_buf)
  /\ Goes("fill")
  /\ UNCHANGED parts

\* read_otp_init fails.
OtpFails ==
  /\ gRead_buf.checksum
  /\ gRead_buf.kind \in AsksOtp
  /\ Goes("clear")
  /\ UNCHANGED parts

\* i2ccomm_cmd_process_spi: its calls of read_cmd_handler, one after the other.
\* Its bit decides over each part, whatever ALL_ON or ALL_OFF before it did; the
\* raw image is no part.
PartsAndAlgo(ps, m) ==
  LET started == [p \in Parts |-> IF p = "algo" THEN ps[p] ELSE p \in m]
  IN  Basic(IF m \ {"disable_algo"} # {} THEN started ELSE ps,
            "algo", "disable_algo" \notin m)

SpiParts(ps, m) ==
  IF "all_on" \in m THEN PartsAndAlgo(ps, m)
  ELSE Basic(PartsAndAlgo(ps, m), "all", FALSE)

ProcessSpi ==
  /\ gRead_buf.checksum
  /\ gRead_buf.kind = "spi"
  /\ Goes("clear")
  /\ parts' = SpiParts(parts, gRead_buf.mask)

\* The pointer is called without a look at it.
ProcessCustomer ==
  /\ gRead_buf.kind = "customer"
  /\ Goes(IF customer THEN "clear" ELSE "crashed")
  /\ UNCHANGED parts

\* I2CCOMM_CMD_OTA_JUMP2UPG: the CPU starts the program that upgrades this one,
\* unless that is under way.
JumpToUpgrade ==
  /\ gRead_buf.checksum
  /\ gRead_buf.kind = "upgrade"
  /\ \E next \in {"gone", "clear"} : Goes(next)
  /\ UNCHANGED parts

\* The fields of the answer, its checksum last.
Changed == IF reading = "no" THEN "no" ELSE "torn"

Fill ==
  /\ task = "fill"
  /\ task' = "offer"
  /\ gWrite_buf' = NoAnswer
  /\ reading' = Changed
  /\ UNCHANGED <<peripheralVars, asked, gRead_buf, enabled, offered, event,
                 customer, answer, hasty>>

\* The answer to a read of an auxiliary register bears the command of the other.
Says(k) == IF k = "aux_get" THEN "ahb_get" ELSE k

\* An answer is new if the command it is for is the last the host has written.
\* FAULT: hx_lib_i2ccomm_enable_write is not called.
OfferNot ==
  /\ task = "offer"
  /\ task' = "clear"
  /\ gWrite_buf' = [for |-> gRead_buf.kind, says |-> Says(gRead_buf.kind),
                    new |-> gRead_buf = asked]
  /\ reading' = Changed
  /\ UNCHANGED <<peripheralVars, asked, gRead_buf, enabled, offered, event,
                 customer, answer, hasty>>

Offer ==
  /\ task = "offer"
  /\ task' = "clear"
  /\ gWrite_buf' = [for |-> gRead_buf.kind, says |-> Says(gRead_buf.kind),
                    new |-> gRead_buf = asked]
  /\ reading' = Changed
  /\ offered' = TRUE
  /\ UNCHANGED <<peripheralVars, asked, gRead_buf, enabled, event, customer,
                 answer, hasty>>

\* The memset of the header.
ClearCommand ==
  /\ task = "clear"
  /\ gRead_buf' = Unasked
  /\ task' = "enable"
  /\ UNCHANGED <<peripheralVars, asked, enabled, gWrite_buf, offered, event,
                 customer, reading, answer, hasty>>

\* hx_lib_i2ccomm_enable_read.
EnableRead ==
  /\ task = "enable"
  /\ enabled' = TRUE
  /\ task' = IF build = "i2c_rtos" THEN "loop" ELSE "idle"
  /\ UNCHANGED <<peripheralVars, asked, gRead_buf, gWrite_buf, offered, event,
                 customer, reading, answer, hasty>>

-----------------------------------------------------------------------------
HandlerStep == \/ Dispatched \/ Suspend
               \/ BadChecksum \/ ProcessSet \/ ProcessGet \/ OtpFails
               \/ ProcessSpi \/ ProcessCustomer \/ JumpToUpgrade
               \/ Fill \/ Offer \/ ClearCommand \/ EnableRead

I2cNext == \/ \E c \in I2cCommands : HostWrites(c)
           \/ HostReads \/ HostHasRead \/ HostStopsReading
           \/ HandlerStep

I2cSpec == I2cInit /\ [][I2cNext]_linkVars

-----------------------------------------------------------------------------
(* Properties.                                                             *)

\* A host that writes no command while an answer is on its way reads the answer
\* to its last command, and the answer says so; that of an auxiliary register
\* bears the command of an AHB register (evt_i2ccomm.c:524).  For a hasty host
\* the answer may be one to an earlier command, or change while it is read.
FreshAnswer ==
  answer # NoAnswer /\ ~hasty =>
    /\ answer.new
    /\ answer.for = asked.kind
    /\ asked.kind # "aux_get" => answer.says = asked.kind

\* The event loop's slave is never deaf: whatever a command was, the next is
\* heard (evt_i2ccomm.c:351-354).
I2cHears == build = "i2c" /\ task = "idle" => enabled \/ event

\* "Enable read process at end of cmd process for next i2c write command"
\* (evt_i2ccomm.c:209): a task that is suspended waits for a command that may
\* come.  It does not if the interrupt came before the suspension (146, 169).
RtosHears == build = "i2c_rtos" /\ task = "idle" => enabled

\* What the bits of the feature SPI leave on: a part whose bit is set, if ALL_ON
\* is, so that ALL_ON by itself turns every part off; the algorithm unless it is
\* disabled, whatever else is set (evt_i2ccomm.c:1503).
SpiMaskMeans ==
  [][task = "process" /\ gRead_buf.kind = "spi" /\ gRead_buf.checksum
       => LET m == gRead_buf.mask
          IN  task' = "clear" =>
                \A p \in Parts :
                  parts'[p] = IF p = "algo" THEN "disable_algo" \notin m
                              ELSE {p, "all_on"} \subseteq m]_linkVars

=============================================================================

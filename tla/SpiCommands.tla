----------------------------- MODULE SpiCommands -----------------------------
(***************************************************************************)
(* Commands from the host over SPI (evt_spiscomm/evt_spiscomm.c) and, with *)
(* the same handler, over UART (evt_uartcomm/evt_uartcomm.c).              *)
(*                                                                         *)
(* The driver puts the next seven bytes into the one receive buffer when a *)
(* read is armed; its interrupt raises the receive event, whose callback   *)
(* handles the command in place, clears the buffer and arms the next read. *)
(* Over SPI an answer arms the read too, before the buffer is cleared.     *)
(*                                                                         *)
(* Of the event loop only its promise is used (EventLoop): an event raised *)
(* by an interrupt is dispatched, and one raised during its own callback   *)
(* is dispatched again.  The drivers are binary libraries: bytes arrive in *)
(* the buffer one after the other, a transfer that begins with no read     *)
(* armed is not taken, and a read while one is armed is refused (E_CTX,    *)
(* hx_drv_spi_s.h:518).                                                    *)
(***************************************************************************)
EXTENDS PeripheralCmd

CONSTANT Commands          \* what the host may send

ASSUME CommandsAssumption == Commands \subseteq Command

VARIABLES
  rx_buf,     \* g_spi_s_rx_buf, g_uart_rx_buf: which command its bytes are of
  armed,      \* the driver has a read armed
  sending,    \* the command on the wire that the driver takes
  place,      \* pieces of it that have arrived
  rx_event,   \* EVT_INDEX_SPIS_RX, EVT_INDEX_UART_RX
  pc,         \* the callback
  received,   \* the last command received as a whole and not yet handled
  disturbed   \* bytes have arrived while the callback ran, since the link was
              \* last at rest

spiVars == <<rx_buf, armed, sending, place, rx_event, pc, received, disturbed>>
commandVars == <<peripheralVars, spiVars>>

\* The buffer in pieces: the two bytes of the header, then type, command and
\* subcommand, then the data.
Pieces == 0 .. 3
Wiped  == [type |-> "wiped", what |-> "none", val |-> WORD]      \* all 0xFF
Silent == [type |-> "none", what |-> "none", val |-> 0]          \* no command
AllWiped == [i \in Pieces |-> Wiped]

SpiTypeOK ==
  /\ build \in Builds
  /\ parts \in [Parts -> BOOLEAN]
  /\ cfg \in [Keys -> Nat]
  /\ rx_buf \in [Pieces -> Command \cup {Wiped}]
  /\ armed \in BOOLEAN
  /\ sending \in Command \cup {Silent}
  /\ place \in Pieces
  /\ rx_event \in BOOLEAN
  /\ pc \in {"idle", "read", "answer", "clear", "clear header", "arm"}
  /\ received \in Command \cup {Silent}
  /\ disturbed \in BOOLEAN

\* The first read is armed when the device is opened.
SpiStart ==
  /\ rx_buf = AllWiped
  /\ armed = TRUE
  /\ sending = Silent
  /\ place = 0
  /\ rx_event = FALSE
  /\ pc = "idle"
  /\ received = Silent
  /\ disturbed = FALSE

SpiInit == PeripheralInit /\ SpiStart /\ build \in {"spi", "uart"}

-----------------------------------------------------------------------------
(* The host and the driver.                                                *)

\* The host begins a command.  When no read is armed nothing happens.
HostSends(c) ==
  /\ sending = Silent
  /\ armed
  /\ sending' = c
  /\ UNCHANGED <<peripheralVars, rx_buf, armed, place, rx_event, pc, received,
                 disturbed>>

\* The next piece arrives; with the last one comes spiscomm_callback_fun_rx or
\* uart_rx_callback_fun.
Arrives ==
  /\ sending # Silent
  /\ rx_buf' = [rx_buf EXCEPT ![place] = sending]
  /\ disturbed' = (disturbed \/ pc # "idle")
  /\ IF place < 3
     THEN /\ place' = place + 1
          /\ UNCHANGED <<armed, sending, rx_event, received>>
     ELSE /\ place' = 0
          /\ armed' = FALSE
          /\ sending' = Silent
          /\ rx_event' = TRUE
          /\ received' = sending
  /\ UNCHANGED <<peripheralVars, pc>>

-----------------------------------------------------------------------------
(* evt_spiscomm_rx_cb, evt_uartcomm_rx_cb.                                 *)

Dispatch ==
  /\ pc = "idle"
  /\ rx_event
  /\ rx_event' = FALSE
  /\ pc' = "read"
  /\ UNCHANGED <<peripheralVars, rx_buf, armed, sending, place, received,
                 disturbed>>

\* read_cmd_handler gives up only if both bytes of the header are wrong.
IsHeader(i) == rx_buf[i].type \notin {"wiped", "noise"}
HasHeader == IsHeader(0) \/ IsHeader(1)

Handled(next) ==
  /\ pc' = next
  /\ received' = Silent
  /\ UNCHANGED <<build, rx_buf, armed, sending, place, rx_event, disturbed>>

\* FAULT: nothing is read after a command without a header.
RefusedForGood ==
  /\ pc = "read"
  /\ ~HasHeader
  /\ Handled("idle")
  /\ UNCHANGED <<parts, cfg>>

Refused ==
  /\ pc = "read"
  /\ ~HasHeader
  /\ Handled("clear header")
  /\ UNCHANGED <<parts, cfg>>

\* The type is unknown, or what it stands for changes nothing (TYPE_DBG).
OtherType ==
  /\ pc = "read"
  /\ HasHeader
  /\ rx_buf[2].type \notin {"basic", "set", "get"}
  /\ Handled("clear")
  /\ UNCHANGED <<parts, cfg>>

BasicCommand ==
  /\ pc = "read"
  /\ HasHeader
  /\ rx_buf[2].type = "basic"
  /\ \/ \E what \in DOMAIN StopCode, on \in {0, 1} :
          /\ rx_buf[3].val = StopCode[what] + on
          /\ parts' = Basic(parts, what, on = 1)
     \/ /\ rx_buf[3].val \notin BasicCodes
        /\ UNCHANGED parts
  /\ Handled("clear")
  /\ UNCHANGED cfg

\* set_cfg_sub_cmd takes the data as it finds it.
SetConfig ==
  /\ pc = "read"
  /\ HasHeader
  /\ rx_buf[2].type = "set"
  /\ cfg' = [cfg EXCEPT ![rx_buf[2].what] = rx_buf[3].val]
  /\ Handled("clear")
  /\ UNCHANGED parts

\* get_cfg_sub_cmd calls transmit_func.
GetConfig ==
  /\ pc = "read"
  /\ HasHeader
  /\ rx_buf[2].type = "get"
  /\ Handled("answer")
  /\ UNCHANGED <<parts, cfg>>

\* transmit_func: the pin is up while the answer is written, which may fail;
\* then the SPI read is armed.
\* FAULT: the UART read is armed too.
AnswerWrittenArms ==
  /\ pc = "answer"
  /\ armed' = TRUE
  /\ pc' = "clear"
  /\ UNCHANGED <<peripheralVars, rx_buf, sending, place, rx_event, received,
                 disturbed>>

AnswerWritten ==
  /\ pc = "answer"
  /\ armed' = (armed \/ build = "spi")
  /\ pc' = "clear"
  /\ UNCHANGED <<peripheralVars, rx_buf, sending, place, rx_event, received,
                 disturbed>>

\* The memset at the end of read_cmd_handler.
Clear ==
  /\ pc = "clear"
  /\ rx_buf' = AllWiped
  /\ pc' = "clear header"
  /\ UNCHANGED <<peripheralVars, armed, sending, place, rx_event, received,
                 disturbed>>

\* The memset of the callback.
\* FAULT: it is missing; read_cmd_handler has one.
ClearHeaderNone ==
  /\ pc = "clear header"
  /\ pc' = "arm"
  /\ UNCHANGED <<peripheralVars, rx_buf, armed, sending, place, rx_event,
                 received, disturbed>>

ClearHeader ==
  /\ pc = "clear header"
  /\ rx_buf' = AllWiped
  /\ pc' = "arm"
  /\ UNCHANGED <<peripheralVars, armed, sending, place, rx_event, received,
                 disturbed>>

\* evt_spiscomm_cmd_read, uart_read.  The link is at rest again if nothing has
\* come, or is coming, meanwhile.
Arm ==
  /\ pc = "arm"
  /\ armed' = TRUE
  /\ pc' = "idle"
  /\ disturbed' = (disturbed /\ (rx_event \/ sending # Silent))
  /\ UNCHANGED <<peripheralVars, rx_buf, sending, place, rx_event, received>>

-----------------------------------------------------------------------------
CommandStep == Refused \/ OtherType \/ BasicCommand \/ SetConfig \/ GetConfig
               \/ AnswerWritten \/ Clear \/ ClearHeader \/ Arm

SpiNext == \/ \E c \in Commands : HostSends(c)
           \/ Arrives
           \/ Dispatch
           \/ CommandStep

SpiSpec == SpiInit /\ [][SpiNext]_commandVars

-----------------------------------------------------------------------------
(* Properties.                                                             *)

\* The handler acts on one whole command that it has not handled yet, unless
\* bytes came while the callback ran; and over UART none do.  Over SPI they do
\* when an answer has armed the read (peripheral_cmd_handler.c:555): the command
\* is wiped, and its event handles the next one half arrived
\* (peripheral_cmd_handler.c:250, evt_spiscomm.c:79).
CommandIntact ==
  /\ pc = "read" /\ ~disturbed =>
       received # Silent /\ \A i \in Pieces : rx_buf[i] = received
  /\ build = "uart" => ~disturbed

\* Whatever has happened to a command, between two callbacks the next one is
\* awaited or is there: the link never goes deaf (evt_spiscomm.c:81,
\* evt_uartcomm.c:113).
SlaveHears == pc = "idle" => armed \/ rx_event

=============================================================================

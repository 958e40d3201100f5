---------------------------- MODULE PeripheralCmd ----------------------------
(***************************************************************************)
(* The peripheral command handler (evt_peripheral_cmd/                     *)
(* peripheral_cmd_handler.c): which parts of its result the application    *)
(* sends, and its settings.  The commands reach it over one link, chosen   *)
(* by the preprocessor: SpiCommands has those that come over SPI and UART, *)
(* I2cComm those of the I2C feature SPI.  The handler runs on the main     *)
(* thread and nothing else writes what it writes.  The build is the one    *)
(* without DUT, OMRON_FACE_RECOGNITION and CDM_ENABLE.                     *)
(***************************************************************************)
EXTENDS Naturals

VARIABLES
  build,     \* the link: EVT_SPISCOMM, UART_PROTOCOL, EVT_I2CCOMM, or the
             \* last with OS_FREERTOS
  parts,     \* g_en_data_tx
  cfg        \* g_sub_cmd_cfg

peripheralVars == <<build, parts, cfg>>

Builds == {"spi", "uart", "i2c", "i2c_rtos"}
Parts  == {"jpg", "meta", "voice", "pdm", "algo"}
Keys   == {"humn_lv_timeout", "wakeup_method", "language"}

WORD == 65535        \* what two bytes of 0xFF read as

\* The data of TYPE_BASIC that stops a part; one more starts it.
StopCode == [all |-> 0, jpg |-> 16, meta |-> 32, voice |-> 48, pdm |-> 64, algo |-> 80]
BasicCodes == {StopCode[w] + on : w \in DOMAIN StopCode, on \in {0, 1}}

\* A command of seven bytes; val is its data.  "other": of no known type.
\* "noise": seven bytes without the header.
Command ==
  [type : {"basic", "other", "noise"}, what : {"none"}, val : 0 .. WORD]
  \cup [type : {"set", "get"}, what : Keys, val : 0 .. WORD]

\* peripheral_cmd_init, or the zero-initialised storage when nobody calls it.
PeripheralInit ==
  /\ parts \in {[p \in Parts |-> FALSE], [p \in Parts |-> p = "algo"]}
  /\ cfg \in {[k \in Keys |-> 0],
              [k \in Keys |-> IF k = "humn_lv_timeout" THEN 2 ELSE 0]}

\* TYPE_BASIC.  ALL_ON leaves the audio as it is, ALL_OFF does not; neither
\* touches the algorithm.
\* FAULT: ALL_OFF forgets the audio, as ALL_ON does.
BasicForgets(ps, what, on) ==
  [p \in Parts |->
     IF what = "all" THEN IF p \in {"jpg", "meta", "voice"} THEN on ELSE ps[p]
     ELSE IF p = what THEN on ELSE ps[p]]

Basic(ps, what, on) ==
  [p \in Parts |->
     CASE what = "all" /\ p \in {"jpg", "meta", "voice"} -> on
       [] what = "all" /\ p = "pdm" -> on /\ ps[p]
       [] p = what -> on
       [] OTHER -> ps[p]]

=============================================================================

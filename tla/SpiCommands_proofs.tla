-------------------------- MODULE SpiCommands_proofs --------------------------
(***************************************************************************)
(* Proofs about SpiCommands, for every set of commands.  The link hears    *)
(* always (HearsInv is inductive with the types).  That the handler acts   *)
(* on one whole command rests on where an undisturbed command may be: what *)
(* has arrived of it is in the buffer, in order (WireInv); its event means *)
(* that it is whole, that no read is armed and that the callback is at     *)
(* rest (WholeInv); and over UART no read is armed while the callback runs *)
(* (UartInv).                                                              *)
(***************************************************************************)
EXTENDS SpiCommands, TLAPS

WireInv ==
  /\ sending # Silent => armed
  /\ sending = Silent => place = 0
  /\ ~disturbed /\ pc # "idle" => place = 0
  /\ ~disturbed => \A i \in Pieces : i < place => rx_buf[i] = sending

WholeInv ==
  ~disturbed =>
    /\ rx_event => pc = "idle" /\ ~armed
    /\ rx_event \/ pc = "read" =>
         received # Silent /\ \A i \in Pieces : rx_buf[i] = received

UartInv ==
  build = "uart" =>
    /\ ~disturbed
    /\ pc # "idle" \/ rx_event => ~armed

CommandInv == SpiTypeOK /\ WireInv /\ WholeInv /\ UartInv

-----------------------------------------------------------------------------
LEMMA PiecesAre == Pieces = {0, 1, 2, 3}
  BY DEF Pieces

LEMMA ValIsNat == \A c \in Command \cup {Wiped} : c.val \in Nat
<1> SUFFICES ASSUME NEW c \in Command \cup {Wiped} PROVE c.val \in Nat
  OBVIOUS
<1>1. Wiped.val \in Nat
  BY DEF Wiped, WORD
<1>2. c \in Command => c.val \in 0 .. WORD
  BY DEF Command
<1>3. 0 .. WORD \subseteq Nat
  OBVIOUS
<1> QED
  BY <1>1, <1>2, <1>3, Zenon

LEMMA SpiTypeInit == ASSUME SpiInit PROVE SpiTypeOK
<1>1. parts \in [Parts -> BOOLEAN] /\ cfg \in [Keys -> Nat]
  <2>1. [p \in Parts |-> FALSE] \in [Parts -> BOOLEAN]
    BY Zenon
  <2>2. [p \in Parts |-> p = "algo"] \in [Parts -> BOOLEAN]
    BY Zenon
  <2>3. [k \in Keys |-> 0] \in [Keys -> Nat]
    OBVIOUS
  <2>4. [k \in Keys |-> IF k = "humn_lv_timeout" THEN 2 ELSE 0] \in [Keys -> Nat]
    OBVIOUS
  <2> QED
    BY <2>1, <2>2, <2>3, <2>4, Zenon DEF SpiInit, PeripheralInit
<1>2. place \in Pieces /\ rx_buf \in [Pieces -> Command \cup {Wiped}]
  BY PiecesAre DEF SpiInit, SpiStart, AllWiped
<1> QED
  BY <1>1, <1>2 DEF SpiInit, SpiStart, SpiTypeOK, Builds

LEMMA HostSendsType ==
  ASSUME SpiTypeOK, NEW c \in Commands, HostSends(c) PROVE SpiTypeOK'
  BY CommandsAssumption DEF SpiTypeOK, HostSends, peripheralVars

LEMMA ArrivesType == ASSUME SpiTypeOK, Arrives PROVE SpiTypeOK'
<1>1. sending \in Command
  BY DEF SpiTypeOK, Arrives
<1>2. rx_buf' \in [Pieces -> Command \cup {Wiped}]
  BY <1>1 DEF SpiTypeOK, Arrives
<1>3. place' \in Pieces
  <2>1. place \in {0, 1, 2, 3}
    BY PiecesAre DEF SpiTypeOK
  <2>2. place' = IF place < 3 THEN place + 1 ELSE 0
    BY DEF Arrives
  <2> QED
    BY <2>1, <2>2, PiecesAre
<1> QED
  BY <1>1, <1>2, <1>3 DEF SpiTypeOK, Arrives, peripheralVars

LEMMA DispatchType == ASSUME SpiTypeOK, Dispatch PROVE SpiTypeOK'
  BY DEF SpiTypeOK, Dispatch, peripheralVars

LEMMA BasicType ==
  ASSUME NEW ps \in [Parts -> BOOLEAN], NEW what, NEW on \in BOOLEAN
  PROVE  Basic(ps, what, on) \in [Parts -> BOOLEAN]
  BY DEF Basic

LEMMA CommandStepType == ASSUME SpiTypeOK, CommandStep PROVE SpiTypeOK'
<1> USE DEF Handled
<1>1. CASE Refused
  BY <1>1 DEF SpiTypeOK, Refused
<1>2. CASE OtherType
  BY <1>2 DEF SpiTypeOK, OtherType
<1>3. CASE BasicCommand
  <2>1. ASSUME NEW what, NEW on, parts' = Basic(parts, what, on = 1)
        PROVE  parts' \in [Parts -> BOOLEAN]
    <3>1. (on = 1) \in BOOLEAN
      OBVIOUS
    <3> QED
      BY <2>1, <3>1, BasicType DEF SpiTypeOK
  <2>2. parts' \in [Parts -> BOOLEAN]
    BY <1>3, <2>1 DEF SpiTypeOK, BasicCommand
  <2> QED
    BY <1>3, <2>2 DEF SpiTypeOK, BasicCommand
<1>4. CASE SetConfig
  <2>1. rx_buf[3].val \in Nat
    BY ValIsNat, PiecesAre DEF SpiTypeOK
  <2>2. cfg' \in [Keys -> Nat]
    BY <1>4, <2>1 DEF SpiTypeOK, SetConfig
  <2> QED
    BY <1>4, <2>2 DEF SpiTypeOK, SetConfig
<1>5. CASE GetConfig
  BY <1>5 DEF SpiTypeOK, GetConfig
<1>6. CASE AnswerWritten
  BY <1>6 DEF SpiTypeOK, AnswerWritten, peripheralVars
<1>7. CASE Clear
  BY <1>7 DEF SpiTypeOK, Clear, AllWiped, peripheralVars
<1>8. CASE ClearHeader
  BY <1>8 DEF SpiTypeOK, ClearHeader, AllWiped, peripheralVars
<1>9. CASE Arm
  BY <1>9 DEF SpiTypeOK, Arm, peripheralVars
<1> QED
  BY <1>1, <1>2, <1>3, <1>4, <1>5, <1>6, <1>7, <1>8, <1>9 DEF CommandStep

LEMMA SpiTypeNext == ASSUME SpiTypeOK, [SpiNext]_commandVars PROVE SpiTypeOK'
<1>1. CASE UNCHANGED commandVars
  BY <1>1 DEF SpiTypeOK, commandVars, peripheralVars, spiVars
<1> QED
  BY <1>1, HostSendsType, ArrivesType, DispatchType, CommandStepType DEF SpiNext

\* The variables of the SPI and UART commands keep their types.
THEOREM SpiTypeCorrect == SpiSpec => []SpiTypeOK
  BY SpiTypeInit, SpiTypeNext, PTL DEF SpiSpec

-----------------------------------------------------------------------------
\* The link never goes deaf, whatever the host sends and whenever.
THEOREM AlwaysHears == SpiSpec => []SlaveHears
<1>1. SpiInit => SlaveHears
  BY DEF SpiInit, SpiStart, SlaveHears
<1>2. SpiTypeOK /\ SlaveHears /\ [SpiNext]_commandVars => SlaveHears'
  <2> SUFFICES ASSUME SpiTypeOK, SlaveHears, [SpiNext]_commandVars
               PROVE  SlaveHears'
    OBVIOUS
  <2>1. ASSUME NEW c \in Commands, HostSends(c) PROVE SlaveHears'
    BY <2>1 DEF SlaveHears, HostSends
  <2>2. CASE Arrives
    BY <2>2 DEF SlaveHears, Arrives
  <2>3. CASE Dispatch
    BY <2>3 DEF SlaveHears, Dispatch
  <2>4. CASE CommandStep
    BY <2>4 DEF SlaveHears, CommandStep, Refused, OtherType, BasicCommand,
                SetConfig, GetConfig, Handled, AnswerWritten, Clear, ClearHeader,
                Arm
  <2>5. CASE UNCHANGED commandVars
    BY <2>5 DEF SlaveHears, commandVars, spiVars
  <2> QED
    BY <2>1, <2>2, <2>3, <2>4, <2>5 DEF SpiNext
<1> QED
  BY <1>1, <1>2, SpiTypeCorrect, PTL DEF SpiSpec

-----------------------------------------------------------------------------
LEMMA CommandInvInit == ASSUME SpiInit PROVE CommandInv
<1>1. \A i \in Pieces : ~(i < 0)
  BY PiecesAre
<1>2. WireInv
  BY <1>1 DEF WireInv, SpiInit, SpiStart
<1>3. WholeInv /\ UartInv
  BY DEF WholeInv, UartInv, SpiInit, SpiStart
<1> QED
  BY <1>2, <1>3, SpiTypeInit DEF CommandInv

LEMMA HostSendsInv ==
  ASSUME CommandInv, NEW c \in Commands, HostSends(c) PROVE CommandInv'
<1> USE DEF CommandInv, HostSends, peripheralVars
<1>1. SpiTypeOK'
  BY HostSendsType
<1>2. WireInv'
  BY DEF WireInv, Pieces
<1>3. WholeInv'
  BY DEF WholeInv
<1>4. UartInv'
  BY DEF UartInv
<1> QED
  BY <1>1, <1>2, <1>3, <1>4

LEMMA ArrivesInv == ASSUME CommandInv, Arrives PROVE CommandInv'
<1> USE DEF CommandInv
<1>1. SpiTypeOK'
  BY ArrivesType
<1>2. armed
  BY DEF WireInv, Arrives
<1>3. ASSUME ~disturbed', NEW i \in Pieces, i <= place
      PROVE  rx_buf'[i] = sending
  <2>1. i \in {0, 1, 2, 3} /\ place \in {0, 1, 2, 3}
    BY PiecesAre DEF SpiTypeOK
  <2>2. i = place \/ i < place
    BY <1>3, <2>1
  <2>3. i < place => rx_buf[i] = sending
    BY <1>3 DEF WireInv, Arrives
  <2>4. rx_buf' = [rx_buf EXCEPT ![place] = sending] /\ rx_buf \in [Pieces -> Command \cup {Wiped}]
    BY DEF Arrives, SpiTypeOK
  <2> QED
    BY <2>2, <2>3, <2>4
<1>4. WireInv'
  <2>1. (sending # Silent => armed)' /\ (sending = Silent => place = 0)'
    BY <1>2 DEF Arrives, SpiTypeOK
  <2>2. (~disturbed /\ pc # "idle" => place = 0)'
    BY DEF Arrives, peripheralVars
  <2>3. ASSUME ~disturbed', NEW i \in Pieces, i < place'
        PROVE  rx_buf'[i] = sending'
    <3>1. i \in {0, 1, 2, 3} /\ place \in {0, 1, 2, 3}
      BY PiecesAre DEF SpiTypeOK
    <3>2. place' = place + 1 /\ sending' = sending
      BY <2>3, <3>1 DEF Arrives
    <3>3. i <= place
      BY <2>3, <3>1, <3>2
    <3> QED
      BY <1>3, <2>3, <3>2, <3>3
  <2> QED
    BY <2>1, <2>2, <2>3 DEF WireInv
<1>5. WholeInv'
  <2> SUFFICES ASSUME ~disturbed'
               PROVE  /\ rx_event' => pc' = "idle" /\ ~armed'
                      /\ rx_event' \/ pc' = "read" =>
                           received' # Silent /\ \A i \in Pieces : rx_buf'[i] = received'
    BY DEF WholeInv
  <2>1. pc = "idle" /\ pc' = "idle" /\ ~disturbed
    BY DEF Arrives
  <2>2. ~rx_event
    BY <1>2, <2>1 DEF WholeInv
  <2>3. CASE place < 3
    BY <2>1, <2>2, <2>3 DEF Arrives
  <2>4. CASE ~(place < 3)
    <3>1. place = 3
      <4>1. place \in {0, 1, 2, 3}
        BY PiecesAre DEF SpiTypeOK
      <4> QED
        BY <2>4, <4>1
    <3>2. \A i \in Pieces : rx_buf'[i] = sending
      <4>1. \A i \in Pieces : i <= 3
        BY PiecesAre
      <4> QED
        BY <1>3, <3>1, <4>1
    <3> QED
      BY <2>1, <2>4, <3>2 DEF Arrives
  <2> QED
    BY <2>3, <2>4
<1>6. UartInv'
  BY <1>2 DEF UartInv, Arrives, peripheralVars
<1> QED
  BY <1>1, <1>4, <1>5, <1>6

LEMMA DispatchInv == ASSUME CommandInv, Dispatch PROVE CommandInv'
<1> USE DEF CommandInv, Dispatch, peripheralVars
<1>1. SpiTypeOK'
  BY DispatchType
<1>2. WireInv'
  BY DEF WireInv, WholeInv
<1>3. WholeInv'
  BY DEF WholeInv
<1>4. UartInv'
  BY DEF UartInv
<1> QED
  BY <1>1, <1>2, <1>3, <1>4

\* What the steps of the callback but the last and the answer have in common.
LEMMA QuietStepInv ==
  ASSUME CommandInv, SpiTypeOK', pc # "idle", pc' \notin {"idle", "read"},
         rx_buf' = rx_buf \/ pc # "read",
         UNCHANGED <<build, sending, place, rx_event, disturbed>>,
         armed' = armed \/ (armed' /\ build # "uart")
  PROVE  CommandInv'
<1> USE DEF CommandInv
<1>1. WireInv'
  <2>1. \A i \in Pieces : ~(i < 0)
    BY PiecesAre
  <2>2. armed => armed'
    OBVIOUS
  <2> QED
    BY <2>1, <2>2 DEF WireInv
<1>2. WholeInv'
  BY DEF WholeInv
<1>3. UartInv'
  BY Zenon DEF UartInv
<1> QED
  BY <1>1, <1>2, <1>3

LEMMA ArmInv == ASSUME CommandInv, Arm PROVE CommandInv'
<1> USE DEF CommandInv, Arm, peripheralVars
<1>1. SpiTypeOK'
  BY CommandStepType DEF CommandStep
<1>2. WireInv'
  BY DEF WireInv, SpiTypeOK, Pieces
<1>3. WholeInv'
  BY DEF WholeInv
<1>4. UartInv'
  BY DEF UartInv, WholeInv
<1> QED
  BY <1>1, <1>2, <1>3, <1>4

LEMMA CommandStepInv == ASSUME CommandInv, CommandStep PROVE CommandInv'
<1>1. SpiTypeOK'
  BY CommandStepType DEF CommandInv
<1>2. CASE Refused \/ OtherType \/ BasicCommand \/ SetConfig \/ GetConfig
  BY <1>1, <1>2, QuietStepInv
     DEF Refused, OtherType, BasicCommand, SetConfig, GetConfig, Handled
<1>3. CASE AnswerWritten
  <2>1. armed' = armed \/ (armed' /\ build # "uart")
    BY <1>3 DEF AnswerWritten, CommandInv, SpiTypeOK
  <2> QED
    BY <1>1, <1>3, <2>1, QuietStepInv DEF AnswerWritten, peripheralVars
<1>4. CASE Clear \/ ClearHeader
  BY <1>1, <1>4, QuietStepInv DEF Clear, ClearHeader, peripheralVars
<1> QED
  BY <1>2, <1>3, <1>4, ArmInv DEF CommandStep

LEMMA CommandInvNext ==
  ASSUME CommandInv, [SpiNext]_commandVars PROVE CommandInv'
<1>1. CASE UNCHANGED commandVars
  BY <1>1 DEF CommandInv, SpiTypeOK, WireInv, WholeInv, UartInv, commandVars,
              peripheralVars, spiVars
<1> QED
  BY <1>1, HostSendsInv, ArrivesInv, DispatchInv, CommandStepInv DEF SpiNext

\* The handler acts on one whole command, once, unless bytes came while the
\* callback ran, which over UART they do not.
THEOREM CommandsIntact == SpiSpec => []CommandIntact
<1>1. CommandInv => CommandIntact
  BY DEF CommandInv, WholeInv, UartInv, CommandIntact
<1> QED
  BY <1>1, CommandInvInit, CommandInvNext, PTL DEF SpiSpec

=============================================================================

----------------------------- MODULE Send_proofs -----------------------------
(***************************************************************************)
(* What the functions that send report is true: the writes of the SPI      *)
(* master and slave for every number of polls, app_uart_send for every     *)
(* number of packets and polls.                                            *)
(***************************************************************************)
EXTENDS SpiWrite, UartSend, TLAPS

\* Only the write in progress has its data in the driver as "mine"; what is
\* "old" was left there by a halt that failed.
XferInv ==
  /\ \A d \in Dev : xfer[d] = "mine" => wr.dev = d /\ wr.pc \in {"wait", "giveup"}
  /\ \A d \in Dev : xfer[d] = "old" => unhalted[d]
  /\ wr.late => unhalted[wr.dev]

\* A write that began with an idle driver: nothing is started before "wait",
\* the driver never holds an old transfer, and the flag goes down only when
\* the data has been sent.
CleanInv ==
  ~wr.late =>
    /\ wr.pc \in {"pin", "start"} => xfer[wr.dev] = "none" /\ busy[wr.dev]
    /\ wr.pc # "idle" => xfer[wr.dev] # "old"
    /\ wr.pc = "wait" /\ ~busy[wr.dev] => wr.sent /\ xfer[wr.dev] = "none"
    /\ wr.ret = "ok" => wr.sent

\* The pin of the slave during and after a write.
PinInv ==
  /\ wr.pc = "pin" => wr.dev = "slv"
  /\ wr.dev = "slv" /\ ~wr.late =>
       /\ wr.pc = "start" => pin
       /\ wr.pc = "wait" /\ xfer["slv"] = "mine" => pin
       /\ wr.pc = "wait" /\ ~busy["slv"] => ~pin
  /\ pin => \/ wr.dev = "slv" /\ wr.pc # "idle"
            \/ xfer["slv"] # "none"
            \/ unhalted["slv"]

ReadInv ==
  /\ rd.pc = "poll" => rx_busy /\ reads = 0
  /\ reads = 0 \/ (reads = 1 /\ rx_busy)

\* A wait that goes on has polls left.
PollsInv ==
  /\ wr.pc \in {"pin", "start", "wait"} => wr.polls <= MaxPolls
  /\ rd.pc = "poll" => rd.polls <= MaxPolls

IInv == WriteTypeOK /\ BusyOnlyInCall /\ XferInv /\ CleanInv /\ PinInv /\ ReadInv /\ PollsInv

USE MaxPollsAssumption DEF Dev, Form, Result

LEMMA WriteInitInv == WriteInit => IInv
<1> SUFFICES ASSUME WriteInit PROVE IInv
  OBVIOUS
<1>1. WriteTypeOK
  BY DEF WriteInit, WriteTypeOK, PollsInv
<1>2. BusyOnlyInCall
  BY DEF WriteInit, WriteTypeOK, BusyOnlyInCall
<1>3. XferInv
  BY DEF WriteInit, WriteTypeOK, XferInv, CleanInv
<1>4. CleanInv
  BY DEF WriteInit, WriteTypeOK, XferInv, CleanInv, BusyOnlyInCall
<1>5. PinInv
  BY DEF WriteInit, WriteTypeOK, XferInv, CleanInv, BusyOnlyInCall, PinInv
<1>6. ReadInv
  BY DEF WriteInit, WriteTypeOK, ReadInv
<1>7. PollsInv
  BY DEF WriteInit, WriteTypeOK, PollsInv
<1> QED
  BY <1>1, <1>2, <1>3, <1>4, <1>5, <1>6, <1>7 DEF IInv

LEMMA WriteCallInv ==
  ASSUME NEW d \in Dev, NEW f \in Form, IInv, WriteCall(d, f) PROVE IInv'
<1>1. WriteTypeOK'
  BY DEF WriteCall, WriterIdle, IInv, WriteTypeOK, PollsInv
<1>2. BusyOnlyInCall'
  BY DEF WriteCall, WriterIdle, IInv, WriteTypeOK, BusyOnlyInCall
<1>3. XferInv'
  BY DEF WriteCall, WriterIdle, IInv, WriteTypeOK, XferInv, CleanInv
<1>4. CleanInv'
  BY DEF WriteCall, WriterIdle, IInv, WriteTypeOK, XferInv, CleanInv, BusyOnlyInCall
<1>5. PinInv'
  BY DEF WriteCall, WriterIdle, IInv, WriteTypeOK, XferInv, CleanInv, BusyOnlyInCall, PinInv
<1>6. ReadInv'
  BY DEF WriteCall, WriterIdle, IInv, WriteTypeOK, ReadInv
<1>7. PollsInv'
  BY DEF WriteCall, WriterIdle, IInv, WriteTypeOK, PollsInv
<1> QED
  BY <1>1, <1>2, <1>3, <1>4, <1>5, <1>6, <1>7 DEF IInv

LEMMA RaisePinInv == IInv /\ RaisePin => IInv'
<1> SUFFICES ASSUME IInv, RaisePin PROVE IInv'
  OBVIOUS
<1>1. WriteTypeOK'
  BY DEF RaisePin, IInv, WriteTypeOK, PollsInv
<1>2. BusyOnlyInCall'
  BY DEF RaisePin, IInv, WriteTypeOK, BusyOnlyInCall
<1>3. XferInv'
  BY DEF RaisePin, IInv, WriteTypeOK, XferInv, CleanInv
<1>4. CleanInv'
  BY DEF RaisePin, IInv, WriteTypeOK, XferInv, CleanInv, BusyOnlyInCall
<1>5. PinInv'
  BY DEF RaisePin, IInv, WriteTypeOK, XferInv, CleanInv, BusyOnlyInCall, PinInv
<1>6. ReadInv'
  BY DEF RaisePin, IInv, WriteTypeOK, ReadInv
<1>7. PollsInv'
  BY DEF RaisePin, IInv, WriteTypeOK, PollsInv
<1> QED
  BY <1>1, <1>2, <1>3, <1>4, <1>5, <1>6, <1>7 DEF IInv

LEMMA StartWriteInv == IInv /\ StartWrite => IInv'
<1> SUFFICES ASSUME IInv, StartWrite PROVE IInv'
  OBVIOUS
<1>1. WriteTypeOK'
  BY DEF StartWrite, IInv, WriteTypeOK, PollsInv
<1>2. BusyOnlyInCall'
  BY DEF StartWrite, IInv, WriteTypeOK, BusyOnlyInCall
<1>3. XferInv'
  BY DEF StartWrite, IInv, WriteTypeOK, XferInv, CleanInv
<1>4. CleanInv'
  BY DEF StartWrite, IInv, WriteTypeOK, XferInv, CleanInv, BusyOnlyInCall
<1>5. PinInv'
  BY DEF StartWrite, IInv, WriteTypeOK, XferInv, CleanInv, BusyOnlyInCall, PinInv
<1>6. ReadInv'
  BY DEF StartWrite, IInv, WriteTypeOK, ReadInv
<1>7. PollsInv'
  BY DEF StartWrite, IInv, WriteTypeOK, PollsInv
<1> QED
  BY <1>1, <1>2, <1>3, <1>4, <1>5, <1>6, <1>7 DEF IInv

LEMMA PollInv == IInv /\ Poll => IInv'
<1> SUFFICES ASSUME IInv, Poll PROVE IInv'
  OBVIOUS
<1>1. WriteTypeOK'
  <2>1. wr' \in [pc : {"idle", "pin", "start", "wait", "giveup"}, dev : Dev,
                 form : Form, polls : Nat, late : BOOLEAN,
                 sent : BOOLEAN, ret : Result]
    <3>1. PICK p \in {"wait", "giveup"} : wr' = [wr EXCEPT !.polls = wr.polls + 1, !.pc = p]
      BY Zenon DEF Poll
    <3>2. wr.polls + 1 \in Nat
      BY DEF IInv, WriteTypeOK
    <3> QED
      BY <3>1, <3>2 DEF IInv, WriteTypeOK
  <2> QED
    BY <2>1 DEF Poll, IInv, WriteTypeOK
<1>2. BusyOnlyInCall'
  BY DEF Poll, IInv, WriteTypeOK, BusyOnlyInCall
<1>3. XferInv'
  BY DEF Poll, IInv, WriteTypeOK, XferInv, CleanInv
<1>4. CleanInv'
  BY DEF Poll, IInv, WriteTypeOK, XferInv, CleanInv, BusyOnlyInCall
<1>5. PinInv'
  BY DEF Poll, IInv, WriteTypeOK, XferInv, CleanInv, BusyOnlyInCall, PinInv
<1>6. ReadInv'
  BY DEF Poll, IInv, WriteTypeOK, ReadInv
<1>7. PollsInv'
  BY DEF Poll, IInv, WriteTypeOK, PollsInv
<1> QED
  BY <1>1, <1>2, <1>3, <1>4, <1>5, <1>6, <1>7 DEF IInv

LEMMA WriteDoneInv == IInv /\ WriteDone => IInv'
<1> SUFFICES ASSUME IInv, WriteDone PROVE IInv'
  OBVIOUS
<1>1. WriteTypeOK'
  BY DEF WriteDone, Aged, IInv, WriteTypeOK, PollsInv
<1>2. BusyOnlyInCall'
  BY DEF WriteDone, Aged, IInv, WriteTypeOK, BusyOnlyInCall
<1>3. XferInv'
  BY DEF WriteDone, Aged, IInv, WriteTypeOK, XferInv, CleanInv
<1>4. CleanInv'
  BY DEF WriteDone, Aged, IInv, WriteTypeOK, XferInv, CleanInv, BusyOnlyInCall
<1>5. PinInv'
  BY DEF WriteDone, Aged, IInv, WriteTypeOK, XferInv, CleanInv, BusyOnlyInCall, PinInv
<1>6. ReadInv'
  BY DEF WriteDone, Aged, IInv, WriteTypeOK, ReadInv
<1>7. PollsInv'
  BY DEF WriteDone, Aged, IInv, WriteTypeOK, PollsInv
<1> QED
  BY <1>1, <1>2, <1>3, <1>4, <1>5, <1>6, <1>7 DEF IInv

LEMMA GiveUpInv == IInv /\ GiveUp => IInv'
<1> SUFFICES ASSUME IInv, GiveUp PROVE IInv'
  OBVIOUS
<1>1. WriteTypeOK'
  BY DEF GiveUp, Aged, IInv, WriteTypeOK, PollsInv
<1>2. BusyOnlyInCall'
  BY DEF GiveUp, Aged, IInv, WriteTypeOK, BusyOnlyInCall
<1>3. XferInv'
  BY DEF GiveUp, Aged, IInv, WriteTypeOK, XferInv, CleanInv
<1>4. CleanInv'
  BY DEF GiveUp, Aged, IInv, WriteTypeOK, XferInv, CleanInv, BusyOnlyInCall
<1>5. PinInv'
  BY DEF GiveUp, Aged, IInv, WriteTypeOK, XferInv, CleanInv, BusyOnlyInCall, PinInv
<1>6. ReadInv'
  BY DEF GiveUp, Aged, IInv, WriteTypeOK, ReadInv
<1>7. PollsInv'
  BY DEF GiveUp, Aged, IInv, WriteTypeOK, PollsInv
<1> QED
  BY <1>1, <1>2, <1>3, <1>4, <1>5, <1>6, <1>7 DEF IInv

LEMMA WriteEndsInv ==
  ASSUME NEW d \in Dev, IInv, WriteEnds(d) PROVE IInv'
<1>1. WriteTypeOK'
  BY DEF WriteEnds, IInv, WriteTypeOK, PollsInv
<1>2. BusyOnlyInCall'
  BY DEF WriteEnds, IInv, WriteTypeOK, BusyOnlyInCall
<1>3. XferInv'
  BY DEF WriteEnds, IInv, WriteTypeOK, XferInv, CleanInv
<1>4. CleanInv'
  BY DEF WriteEnds, IInv, WriteTypeOK, XferInv, CleanInv, BusyOnlyInCall
<1>5. PinInv'
  BY DEF WriteEnds, IInv, WriteTypeOK, XferInv, CleanInv, BusyOnlyInCall, PinInv
<1>6. ReadInv'
  BY DEF WriteEnds, IInv, WriteTypeOK, ReadInv
<1>7. PollsInv'
  BY DEF WriteEnds, IInv, WriteTypeOK, PollsInv
<1> QED
  BY <1>1, <1>2, <1>3, <1>4, <1>5, <1>6, <1>7 DEF IInv

LEMMA HaltInv ==
  ASSUME NEW d \in Dev, IInv, Halt(d) PROVE IInv'
<1>1. WriteTypeOK'
  <2>1. xfer' \in [Dev -> {"none", "mine", "old"}]
    BY DEF Halt, IInv, WriteTypeOK
  <2>2. busy \in [Dev -> BOOLEAN] /\ pin \in BOOLEAN /\ unhalted \in [Dev -> BOOLEAN]
    BY DEF IInv, WriteTypeOK
  <2>3. busy' = [busy EXCEPT ![d] = FALSE] \/ busy' = busy
    BY Zenon DEF Halt
  <2>4. busy' \in [Dev -> BOOLEAN]
    BY <2>2, <2>3
  <2>5. pin' \in BOOLEAN
    <3>1. pin' = IF d = "slv" THEN FALSE ELSE pin
      BY Zenon DEF Halt
    <3> QED
      BY <2>2, <3>1
  <2>6. \/ unhalted' = unhalted
        \/ unhalted' = [unhalted EXCEPT ![d] = unhalted[d] \/ xfer[d] # "none"]
    BY Zenon DEF Halt
  <2>7. unhalted' \in [Dev -> BOOLEAN]
    BY <2>2, <2>6, Zenon
  <2> QED
    BY <2>1, <2>4, <2>5, <2>7 DEF Halt, IInv, WriteTypeOK
<1>2. BusyOnlyInCall'
  BY DEF Halt, WriterIdle, IInv, WriteTypeOK, BusyOnlyInCall
<1>3. XferInv'
  BY DEF Halt, WriterIdle, IInv, WriteTypeOK, XferInv, CleanInv
<1>4. CleanInv'
  BY DEF Halt, WriterIdle, IInv, WriteTypeOK, XferInv, CleanInv, BusyOnlyInCall
<1>5. PinInv'
  BY DEF Halt, WriterIdle, IInv, WriteTypeOK, XferInv, CleanInv, BusyOnlyInCall, PinInv
<1>6. ReadInv'
  BY DEF Halt, WriterIdle, IInv, WriteTypeOK, ReadInv
<1>7. PollsInv'
  BY DEF Halt, WriterIdle, IInv, WriteTypeOK, PollsInv
<1> QED
  BY <1>1, <1>2, <1>3, <1>4, <1>5, <1>6, <1>7 DEF IInv

LEMMA OpenInv ==
  ASSUME NEW d \in Dev, IInv, Open(d) PROVE IInv'
<1>1. WriteTypeOK'
  BY DEF Open, WriterIdle, IInv, WriteTypeOK, PollsInv
<1>2. BusyOnlyInCall'
  BY DEF Open, WriterIdle, IInv, WriteTypeOK, BusyOnlyInCall
<1>3. XferInv'
  BY DEF Open, WriterIdle, IInv, WriteTypeOK, XferInv, CleanInv
<1>4. CleanInv'
  BY DEF Open, WriterIdle, IInv, WriteTypeOK, XferInv, CleanInv, BusyOnlyInCall
<1>5. PinInv'
  BY DEF Open, WriterIdle, IInv, WriteTypeOK, XferInv, CleanInv, BusyOnlyInCall, PinInv
<1>6. ReadInv'
  BY DEF Open, WriterIdle, IInv, WriteTypeOK, ReadInv
<1>7. PollsInv'
  BY DEF Open, WriterIdle, IInv, WriteTypeOK, PollsInv
<1> QED
  BY <1>1, <1>2, <1>3, <1>4, <1>5, <1>6, <1>7 DEF IInv

LEMMA ReadCallInv == IInv /\ ReadCall => IInv'
<1> SUFFICES ASSUME IInv, ReadCall PROVE IInv'
  OBVIOUS
<1>1. WriteTypeOK'
  BY DEF ReadCall, WriterIdle, IInv, WriteTypeOK, PollsInv
<1>2. BusyOnlyInCall'
  BY DEF ReadCall, WriterIdle, IInv, WriteTypeOK, BusyOnlyInCall
<1>3. XferInv'
  BY DEF ReadCall, WriterIdle, IInv, WriteTypeOK, XferInv, CleanInv
<1>4. CleanInv'
  BY DEF ReadCall, WriterIdle, IInv, WriteTypeOK, XferInv, CleanInv, BusyOnlyInCall
<1>5. PinInv'
  BY DEF ReadCall, WriterIdle, IInv, WriteTypeOK, XferInv, CleanInv, BusyOnlyInCall, PinInv
<1>6. ReadInv'
  BY DEF ReadCall, WriterIdle, IInv, WriteTypeOK, ReadInv
<1>7. PollsInv'
  BY DEF ReadCall, WriterIdle, IInv, WriteTypeOK, PollsInv
<1> QED
  BY <1>1, <1>2, <1>3, <1>4, <1>5, <1>6, <1>7 DEF IInv

LEMMA ReadPinLowInv == IInv /\ ReadPinLow => IInv'
<1> SUFFICES ASSUME IInv, ReadPinLow PROVE IInv'
  OBVIOUS
<1>1. WriteTypeOK'
  <2>1. rx_busy' \in BOOLEAN /\ rd' \in [pc : {"idle", "poll"}, polls : Nat]
    <3>1. CASE rd.polls + 1 > MaxPolls
      BY <3>1 DEF ReadPinLow, IInv, WriteTypeOK
    <3>2. CASE ~(rd.polls + 1 > MaxPolls)
      BY <3>2 DEF ReadPinLow, IInv, WriteTypeOK
    <3> QED
      BY <3>1, <3>2
  <2> QED
    BY <2>1 DEF ReadPinLow, IInv, WriteTypeOK
<1>2. BusyOnlyInCall'
  BY DEF ReadPinLow, IInv, WriteTypeOK, BusyOnlyInCall
<1>3. XferInv'
  BY DEF ReadPinLow, IInv, WriteTypeOK, XferInv, CleanInv
<1>4. CleanInv'
  BY DEF ReadPinLow, IInv, WriteTypeOK, XferInv, CleanInv, BusyOnlyInCall
<1>5. PinInv'
  BY DEF ReadPinLow, IInv, WriteTypeOK, XferInv, CleanInv, BusyOnlyInCall, PinInv
<1>6. ReadInv'
  BY DEF ReadPinLow, IInv, WriteTypeOK, ReadInv
<1>7. PollsInv'
  BY DEF ReadPinLow, IInv, WriteTypeOK, PollsInv
<1> QED
  BY <1>1, <1>2, <1>3, <1>4, <1>5, <1>6, <1>7 DEF IInv

LEMMA ReadPinHighInv == IInv /\ ReadPinHigh => IInv'
<1> SUFFICES ASSUME IInv, ReadPinHigh PROVE IInv'
  OBVIOUS
<1>1. WriteTypeOK'
  BY DEF ReadPinHigh, IInv, WriteTypeOK, PollsInv
<1>2. BusyOnlyInCall'
  BY DEF ReadPinHigh, IInv, WriteTypeOK, BusyOnlyInCall
<1>3. XferInv'
  BY DEF ReadPinHigh, IInv, WriteTypeOK, XferInv, CleanInv
<1>4. CleanInv'
  BY DEF ReadPinHigh, IInv, WriteTypeOK, XferInv, CleanInv, BusyOnlyInCall
<1>5. PinInv'
  BY DEF ReadPinHigh, IInv, WriteTypeOK, XferInv, CleanInv, BusyOnlyInCall, PinInv
<1>6. ReadInv'
  BY DEF ReadPinHigh, IInv, WriteTypeOK, ReadInv
<1>7. PollsInv'
  BY DEF ReadPinHigh, IInv, WriteTypeOK, PollsInv
<1> QED
  BY <1>1, <1>2, <1>3, <1>4, <1>5, <1>6, <1>7 DEF IInv

LEMMA WriteInvariant == WriteSpec => []IInv
<1>1. IInv /\ [WriteNext]_writeVars => IInv'
  <2> SUFFICES ASSUME IInv, [WriteNext]_writeVars PROVE IInv'
    OBVIOUS
  <2>1. CASE WriterStep
    BY <2>1, RaisePinInv, StartWriteInv, PollInv, WriteDoneInv, GiveUpInv,
       ReadPinLowInv, ReadPinHighInv
    DEF WriterStep
  <2>4. CASE ReadRefused \/ UNCHANGED writeVars
    BY <2>4 DEF ReadRefused, writeVars, IInv, WriteTypeOK, BusyOnlyInCall, XferInv, CleanInv, PinInv, ReadInv, PollsInv
  <2>2. CASE WriterCall
    BY <2>2, <2>4, WriteCallInv, HaltInv, OpenInv, ReadCallInv DEF WriterCall
  <2>3. CASE WriteInterrupt
    BY <2>3, WriteEndsInv DEF WriteInterrupt
  <2> QED
    BY <2>1, <2>2, <2>3, <2>4 DEF WriteNext
<1> QED
  BY <1>1, WriteInitInv, PTL DEF WriteSpec

-----------------------------------------------------------------------------
\* The variables of SpiWrite keep their types.
THEOREM WriteTypeCorrect == WriteSpec => []WriteTypeOK
<1>1. IInv => WriteTypeOK
  BY DEF IInv
<1> QED
  BY <1>1, WriteInvariant, PTL

\* A write returns 0 only when its data has been sent, but after a halt that
\* failed.
THEOREM WriteReportsTruth == WriteSpec => []ZeroMeansSent
<1>1. IInv => ZeroMeansSent
  BY DEF IInv, ZeroMeansSent, XferInv, CleanInv, WriteTypeOK
<1> QED
  BY <1>1, WriteInvariant, PTL

\* No write is ever refused because of an earlier one.
THEOREM NeverRefused == WriteSpec => []BusyOnlyInCall
<1>1. IInv => BusyOnlyInCall
  BY DEF IInv
<1> QED
  BY <1>1, WriteInvariant, PTL

\* The handshake pin of the slave is up exactly while there is something to
\* fetch, but after a halt that failed.
THEOREM PinTruth == WriteSpec => []PinTellsHost
<1>1. IInv => PinTellsHost
  BY DEF IInv, PinTellsHost, PinInv
<1> QED
  BY <1>1, WriteInvariant, PTL

\* One read of the master returns 0 after each open.
THEOREM OneRead == WriteSpec => []ReadOncePerOpen
<1>1. IInv => ReadOncePerOpen
  BY DEF IInv, ReadOncePerOpen, ReadInv
<1> QED
  BY <1>1, WriteInvariant, PTL
-----------------------------------------------------------------------------
(* UART.                                                                   *)

\* While a call that began with an idle DMA runs, a raised flag is that of the
\* chunk it waits for: the chunk has been sent and the DMA is idle.  (A flag
\* alone does not say so, and UartZeroMeansSent is not inductive without it.)
FlagIsOfChunk ==
  ~us.late /\ us.pc # "idle" =>
    \/ /\ us.pc = "write" /\ us.sent = us.next
       /\ dma.own = "none" /\ ~uart_cb_tx_flag
    \/ /\ us.pc = "wait" /\ us.sent = us.next
       /\ dma.own = "none" /\ uart_cb_tx_flag
    \/ /\ us.pc = "wait" /\ us.sent + 1 = us.next
       /\ dma.own = "mine" /\ dma.chunk = us.sent /\ ~uart_cb_tx_flag

\* A call never goes past its last chunk.
NextInv ==
  /\ us.pc = "write" => us.next <= us.size
  /\ us.pc = "wait" => us.next <= us.size + 1

\* Between the calls nothing is "mine", and within one there is no result yet.
OwnInv == IF us.pc = "idle" THEN dma.own # "mine" ELSE us.ret = "none"

UartIInv == UartTypeOK /\ FlagIsOfChunk /\ NextInv /\ OwnInv /\ UartZeroMeansSent

USE MaxWaitsAssumption, PacketsAssumption DEF Header

LEMMA SendCallInv ==
  ASSUME NEW n \in Packets, UartIInv, SendCall(n) PROVE UartIInv'
<1>1. UartTypeOK'
  BY DEF SendCall, UartIInv, UartTypeOK
<1>2. FlagIsOfChunk'
  BY DEF SendCall, UartIInv, UartTypeOK, FlagIsOfChunk
<1>3. NextInv'
  BY DEF SendCall, UartIInv, UartTypeOK, NextInv, FlagIsOfChunk
<1>4. OwnInv'
  BY DEF SendCall, UartIInv, UartTypeOK, OwnInv
<1>5. UartZeroMeansSent'
  BY DEF SendCall, UartIInv, UartTypeOK, UartZeroMeansSent, FlagIsOfChunk, NextInv, OwnInv
<1> QED
  BY <1>1, <1>2, <1>3, <1>4, <1>5 DEF UartIInv

LEMMA SendWriteInv == UartIInv /\ SendWrite => UartIInv'
<1> SUFFICES ASSUME UartIInv, SendWrite PROVE UartIInv'
  OBVIOUS
<1>1. UartTypeOK'
  <2>1. us.next \in Nat /\ us.next + 1 \in Nat
    BY DEF UartIInv, UartTypeOK
  <2>2. us' \in [pc : {"idle", "write", "wait"}, size : Nat, next : Nat,
                waits : Nat, late : BOOLEAN, sent : Nat, ret : {"none", "ok", "fail"}]
    BY <2>1 DEF SendWrite, UartIInv, UartTypeOK
  <2>3. dma' \in [own : {"none", "mine", "old"}, chunk : Nat]
    BY <2>1 DEF SendWrite
  <2> QED
    BY <2>2, <2>3 DEF SendWrite, UartIInv, UartTypeOK
<1>2. FlagIsOfChunk'
  BY DEF SendWrite, UartIInv, UartTypeOK, FlagIsOfChunk
<1>3. NextInv'
  BY DEF SendWrite, UartIInv, UartTypeOK, NextInv, FlagIsOfChunk
<1>4. OwnInv'
  BY DEF SendWrite, UartIInv, UartTypeOK, OwnInv
<1>5. UartZeroMeansSent'
  BY DEF SendWrite, UartIInv, UartTypeOK, UartZeroMeansSent, FlagIsOfChunk, NextInv, OwnInv
<1> QED
  BY <1>1, <1>2, <1>3, <1>4, <1>5 DEF UartIInv

\* A call that fails, refused or after its wait, claims nothing.
LEMMA FailInv ==
  ASSUME UartIInv, Returns("fail"), UNCHANGED uart_cb_tx_flag PROVE UartIInv'
<1>1. UartTypeOK'
  BY DEF Returns, UartIInv, UartTypeOK
<1>2. FlagIsOfChunk'
  BY DEF Returns, UartIInv, UartTypeOK, FlagIsOfChunk
<1>3. NextInv'
  BY DEF Returns, UartIInv, UartTypeOK, NextInv, FlagIsOfChunk
<1>4. OwnInv'
  BY DEF Returns, UartIInv, UartTypeOK, OwnInv
<1>5. UartZeroMeansSent'
  BY DEF Returns, UartIInv, UartTypeOK, UartZeroMeansSent, FlagIsOfChunk, NextInv, OwnInv
<1> QED
  BY <1>1, <1>2, <1>3, <1>4, <1>5 DEF UartIInv

LEMMA WaitInv == UartIInv /\ Wait => UartIInv'
<1> SUFFICES ASSUME UartIInv, Wait PROVE UartIInv'
  OBVIOUS
<1>1. CASE us.waits < MaxWaits
  <2>1. UartTypeOK'
    BY <1>1 DEF Wait, UartIInv, UartTypeOK
  <2>2. FlagIsOfChunk'
    BY <1>1 DEF Wait, UartIInv, UartTypeOK, FlagIsOfChunk
  <2>3. NextInv'
    BY <1>1 DEF Wait, UartIInv, UartTypeOK, NextInv, FlagIsOfChunk
  <2>4. OwnInv'
    BY <1>1 DEF Wait, UartIInv, UartTypeOK, OwnInv
  <2>5. UartZeroMeansSent'
    BY <1>1 DEF Wait, UartIInv, UartTypeOK, UartZeroMeansSent, FlagIsOfChunk, NextInv, OwnInv
  <2> QED
    BY <2>1, <2>2, <2>3, <2>4, <2>5 DEF UartIInv
<1>2. CASE ~(us.waits < MaxWaits)
  BY <1>2, FailInv DEF Wait
<1> QED
  BY <1>1, <1>2

LEMMA SendNextInv == UartIInv /\ SendNext => UartIInv'
<1> SUFFICES ASSUME UartIInv, SendNext PROVE UartIInv'
  OBVIOUS
<1>1. CASE us.next <= us.size
  <2>1. UartTypeOK'
    <3>1. us' \in [pc : {"idle", "write", "wait"}, size : Nat, next : Nat,
                  waits : Nat, late : BOOLEAN, sent : Nat, ret : {"none", "ok", "fail"}]
      <4>1. us' = [us EXCEPT !.pc = "write", !.waits = 0]
        BY <1>1, Zenon DEF SendNext
      <4> QED
        BY <4>1 DEF UartIInv, UartTypeOK
    <3>2. uart_cb_tx_flag' \in BOOLEAN /\ dma' = dma
      BY <1>1, Zenon DEF SendNext
    <3> QED
      BY <3>1, <3>2 DEF UartIInv, UartTypeOK
  <2>2. FlagIsOfChunk'
    BY <1>1 DEF SendNext, UartIInv, UartTypeOK, FlagIsOfChunk
  <2>3. NextInv'
    BY <1>1 DEF SendNext, UartIInv, UartTypeOK, NextInv, FlagIsOfChunk
  <2>4. OwnInv'
    BY <1>1 DEF SendNext, UartIInv, UartTypeOK, OwnInv
  <2>5. UartZeroMeansSent'
    BY <1>1 DEF SendNext, UartIInv, UartTypeOK, UartZeroMeansSent, FlagIsOfChunk, NextInv, OwnInv
  <2> QED
    BY <2>1, <2>2, <2>3, <2>4, <2>5 DEF UartIInv
<1>2. CASE ~(us.next <= us.size)
  <2>1. UartTypeOK'
    BY <1>2 DEF SendNext, Returns, UartIInv, UartTypeOK
  <2>2. FlagIsOfChunk'
    BY <1>2 DEF SendNext, Returns, UartIInv, UartTypeOK, FlagIsOfChunk
  <2>3. NextInv'
    BY <1>2 DEF SendNext, Returns, UartIInv, UartTypeOK, NextInv, FlagIsOfChunk
  <2>4. OwnInv'
    BY <1>2 DEF SendNext, Returns, UartIInv, UartTypeOK, OwnInv
  <2>5. UartZeroMeansSent'
    <3>1. us.late \/ us.sent = us.size + 1
      BY <1>2 DEF SendNext, UartIInv, UartTypeOK, FlagIsOfChunk, NextInv
    <3>2. us'.late = us.late /\ us'.sent = us.sent /\ us'.size = us.size
      BY <1>2 DEF SendNext, Returns, UartIInv, UartTypeOK
    <3> QED
      BY <3>1, <3>2 DEF UartZeroMeansSent
  <2> QED
    BY <2>1, <2>2, <2>3, <2>4, <2>5 DEF UartIInv
<1> QED
  BY <1>1, <1>2

LEMMA SendEndsInv == UartIInv /\ SendEnds => UartIInv'
<1> SUFFICES ASSUME UartIInv, SendEnds PROVE UartIInv'
  OBVIOUS
<1>1. CASE dma.own = "mine" /\ dma.chunk = us.sent
  <2>1. UartTypeOK'
    BY <1>1 DEF SendEnds, DmaIdle, UartIInv, UartTypeOK
  <2>2. FlagIsOfChunk'
    BY <1>1 DEF SendEnds, DmaIdle, UartIInv, UartTypeOK, FlagIsOfChunk
  <2>3. NextInv'
    BY <1>1 DEF SendEnds, DmaIdle, UartIInv, UartTypeOK, NextInv, FlagIsOfChunk
  <2>4. OwnInv'
    BY <1>1 DEF SendEnds, DmaIdle, UartIInv, UartTypeOK, OwnInv
  <2>5. UartZeroMeansSent'
    BY <1>1 DEF SendEnds, DmaIdle, UartIInv, UartTypeOK, UartZeroMeansSent, FlagIsOfChunk, NextInv, OwnInv
  <2> QED
    BY <2>1, <2>2, <2>3, <2>4, <2>5 DEF UartIInv
<1>2. CASE ~(dma.own = "mine" /\ dma.chunk = us.sent)
  <2>1. UartTypeOK'
    BY <1>2 DEF SendEnds, DmaIdle, UartIInv, UartTypeOK
  <2>2. FlagIsOfChunk'
    BY <1>2 DEF SendEnds, DmaIdle, UartIInv, UartTypeOK, FlagIsOfChunk
  <2>3. NextInv'
    BY <1>2 DEF SendEnds, DmaIdle, UartIInv, UartTypeOK, NextInv, FlagIsOfChunk
  <2>4. OwnInv'
    BY <1>2 DEF SendEnds, DmaIdle, UartIInv, UartTypeOK, OwnInv
  <2>5. UartZeroMeansSent'
    BY <1>2 DEF SendEnds, DmaIdle, UartIInv, UartTypeOK, UartZeroMeansSent, FlagIsOfChunk, NextInv, OwnInv
  <2> QED
    BY <2>1, <2>2, <2>3, <2>4, <2>5 DEF UartIInv
<1> QED
  BY <1>1, <1>2

LEMMA UartInvariant == UartSpec => []UartIInv
<1>1. UartInit => UartIInv
  <2> SUFFICES ASSUME UartInit PROVE UartIInv
    OBVIOUS
  <2>1. UartTypeOK
    BY DEF UartInit, DmaIdle, UartTypeOK
  <2>2. FlagIsOfChunk /\ NextInv /\ OwnInv /\ UartZeroMeansSent
    BY DEF UartInit, DmaIdle, FlagIsOfChunk, NextInv, OwnInv, UartZeroMeansSent
  <2> QED
    BY <2>1, <2>2 DEF UartIInv
<1>2. UartIInv /\ [UartNext]_uartVars => UartIInv'
  <2> SUFFICES ASSUME UartIInv, [UartNext]_uartVars PROVE UartIInv'
    OBVIOUS
  <2>1. CASE SendRefused
    BY <2>1, FailInv DEF SendRefused
  <2>2. CASE UNCHANGED uartVars
    BY <2>2 DEF uartVars, UartIInv, UartTypeOK, FlagIsOfChunk, NextInv, OwnInv, UartZeroMeansSent
  <2> QED
    BY <2>1, <2>2, SendCallInv, SendWriteInv, WaitInv, SendNextInv, SendEndsInv
    DEF UartNext, SendStep
<1> QED
  BY <1>1, <1>2, PTL DEF UartSpec

-----------------------------------------------------------------------------
\* The variables of UartSend keep their types.
THEOREM UartTypeCorrect == UartSpec => []UartTypeOK
<1>1. UartIInv => UartTypeOK
  BY DEF UartIInv
<1> QED
  BY <1>1, UartInvariant, PTL

\* A call that found the DMA idle and returns 0 has sent its header and every
\* packet, in order.
THEOREM UartReportsTruth == UartSpec => []UartZeroMeansSent
<1>1. UartIInv => UartZeroMeansSent
  BY DEF UartIInv
<1> QED
  BY <1>1, UartInvariant, PTL

==============================================================================

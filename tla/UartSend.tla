------------------------------ MODULE UartSend ------------------------------
(***************************************************************************)
(* app_uart_send of platform/peripheral/uart/uart_protocol.c: a header and *)
(* then the data in packets, each written by DMA and waited for through    *)
(* one flag that the interrupt raises.  A wait that takes too long makes   *)
(* the call fail; the DMA is not stopped.                                  *)
(*                                                                         *)
(* The driver is a binary library: a write is started or refused with an   *)
(* error, at any time ends or never ends, and a write that finds another   *)
(* one running is refused or takes its place.                              *)
(***************************************************************************)
EXTENDS Naturals

CONSTANTS
  MaxWaits,      \* polls before a chunk is given up (50000)
  Packets        \* numbers of packets a call may have to send

ASSUME MaxWaitsAssumption == MaxWaits \in Nat
ASSUME PacketsAssumption == Packets \subseteq Nat

VARIABLES
  uart_cb_tx_flag,   \* raised by the interrupt
  dma,               \* what the DMA writes: whose, and which chunk
  us                 \* the call in progress, or the last one

uartVars == <<uart_cb_tx_flag, dma, us>>

Header == 0                    \* chunk 0; the packets are 1 .. us.size

DmaIdle == [own |-> "none", chunk |-> Header]

UartTypeOK ==
  /\ uart_cb_tx_flag \in BOOLEAN
  /\ dma \in [own : {"none", "mine", "old"}, chunk : Nat]
  /\ us \in [pc : {"idle", "write", "wait"}, size : Nat, next : Nat,
             waits : Nat, late : BOOLEAN, sent : Nat,
             ret : {"none", "ok", "fail"}]

UartInit ==
  /\ uart_cb_tx_flag = FALSE
  /\ dma = DmaIdle
  /\ us = [pc |-> "idle", size |-> 0, next |-> Header, waits |-> 0,
           late |-> FALSE, sent |-> 0, ret |-> "none"]

-----------------------------------------------------------------------------
SendCall(n) ==
  /\ us.pc = "idle"
  /\ uart_cb_tx_flag' = FALSE
  /\ us' = [pc |-> "write", size |-> n, next |-> Header, waits |-> 0,
            late |-> dma.own # "none", sent |-> 0, ret |-> "none"]
  /\ UNCHANGED dma

\* The call returns; what the DMA still writes is that of an old call.
Returns(r) ==
  /\ us' = [us EXCEPT !.pc = "idle", !.ret = r]
  /\ dma' = IF dma.own = "none" THEN dma ELSE [dma EXCEPT !.own = "old"]

\* uart_write of the next chunk is started ...
SendWrite ==
  /\ us.pc = "write"
  /\ dma' = [own |-> "mine", chunk |-> us.next]
  /\ us' = [us EXCEPT !.pc = "wait", !.next = @ + 1]
  /\ UNCHANGED uart_cb_tx_flag

\* ... or returns an error.
SendRefused ==
  /\ us.pc = "write"
  /\ Returns("fail")
  /\ UNCHANGED uart_cb_tx_flag

Wait ==
  /\ us.pc = "wait" /\ ~uart_cb_tx_flag
  /\ IF us.waits < MaxWaits
     THEN /\ us' = [us EXCEPT !.waits = @ + 1]
          /\ UNCHANGED dma
     ELSE Returns("fail")
  /\ UNCHANGED uart_cb_tx_flag

\* The flag is up: the next packet, or 0 after the last one.
\* FAULT: the flag stays up.
SendNextKeepsFlag ==
  /\ us.pc = "wait" /\ uart_cb_tx_flag
  /\ IF us.next <= us.size
     THEN /\ us' = [us EXCEPT !.pc = "write", !.waits = 0]
          /\ UNCHANGED <<uart_cb_tx_flag, dma>>
     ELSE Returns("ok") /\ UNCHANGED uart_cb_tx_flag

SendNext ==
  /\ us.pc = "wait" /\ uart_cb_tx_flag
  /\ IF us.next <= us.size
     THEN /\ us' = [us EXCEPT !.pc = "write", !.waits = 0]
          /\ uart_cb_tx_flag' = FALSE
          /\ UNCHANGED dma
     ELSE Returns("ok") /\ UNCHANGED uart_cb_tx_flag

\* uart_callback_fun_tx: the DMA has written a chunk.  The flag does not say
\* which.  us.sent counts the chunks of the call that the line has carried in
\* their order.
SendEnds ==
  /\ dma.own # "none"
  /\ uart_cb_tx_flag' = TRUE
  /\ us' = IF dma.own = "mine" /\ dma.chunk = us.sent
           THEN [us EXCEPT !.sent = @ + 1] ELSE us
  /\ dma' = DmaIdle

-----------------------------------------------------------------------------
SendStep == SendWrite \/ SendRefused \/ Wait \/ SendNext

UartNext == SendStep \/ SendEnds \/ \E n \in Packets : SendCall(n)

UartSpec == UartInit /\ [][UartNext]_uartVars

-----------------------------------------------------------------------------
\* A call that returns 0 has sent its header and all its packets, in order and
\* nothing cut short, and the DMA has left its buffers -- the header is on the
\* stack of the call.  The exception is a call that found the DMA still at
\* work on a chunk given up before: its interrupt ends a wait too early
\* (uart_protocol.c:84, 107).  Once that interrupt has come, the next call is
\* sound again.
UartZeroMeansSent ==
  us.ret = "ok" => us.late \/ us.sent = us.size + 1

=============================================================================

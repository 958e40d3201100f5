----------------------------- MODULE SlaveRead -----------------------------
(***************************************************************************)
(* hx_drv_spi_slv_protocol_read_simple of platform/peripheral/spi_s/       *)
(* spi_slave_protocol.c: waits for a header of 6 bytes, then reads the     *)
(* image it announces, packet by packet, straight into memory.             *)
(*                                                                         *)
(* The host clocks units, each a header, something whose first byte only   *)
(* looks like one, or data, numbered in the order in which they come.  The *)
(* driver, a binary library, fills the buffer of the read that is armed;   *)
(* the host pauses while none is.  A read that finds another one armed is  *)
(* refused or takes its place.  When a wait takes too long the call fails; *)
(* the read stays armed.                                                   *)
(***************************************************************************)
EXTENDS Naturals

CONSTANTS
  PacketSize,     \* units in a packet (PACKET_SIZE)
  Sizes,          \* sizes, in units, a header may announce
  MaxHeaderWait,  \* polls, over all headers (10000)
  MaxPacketWait,  \* polls for one packet (3000)
  MaxUnits        \* units the host clocks (bounds the model)

ASSUME SizesAssumption ==
  /\ PacketSize \in Nat \ {0}
  /\ MaxUnits \in Nat
  /\ Sizes \subseteq Nat /\ \A n \in Sizes : n <= MaxUnits

VARIABLES
  s_cb_rx_flag,   \* raised by the interrupt
  g_rx_buf,       \* the header buffer
  image,          \* the memory at SRAM_addr: which unit is at each place
  armed,          \* the read the driver works on: where to, how long, how far
  clocked,        \* number of units clocked so far
  rs              \* the call in progress, or the last one

slaveVars == <<s_cb_rx_flag, g_rx_buf, image, armed, clocked, rs>>

Place == 1..MaxUnits
HeaderBuf == 0                                  \* where a header is read to
Cleared == [kind |-> "cleared", size |-> 0, at |-> 0]

NotArmed == [to |-> HeaderBuf, len |-> 0, got |-> 0]
IsArmed == armed.len > 0

SlaveTypeOK ==
  /\ s_cb_rx_flag \in BOOLEAN
  /\ g_rx_buf \in [kind : {"cleared", "header", "half", "data"}, size : Sizes \cup {0},
                   at : Nat]
  /\ image \in [Place -> Nat]
  /\ armed \in [to : Nat, len : Nat, got : Nat]
  /\ clocked \in Nat
  /\ rs \in [pc : {"idle", "hread", "hwait", "pread", "pwait"}, hwait : Nat, pwait : Nat,
             pos : Nat, left : Nat, size : Sizes \cup {0}, late : BOOLEAN,
             ret : {"none", "ok", "fail", "timeout"}]

SlaveInit ==
  /\ s_cb_rx_flag = FALSE
  /\ g_rx_buf = Cleared
  /\ image = [i \in Place |-> 0]
  /\ armed = NotArmed
  /\ clocked = 0
  /\ rs = [pc |-> "idle", hwait |-> 0, pwait |-> 0, pos |-> 1, left |-> 0,
           size |-> 0, late |-> FALSE, ret |-> "none"]

-----------------------------------------------------------------------------
(* The host and the driver.                                                *)

\* A unit comes in; the last one of a read ends it and interrupts.
Clock(kind, size) ==
  /\ IsArmed
  /\ clocked < MaxUnits
  /\ clocked' = clocked + 1
  /\ IF armed.to = HeaderBuf
     THEN /\ g_rx_buf' = [kind |-> kind, size |-> size, at |-> clocked']
          /\ UNCHANGED image
     ELSE /\ image' = [image EXCEPT ![armed.to + armed.got] = clocked']
          /\ UNCHANGED g_rx_buf
  /\ IF armed.got + 1 = armed.len
     THEN armed' = NotArmed /\ s_cb_rx_flag' = TRUE
     ELSE armed' = [armed EXCEPT !.got = @ + 1] /\ UNCHANGED s_cb_rx_flag
  /\ UNCHANGED rs

\* spi_read: arms a read, unless another one is armed and keeps its place.  A
\* read of nothing ends at once or never.
SpiRead(to, len) ==
  IF len = 0
  THEN armed' = armed /\ s_cb_rx_flag' \in {s_cb_rx_flag, TRUE}
  ELSE /\ \/ armed' = [to |-> to, len |-> len, got |-> 0]
          \/ IsArmed /\ armed' = armed
       /\ UNCHANGED s_cb_rx_flag

-----------------------------------------------------------------------------
(* The call.                                                               *)

\* Clear the first byte of the buffer and the flag: at the start of the call,
\* and again after every unit that was no header.
ClearHeader ==
  /\ g_rx_buf' = [g_rx_buf EXCEPT !.kind = "cleared"]
  /\ s_cb_rx_flag' = FALSE

ReadImage ==
  /\ rs.pc = "idle"
  /\ ClearHeader
  /\ rs' = [pc |-> "hread", hwait |-> 0, pwait |-> 0, pos |-> 1, left |-> 0,
            size |-> 0, late |-> IsArmed, ret |-> "none"]
  /\ UNCHANGED <<image, armed, clocked>>

ReadHeader ==
  /\ rs.pc = "hread"
  /\ SpiRead(HeaderBuf, 1)
  /\ rs' = [rs EXCEPT !.pc = "hwait"]
  /\ UNCHANGED <<g_rx_buf, image, clocked>>

WaitHeader ==
  /\ rs.pc = "hwait" /\ ~s_cb_rx_flag
  /\ rs' = IF rs.hwait + 1 >= MaxHeaderWait
           THEN [rs EXCEPT !.pc = "idle", !.ret = "fail"]
           ELSE [rs EXCEPT !.hwait = @ + 1]
  /\ UNCHANGED <<s_cb_rx_flag, g_rx_buf, image, armed, clocked>>

NotAHeader ==
  /\ rs.pc = "hwait" /\ s_cb_rx_flag
  /\ g_rx_buf.kind \notin {"header", "half"}
  /\ ClearHeader
  /\ rs' = [rs EXCEPT !.pc = "hread", !.hwait = @ + 1]
  /\ UNCHANGED <<image, armed, clocked>>

HalfAHeader ==
  /\ rs.pc = "hwait" /\ s_cb_rx_flag
  /\ g_rx_buf.kind = "half"
  /\ rs' = [rs EXCEPT !.pc = "idle", !.ret = "fail"]
  /\ UNCHANGED <<s_cb_rx_flag, g_rx_buf, image, armed, clocked>>

AHeader ==
  /\ rs.pc = "hwait" /\ s_cb_rx_flag
  /\ g_rx_buf.kind = "header"
  /\ s_cb_rx_flag' = FALSE
  /\ rs' = [rs EXCEPT !.pc = "pread", !.pwait = 0,
                      !.left = g_rx_buf.size, !.size = g_rx_buf.size]
  /\ UNCHANGED <<g_rx_buf, image, armed, clocked>>

\* The length of the next packet.
PacketLen == IF rs.left > PacketSize THEN PacketSize ELSE rs.left

ReadPacket ==
  /\ rs.pc = "pread"
  /\ SpiRead(rs.pos, PacketLen)
  /\ rs' = [rs EXCEPT !.pc = "pwait"]
  /\ UNCHANGED <<g_rx_buf, image, clocked>>

WaitPacket ==
  /\ rs.pc = "pwait" /\ ~s_cb_rx_flag
  /\ rs' = IF rs.pwait + 1 >= MaxPacketWait
           THEN [rs EXCEPT !.pc = "idle", !.ret = "timeout"]
           ELSE [rs EXCEPT !.pwait = @ + 1]
  /\ UNCHANGED <<s_cb_rx_flag, g_rx_buf, image, armed, clocked>>

\* FAULT: the flag of the packet stays up.
PacketInKeepsFlag ==
  /\ rs.pc = "pwait" /\ s_cb_rx_flag
  /\ rs' = IF rs.left > PacketSize
           THEN [rs EXCEPT !.pc = "pread", !.pwait = 0,
                           !.left = @ - PacketSize, !.pos = @ + PacketSize]
           ELSE [rs EXCEPT !.pc = "idle", !.left = 0, !.pos = @ + rs.left, !.ret = "ok"]
  /\ UNCHANGED <<s_cb_rx_flag, g_rx_buf, image, armed, clocked>>

PacketIn ==
  /\ rs.pc = "pwait" /\ s_cb_rx_flag
  /\ IF rs.left > PacketSize
     THEN /\ rs' = [rs EXCEPT !.pc = "pread", !.pwait = 0,
                              !.left = @ - PacketSize, !.pos = @ + PacketSize]
          /\ s_cb_rx_flag' = FALSE
     ELSE /\ rs' = [rs EXCEPT !.pc = "idle", !.left = 0, !.pos = @ + rs.left,
                              !.ret = "ok"]
          /\ UNCHANGED s_cb_rx_flag
  /\ UNCHANGED <<g_rx_buf, image, armed, clocked>>

-----------------------------------------------------------------------------
SlaveNext ==
  \/ \E kind \in {"header", "half", "data"}, size \in Sizes : Clock(kind, size)
  \/ ReadImage
  \/ ReadHeader \/ WaitHeader \/ NotAHeader \/ HalfAHeader \/ AHeader
  \/ ReadPacket \/ WaitPacket \/ PacketIn

SlaveSpec == SlaveInit /\ [][SlaveNext]_slaveVars

-----------------------------------------------------------------------------
\* When the read returns 0, the memory holds the units that followed the header
\* on the wire, none missing and each in its place.  The exception is a call
\* that found a read armed: that of a call which has given up, whose interrupt
\* satisfies a wait of this one (spi_slave_protocol.c:169, 188, 219).
ImageFollowsHeader ==
  rs.ret = "ok" => rs.late \/ \A i \in 1..rs.size : image[i] = g_rx_buf.at + i

=============================================================================

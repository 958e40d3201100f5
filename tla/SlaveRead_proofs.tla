-------------------------- MODULE SlaveRead_proofs -------------------------
(***************************************************************************)
(* An image that read_simple returns is what followed its header on the    *)
(* wire, for every packet size, image size and length of the waits.        *)
(***************************************************************************)
EXTENDS SlaveRead, TLAPS

\* The first n units after the header are in their places.
Filled(n) == \A i \in 1..n : image[i] = g_rx_buf.at + i

\* Where a call that found no read armed stands.  The read it has armed is its
\* own, and the units clocked since the header are those in the memory: this
\* is what an interrupt of an older read would break.
HeaderInv ==
  /\ rs.pc \in {"hread", "hwait"} => rs.pos = 1
  /\ rs.pc = "hread" => ~IsArmed /\ ~s_cb_rx_flag
  /\ rs.pc = "hwait" =>
       /\ s_cb_rx_flag => ~IsArmed /\ g_rx_buf.at = clocked
       /\ ~s_cb_rx_flag => armed = [to |-> HeaderBuf, len |-> 1, got |-> 0]

PacketInv ==
  /\ rs.pc \in {"pread", "pwait"} =>
       rs.pos >= 1 /\ rs.pos + rs.left = rs.size + 1 /\ rs.size = g_rx_buf.size
  /\ rs.pc = "pread" =>
       ~IsArmed /\ ~s_cb_rx_flag /\ Filled(rs.pos - 1)
       /\ clocked = g_rx_buf.at + rs.pos - 1
  /\ rs.pc = "pwait" /\ s_cb_rx_flag =>
       ~IsArmed /\ Filled(rs.pos - 1 + PacketLen)
       /\ clocked = g_rx_buf.at + rs.pos - 1 + PacketLen
  /\ rs.pc = "pwait" /\ ~s_cb_rx_flag /\ IsArmed =>
       /\ armed.to = rs.pos /\ armed.len = PacketLen /\ armed.got < armed.len
       /\ Filled(rs.pos - 1 + armed.got)
       /\ clocked = g_rx_buf.at + rs.pos - 1 + armed.got

DoneInv ==
  /\ rs.ret = "ok" => rs.pc = "idle" /\ ~IsArmed /\ Filled(rs.size)
  /\ rs.pc # "idle" => rs.ret = "none"

IInv == SlaveTypeOK /\ (rs.late \/ (HeaderInv /\ PacketInv /\ DoneInv))

\* The types of the records, one by one.
CallType ==
  [pc : {"idle", "hread", "hwait", "pread", "pwait"}, hwait : Nat, pwait : Nat,
   pos : Nat, left : Nat, size : Sizes \cup {0}, late : BOOLEAN,
   ret : {"none", "ok", "fail", "timeout"}]

ReadType == [to : Nat, len : Nat, got : Nat]

UnitType ==
  [kind : {"cleared", "header", "half", "data"}, size : Sizes \cup {0}, at : Nat]

USE SizesAssumption DEF HeaderBuf, NotArmed

LEMMA SizeBound == \A n \in Sizes \cup {0} : n \in Nat /\ n <= MaxUnits
  OBVIOUS

\* A unit of the wire, while a call that found no read armed runs: it goes to
\* the place of the read that the call has armed.
LEMMA ClockInv ==
  ASSUME NEW kind \in {"header", "half", "data"}, NEW size \in Sizes, IInv, Clock(kind, size)
  PROVE  IInv'
<1>1. SlaveTypeOK'
  <2>1. clocked' \in Nat /\ g_rx_buf' \in UnitType
    BY DEF Clock, UnitType, IInv, SlaveTypeOK
  <2>2. image' \in [Place -> Nat]
    BY <2>1 DEF Clock, IInv, SlaveTypeOK
  <2>3. armed.got + 1 \in Nat
    BY DEF IInv, SlaveTypeOK
  <2>4. armed' \in ReadType
    BY <2>3 DEF Clock, ReadType, IInv, SlaveTypeOK
  <2>5. s_cb_rx_flag' \in BOOLEAN
    BY Zenon DEF Clock, IInv, SlaveTypeOK
  <2> QED
    BY <2>1, <2>2, <2>4, <2>5 DEF Clock, UnitType, ReadType, IInv, SlaveTypeOK
<1>2. CASE ~rs.late
  <2>1. HeaderInv'
    BY <1>2 DEF Clock, IsArmed, IInv, SlaveTypeOK, HeaderInv
  <2>2. PacketInv'
    <3>1. CASE rs.pc = "pwait"
      <4>1. /\ ~s_cb_rx_flag /\ IsArmed
            /\ armed.to = rs.pos /\ armed.len = PacketLen /\ armed.got < armed.len
            /\ Filled(rs.pos - 1 + armed.got)
            /\ clocked = g_rx_buf.at + rs.pos - 1 + armed.got
        BY <1>2, <3>1 DEF Clock, IInv, PacketInv
      <4>2. /\ rs.pos >= 1 /\ rs.pos + rs.left = rs.size + 1 /\ rs.size = g_rx_buf.size
            /\ rs.pos \in Nat /\ rs.left \in Nat /\ rs.size \in Nat /\ rs.size <= MaxUnits
            /\ armed.got \in Nat /\ clocked \in Nat /\ g_rx_buf.at \in Nat
        <5>1. rs.size \in Sizes \cup {0}
          BY DEF IInv, SlaveTypeOK
        <5> QED
          BY <1>2, <3>1, <5>1, SizeBound DEF IInv, SlaveTypeOK, PacketInv
      <4>3. /\ clocked' = clocked + 1 /\ UNCHANGED <<g_rx_buf, rs>>
            /\ image' = [image EXCEPT ![rs.pos + armed.got] = clocked + 1]
            /\ IF armed.got + 1 = armed.len
               THEN armed' = NotArmed /\ s_cb_rx_flag' = TRUE
               ELSE /\ armed' = [armed EXCEPT !.got = armed.got + 1]
                    /\ UNCHANGED s_cb_rx_flag
        BY <4>1, <4>2 DEF Clock
      <4>4. PacketLen <= rs.left /\ PacketLen' = PacketLen /\ PacketLen \in Nat
        BY <4>2, <4>3 DEF PacketLen
      <4>5. rs.pos + armed.got \in Place
        BY <4>1, <4>2, <4>4 DEF Place
      <4>6. \A i \in 1..(rs.pos + armed.got) : image'[i] = g_rx_buf.at + i
        <5> TAKE i \in 1..(rs.pos + armed.got)
        <5>1. CASE i = rs.pos + armed.got
          BY <4>1, <4>2, <4>3, <4>5, <5>1 DEF IInv, SlaveTypeOK
        <5>2. CASE i # rs.pos + armed.got
          BY <4>1, <4>2, <4>3, <5>2 DEF IInv, SlaveTypeOK, Filled
        <5> QED
          BY <5>1, <5>2
      <4>7. CASE armed.got + 1 = armed.len
        BY <3>1, <4>1, <4>2, <4>3, <4>4, <4>6, <4>7 DEF PacketInv, IsArmed, Filled
      <4>8. CASE armed.got + 1 # armed.len
        <5>1. armed'.got = armed.got + 1 /\ armed'.to = armed.to /\ armed'.len = armed.len
          BY <4>3, <4>8 DEF IInv, SlaveTypeOK
        <5> QED
          BY <3>1, <4>1, <4>2, <4>3, <4>4, <4>6, <4>8, <5>1 DEF PacketInv, IsArmed, Filled,
             IInv, SlaveTypeOK
      <4> QED
        BY <4>7, <4>8
    <3>2. CASE rs.pc # "pwait"
      BY <1>2, <3>2 DEF Clock, IInv, PacketInv
    <3> QED
      BY <3>1, <3>2
  <2>3. DoneInv'
    BY <1>2 DEF Clock, IInv, SlaveTypeOK, DoneInv, Filled
  <2> QED
    BY <1>1, <2>1, <2>2, <2>3 DEF Clock, IInv
<1>3. CASE rs.late
  BY <1>1, <1>3 DEF Clock, IInv
<1> QED
  BY <1>2, <1>3

LEMMA ReadImageInv == IInv /\ ReadImage => IInv'
<1> SUFFICES ASSUME IInv, ReadImage PROVE IInv'
  OBVIOUS
<1>1. SlaveTypeOK'
  <2>1. IsArmed \in BOOLEAN
    BY DEF IsArmed
  <2>2. rs' \in CallType
    BY <2>1 DEF ReadImage, CallType
  <2>3. g_rx_buf' \in UnitType /\ s_cb_rx_flag' \in BOOLEAN
    BY DEF ReadImage, ClearHeader, UnitType, IInv, SlaveTypeOK
  <2> QED
    BY <2>2, <2>3 DEF ReadImage, CallType, UnitType, IInv, SlaveTypeOK
<1>2. CASE ~IsArmed
  <2>1. HeaderInv' /\ PacketInv' /\ DoneInv'
    BY <1>2 DEF ReadImage, ClearHeader, IsArmed, HeaderInv, PacketInv, DoneInv
  <2> QED
    BY <1>1, <2>1 DEF IInv
<1>3. CASE IsArmed
  BY <1>1, <1>3 DEF ReadImage, IInv
<1> QED
  BY <1>2, <1>3

LEMMA ReadHeaderInv == IInv /\ ReadHeader => IInv'
<1> SUFFICES ASSUME IInv, ReadHeader PROVE IInv'
  OBVIOUS
<1>1. SlaveTypeOK'
  BY DEF ReadHeader, SpiRead, IInv, SlaveTypeOK
<1>2. CASE ~rs.late
  <2>1. HeaderInv'
    BY <1>2 DEF ReadHeader, SpiRead, IInv, SlaveTypeOK, HeaderInv
  <2>2. PacketInv'
    BY <1>2 DEF ReadHeader, SpiRead, IInv, SlaveTypeOK, HeaderInv, PacketInv, Filled, PacketLen
  <2>3. DoneInv'
    BY <1>2 DEF ReadHeader, SpiRead, IInv, SlaveTypeOK, PacketInv, DoneInv, Filled, PacketLen
  <2> QED
    BY <1>1, <2>1, <2>2, <2>3 DEF IInv
<1>3. CASE rs.late
  BY <1>1, <1>3 DEF ReadHeader, SpiRead, IInv, SlaveTypeOK
<1> QED
  BY <1>2, <1>3

LEMMA WaitHeaderInv == IInv /\ WaitHeader => IInv'
<1> SUFFICES ASSUME IInv, WaitHeader PROVE IInv'
  OBVIOUS
<1>1. SlaveTypeOK'
  <2>1. rs.hwait + 1 \in Nat
    BY DEF IInv, SlaveTypeOK
  <2>2. rs' \in CallType
    <3>1. \/ rs' = [rs EXCEPT !.pc = "idle", !.ret = "fail"]
          \/ rs' = [rs EXCEPT !.hwait = rs.hwait + 1]
      BY Zenon DEF WaitHeader
    <3> QED
      BY <2>1, <3>1 DEF CallType, IInv, SlaveTypeOK
  <2> QED
    BY <2>2 DEF WaitHeader, CallType, IInv, SlaveTypeOK
<1>2. CASE ~rs.late
  <2>1. HeaderInv'
    BY <1>2 DEF WaitHeader, IInv, SlaveTypeOK, HeaderInv
  <2>2. PacketInv'
    BY <1>2 DEF WaitHeader, IInv, SlaveTypeOK, HeaderInv, PacketInv, Filled, PacketLen
  <2>3. DoneInv'
    BY <1>2 DEF WaitHeader, IInv, SlaveTypeOK, PacketInv, DoneInv, Filled, PacketLen
  <2> QED
    BY <1>1, <2>1, <2>2, <2>3 DEF IInv
<1>3. CASE rs.late
  BY <1>1, <1>3 DEF WaitHeader, IInv, SlaveTypeOK
<1> QED
  BY <1>2, <1>3

LEMMA NotAHeaderInv == IInv /\ NotAHeader => IInv'
<1> SUFFICES ASSUME IInv, NotAHeader PROVE IInv'
  OBVIOUS
<1>1. SlaveTypeOK'
  <2>1. rs.hwait + 1 \in Nat
    BY DEF IInv, SlaveTypeOK
  <2>2. rs' \in CallType
    <3>1. rs' = [rs EXCEPT !.pc = "hread", !.hwait = rs.hwait + 1]
      BY Zenon DEF NotAHeader
    <3> QED
      BY <2>1, <3>1 DEF CallType, IInv, SlaveTypeOK
  <2>3. g_rx_buf' \in UnitType /\ s_cb_rx_flag' \in BOOLEAN
    BY DEF NotAHeader, ClearHeader, UnitType, IInv, SlaveTypeOK
  <2> QED
    BY <2>2, <2>3 DEF NotAHeader, CallType, UnitType, IInv, SlaveTypeOK
<1>2. CASE ~rs.late
  <2>1. HeaderInv'
    BY <1>2 DEF NotAHeader, ClearHeader, IsArmed, IInv, SlaveTypeOK, HeaderInv
  <2>2. PacketInv'
    BY <1>2 DEF NotAHeader, ClearHeader, IInv, SlaveTypeOK, HeaderInv, PacketInv, Filled, PacketLen
  <2>3. DoneInv'
    BY <1>2 DEF NotAHeader, ClearHeader, IInv, SlaveTypeOK, PacketInv, DoneInv, Filled, PacketLen
  <2> QED
    BY <1>1, <2>1, <2>2, <2>3 DEF IInv
<1>3. CASE rs.late
  BY <1>1, <1>3 DEF NotAHeader, ClearHeader, IInv, SlaveTypeOK
<1> QED
  BY <1>2, <1>3

LEMMA HalfAHeaderInv == IInv /\ HalfAHeader => IInv'
<1> SUFFICES ASSUME IInv, HalfAHeader PROVE IInv'
  OBVIOUS
<1>1. SlaveTypeOK'
  BY DEF HalfAHeader, IInv, SlaveTypeOK
<1>2. CASE ~rs.late
  <2>1. HeaderInv'
    BY <1>2 DEF HalfAHeader, IInv, SlaveTypeOK, HeaderInv
  <2>2. PacketInv'
    BY <1>2 DEF HalfAHeader, IInv, SlaveTypeOK, HeaderInv, PacketInv, Filled, PacketLen
  <2>3. DoneInv'
    BY <1>2 DEF HalfAHeader, IInv, SlaveTypeOK, PacketInv, DoneInv, Filled, PacketLen
  <2> QED
    BY <1>1, <2>1, <2>2, <2>3 DEF IInv
<1>3. CASE rs.late
  BY <1>1, <1>3 DEF HalfAHeader, IInv, SlaveTypeOK
<1> QED
  BY <1>2, <1>3

LEMMA AHeaderInv == IInv /\ AHeader => IInv'
<1> SUFFICES ASSUME IInv, AHeader PROVE IInv'
  OBVIOUS
<1>1. SlaveTypeOK'
  <2>1. g_rx_buf.size \in Sizes \cup {0} /\ g_rx_buf.size \in Nat
    <3>1. g_rx_buf.size \in Sizes \cup {0}
      BY DEF IInv, SlaveTypeOK
    <3> QED
      BY <3>1, SizeBound
  <2>2. rs' \in CallType
    BY <2>1 DEF AHeader, CallType, IInv, SlaveTypeOK
  <2> QED
    BY <2>2 DEF AHeader, CallType, IInv, SlaveTypeOK
<1>2. CASE ~rs.late
  <2>1. HeaderInv'
    BY <1>2 DEF AHeader, IInv, SlaveTypeOK, HeaderInv
  <2>2. PacketInv'
    <3>1. /\ rs'.pc = "pread" /\ rs'.pos = 1 /\ rs'.left = g_rx_buf.size
          /\ rs'.size = g_rx_buf.size /\ ~IsArmed /\ g_rx_buf.at = clocked
      BY <1>2 DEF AHeader, IInv, SlaveTypeOK, HeaderInv
    <3>2. g_rx_buf.at \in Nat /\ g_rx_buf.size \in Nat
      <4>1. g_rx_buf.size \in Sizes \cup {0}
        BY DEF IInv, SlaveTypeOK
      <4> QED
        BY <4>1, SizeBound DEF IInv, SlaveTypeOK
    <3> QED
      BY <3>1, <3>2 DEF AHeader, PacketInv, Filled, IsArmed
  <2>3. DoneInv'
    BY <1>2 DEF AHeader, IInv, SlaveTypeOK, PacketInv, DoneInv, Filled, PacketLen
  <2> QED
    BY <1>1, <2>1, <2>2, <2>3 DEF IInv
<1>3. CASE rs.late
  BY <1>1, <1>3 DEF AHeader, IInv, SlaveTypeOK
<1> QED
  BY <1>2, <1>3

LEMMA ReadPacketInv == IInv /\ ReadPacket => IInv'
<1> SUFFICES ASSUME IInv, ReadPacket PROVE IInv'
  OBVIOUS
<1>1. SlaveTypeOK'
  <2>1. rs.pos \in Nat /\ PacketLen \in Nat
    BY DEF PacketLen, IInv, SlaveTypeOK
  <2>2. armed' \in ReadType
    <3>1. \/ armed' = armed
          \/ armed' = [to |-> rs.pos, len |-> PacketLen, got |-> 0]
      BY Zenon DEF ReadPacket, SpiRead
    <3> QED
      BY <2>1, <3>1 DEF ReadType, IInv, SlaveTypeOK
  <2>3. s_cb_rx_flag' \in BOOLEAN
    BY Zenon DEF ReadPacket, SpiRead, IInv, SlaveTypeOK
  <2>4. rs' \in CallType
    BY DEF ReadPacket, CallType, IInv, SlaveTypeOK
  <2> QED
    BY <2>2, <2>3, <2>4 DEF ReadPacket, CallType, ReadType, IInv, SlaveTypeOK
<1>2. CASE ~rs.late
  <2>1. HeaderInv'
    BY <1>2 DEF ReadPacket, SpiRead, PacketLen, IInv, SlaveTypeOK, HeaderInv
  <2>2. PacketInv'
    <3>1. /\ rs.pos \in Nat /\ rs.left \in Nat /\ rs.size \in Nat
          /\ clocked \in Nat /\ g_rx_buf.at \in Nat /\ PacketLen \in Nat
      <4>1. rs.size \in Sizes \cup {0}
        BY DEF IInv, SlaveTypeOK
      <4> QED
        BY <4>1, SizeBound DEF PacketLen, IInv, SlaveTypeOK
    <3>2. /\ rs.pos >= 1 /\ rs.pos + rs.left = rs.size + 1 /\ rs.size = g_rx_buf.size
          /\ ~IsArmed /\ ~s_cb_rx_flag /\ Filled(rs.pos - 1)
          /\ clocked = g_rx_buf.at + rs.pos - 1
      BY <1>2 DEF ReadPacket, IInv, PacketInv
    <3>3. /\ rs'.pc = "pwait" /\ rs'.pos = rs.pos /\ rs'.left = rs.left /\ rs'.size = rs.size
          /\ UNCHANGED <<g_rx_buf, image, clocked>>
      BY DEF ReadPacket, IInv, SlaveTypeOK
    <3>4. PacketLen' = PacketLen
      BY <3>3 DEF PacketLen
    <3>5. CASE PacketLen = 0
      <4>1. armed' = armed /\ ~IsArmed'
        BY <3>2, <3>5 DEF ReadPacket, SpiRead, IsArmed
      <4> QED
        BY <3>1, <3>2, <3>3, <3>4, <3>5, <4>1 DEF PacketInv, Filled
    <3>6. CASE PacketLen # 0
      <4>1. armed' = [to |-> rs.pos, len |-> PacketLen, got |-> 0] /\ ~s_cb_rx_flag'
        BY <3>2, <3>6 DEF ReadPacket, SpiRead
      <4> QED
        BY <3>1, <3>2, <3>3, <3>4, <3>6, <4>1 DEF PacketInv, Filled
    <3> QED
      BY <3>5, <3>6
  <2>3. DoneInv'
    BY <1>2 DEF ReadPacket, SpiRead, PacketLen, IInv, SlaveTypeOK, PacketInv, DoneInv, Filled
  <2> QED
    BY <1>1, <2>1, <2>2, <2>3 DEF IInv
<1>3. CASE rs.late
  BY <1>1, <1>3 DEF ReadPacket, SpiRead, PacketLen, IInv, SlaveTypeOK
<1> QED
  BY <1>2, <1>3

LEMMA WaitPacketInv == IInv /\ WaitPacket => IInv'
<1> SUFFICES ASSUME IInv, WaitPacket PROVE IInv'
  OBVIOUS
<1>1. SlaveTypeOK'
  <2>1. rs.pwait + 1 \in Nat
    BY DEF IInv, SlaveTypeOK
  <2>2. rs' \in CallType
    <3>1. \/ rs' = [rs EXCEPT !.pc = "idle", !.ret = "timeout"]
          \/ rs' = [rs EXCEPT !.pwait = rs.pwait + 1]
      BY Zenon DEF WaitPacket
    <3> QED
      BY <2>1, <3>1 DEF CallType, IInv, SlaveTypeOK
  <2> QED
    BY <2>2 DEF WaitPacket, CallType, IInv, SlaveTypeOK
<1>2. CASE ~rs.late
  <2>1. HeaderInv'
    BY <1>2 DEF WaitPacket, IInv, SlaveTypeOK, HeaderInv
  <2>2. PacketInv'
    <3>1. /\ rs'.pc \in {"idle", "pwait"} /\ rs'.pos = rs.pos /\ rs'.left = rs.left
          /\ rs'.size = rs.size /\ UNCHANGED <<s_cb_rx_flag, g_rx_buf, image, armed, clocked>>
      BY DEF WaitPacket, IInv, SlaveTypeOK
    <3>2. PacketLen' = PacketLen /\ IsArmed' = IsArmed
      BY <3>1 DEF PacketLen, IsArmed
    <3> QED
      BY <1>2, <3>1, <3>2 DEF WaitPacket, IInv, PacketInv, Filled
  <2>3. DoneInv'
    BY <1>2 DEF WaitPacket, IInv, SlaveTypeOK, PacketInv, DoneInv, Filled, PacketLen
  <2> QED
    BY <1>1, <2>1, <2>2, <2>3 DEF IInv
<1>3. CASE rs.late
  BY <1>1, <1>3 DEF WaitPacket, IInv, SlaveTypeOK
<1> QED
  BY <1>2, <1>3

LEMMA PacketInInv == IInv /\ PacketIn => IInv'
<1> SUFFICES ASSUME IInv, PacketIn PROVE IInv'
  OBVIOUS
<1>1. SlaveTypeOK'
  <2>1. rs.pos + PacketSize \in Nat /\ rs.pos + rs.left \in Nat
        /\ (rs.left > PacketSize => rs.left - PacketSize \in Nat)
    BY DEF IInv, SlaveTypeOK
  <2>2. rs' \in CallType /\ s_cb_rx_flag' \in BOOLEAN
    <3>1. CASE rs.left > PacketSize
      <4>1. /\ rs' = [rs EXCEPT !.pc = "pread", !.pwait = 0, !.left = rs.left - PacketSize,
                                !.pos = rs.pos + PacketSize]
            /\ s_cb_rx_flag' \in BOOLEAN
        BY <3>1, Zenon DEF PacketIn
      <4> QED
        BY <2>1, <3>1, <4>1 DEF CallType, IInv, SlaveTypeOK
    <3>2. CASE ~(rs.left > PacketSize)
      <4>1. /\ rs' = [rs EXCEPT !.pc = "idle", !.left = 0, !.pos = rs.pos + rs.left,
                                !.ret = "ok"]
            /\ s_cb_rx_flag' \in BOOLEAN
        BY <3>2, Zenon DEF PacketIn, IInv, SlaveTypeOK
      <4> QED
        BY <2>1, <4>1 DEF CallType, IInv, SlaveTypeOK
    <3> QED
      BY <3>1, <3>2
  <2> QED
    BY <2>2 DEF PacketIn, CallType, IInv, SlaveTypeOK
<1>2. CASE ~rs.late
  <2>4. /\ rs.pos \in Nat /\ rs.left \in Nat /\ rs.size \in Nat
        /\ clocked \in Nat /\ g_rx_buf.at \in Nat
    <3>1. rs.size \in Sizes \cup {0}
      BY DEF IInv, SlaveTypeOK
    <3> QED
      BY <3>1, SizeBound DEF IInv, SlaveTypeOK
  <2>5. /\ rs.pos >= 1 /\ rs.pos + rs.left = rs.size + 1 /\ rs.size = g_rx_buf.size
        /\ ~IsArmed /\ Filled(rs.pos - 1 + PacketLen)
        /\ clocked = g_rx_buf.at + rs.pos - 1 + PacketLen
    BY <1>2 DEF PacketIn, IInv, PacketInv
  <2>1. HeaderInv'
    BY <1>2 DEF PacketIn, PacketLen, IInv, SlaveTypeOK, HeaderInv
  <2>2. PacketInv'
    <3>1. CASE rs.left > PacketSize
      <4>1. /\ rs'.pc = "pread" /\ rs'.pos = rs.pos + PacketSize
            /\ rs'.left = rs.left - PacketSize /\ rs'.size = rs.size /\ ~s_cb_rx_flag'
        BY <3>1 DEF PacketIn, IInv, SlaveTypeOK
      <4> QED
        BY <2>4, <2>5, <3>1, <4>1 DEF PacketIn, PacketInv, PacketLen, Filled, IsArmed
    <3>2. CASE ~(rs.left > PacketSize)
      <4>1. rs'.pc = "idle"
        BY <3>2 DEF PacketIn, IInv, SlaveTypeOK
      <4> QED
        BY <4>1 DEF PacketInv
    <3> QED
      BY <3>1, <3>2
  <2>3. DoneInv'
    <3>1. CASE rs.left > PacketSize
      <4>1. rs'.pc = "pread" /\ rs'.ret = rs.ret
        BY <3>1 DEF PacketIn, IInv, SlaveTypeOK
      <4> QED
        BY <1>2, <4>1 DEF PacketIn, IInv, DoneInv
    <3>2. CASE ~(rs.left > PacketSize)
      <4>1. /\ rs'.pc = "idle" /\ rs'.size = rs.size
            /\ UNCHANGED <<image, g_rx_buf, armed>>
        BY <3>2 DEF PacketIn, IInv, SlaveTypeOK
      <4>2. Filled(rs.size)
        <5>1. rs.pos - 1 + PacketLen = rs.size
          <6>1. PacketLen = rs.left
            BY <3>2 DEF PacketLen
          <6> QED
            BY <2>4, <2>5, <6>1
        <5> QED
          BY <2>5, <5>1
      <4> QED
        BY <2>5, <4>1, <4>2 DEF DoneInv, Filled, IsArmed
    <3> QED
      BY <3>1, <3>2
  <2> QED
    BY <1>1, <2>1, <2>2, <2>3 DEF IInv
<1>3. CASE rs.late
  BY <1>1, <1>3 DEF PacketIn, PacketLen, IInv, SlaveTypeOK
<1> QED
  BY <1>2, <1>3

LEMMA SlaveInvariant == SlaveSpec => []IInv
<1>1. SlaveInit => IInv
  <2> SUFFICES ASSUME SlaveInit PROVE IInv
    OBVIOUS
  <2>1. SlaveTypeOK
    BY DEF SlaveInit, Cleared, SlaveTypeOK
  <2>2. HeaderInv /\ PacketInv /\ DoneInv
    BY DEF SlaveInit, HeaderInv, PacketInv, DoneInv
  <2> QED
    BY <2>1, <2>2 DEF IInv
<1>2. IInv /\ [SlaveNext]_slaveVars => IInv'
  <2> SUFFICES ASSUME IInv, [SlaveNext]_slaveVars PROVE IInv'
    OBVIOUS
  <2>1. CASE UNCHANGED slaveVars
    <3>1. UNCHANGED <<s_cb_rx_flag, g_rx_buf, image, armed, clocked, rs>>
      BY <2>1 DEF slaveVars
    <3>2. IsArmed' = IsArmed /\ PacketLen' = PacketLen
      BY <3>1 DEF IsArmed, PacketLen
    <3>3. SlaveTypeOK' = SlaveTypeOK
      BY <3>1 DEF SlaveTypeOK
    <3>4. CASE ~rs.late
      BY <3>1, <3>2, <3>3, <3>4 DEF IInv, HeaderInv, PacketInv, DoneInv, Filled
    <3>5. CASE rs.late
      BY <3>1, <3>3, <3>5 DEF IInv
    <3> QED
      BY <3>4, <3>5
  <2> QED
    BY <2>1, ClockInv, ReadImageInv, ReadHeaderInv, WaitHeaderInv, NotAHeaderInv,
       HalfAHeaderInv, AHeaderInv, ReadPacketInv, WaitPacketInv, PacketInInv
    DEF SlaveNext
<1> QED
  BY <1>1, <1>2, PTL DEF SlaveSpec

-----------------------------------------------------------------------------
\* The variables of SlaveRead keep their types.
THEOREM SlaveTypeCorrect == SlaveSpec => []SlaveTypeOK
<1>1. IInv => SlaveTypeOK
  BY DEF IInv
<1> QED
  BY <1>1, SlaveInvariant, PTL

\* A read that found none armed and returns 0 has the image as it came.
THEOREM ImageSound == SlaveSpec => []ImageFollowsHeader
<1>1. IInv => ImageFollowsHeader
  BY DEF IInv, DoneInv, Filled, ImageFollowsHeader
<1> QED
  BY <1>1, SlaveInvariant, PTL

=============================================================================

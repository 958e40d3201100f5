------------------------------ MODULE SpiWrite ------------------------------
(***************************************************************************)
(* The blocking writes of the SPI master (platform/peripheral/spi_m/       *)
(* spi_master_protocol.c) and of the SPI slave (platform/peripheral/spi_s/ *)
(* spi_slave_protocol.c), by which the application sends each result, and  *)
(* the read of the master.                                                 *)
(*                                                                         *)
(* All calls are made on the main thread, one after the other.  A write    *)
(* raises a busy flag, starts the driver, polls the flag and gives up      *)
(* after 3 s; the interrupt of the driver clears the flag.  The drivers    *)
(* are binary libraries: a transfer that was started ends at any time or   *)
(* never, a start or a halt may fail, and a start while a transfer runs is *)
(* refused or replaces it.  Nothing here counts calls, so that the model   *)
(* runs for ever.                                                          *)
(***************************************************************************)
EXTENDS Naturals

CONSTANT MaxPolls          \* polls before a transfer is given up (3000)

ASSUME MaxPollsAssumption == MaxPolls \in Nat

Dev == {"mst", "slv"}
Form == {"sp", "cus"}      \* write_sp / write_simple(_ex), write_cus / write_simple_cus

VARIABLES
  busy,      \* spi_m1_tx_ptl_busy_flag, spis_tx_ptl_busyflag
  rx_busy,   \* spi_m1_rx_ptl_busy_flag
  pin,       \* HANDSHAKE_PIN_TX of the slave
  xfer,      \* what each driver transfers: nothing, the data of the call in
             \* progress ("mine"), or of a call that has returned ("old")
  wr,        \* the write in progress, or the last one
  rd,        \* the read in progress, or the last one
  unhalted,  \* a halt has failed and left a transfer running
  reads      \* reads that returned 0 since the open

writeVars == <<busy, rx_busy, pin, xfer, wr, rd, unhalted, reads>>

Result == {"none", "ok", "fail"}      \* still running, 0, -1

WriteTypeOK ==
  /\ busy \in [Dev -> BOOLEAN]
  /\ rx_busy \in BOOLEAN
  /\ pin \in BOOLEAN
  /\ xfer \in [Dev -> {"none", "mine", "old"}]
  /\ wr \in [pc : {"idle", "pin", "start", "wait", "giveup"}, dev : Dev,
             form : Form, polls : Nat, late : BOOLEAN,
             sent : BOOLEAN, ret : Result]
  /\ rd \in [pc : {"idle", "poll"}, polls : Nat]
  /\ unhalted \in [Dev -> BOOLEAN]
  /\ reads \in Nat

\* After hx_drv_spi_mst_open and hx_drv_spi_slv_open.
WriteInit ==
  /\ busy = [d \in Dev |-> FALSE]
  /\ rx_busy = FALSE
  /\ pin = FALSE
  /\ xfer = [d \in Dev |-> "none"]
  /\ wr = [pc |-> "idle", dev |-> "mst", form |-> "sp", polls |-> 0,
           late |-> FALSE, sent |-> FALSE, ret |-> "none"]
  /\ rd = [pc |-> "idle", polls |-> 0]
  /\ unhalted = [d \in Dev |-> FALSE]
  /\ reads = 0

WriterIdle == wr.pc = "idle" /\ rd.pc = "idle"

-----------------------------------------------------------------------------
(* The writes.                                                             *)

\* The call: refused when the flag is up, else the flag goes up and the
\* callback is registered.
WriteCall(d, f) ==
  /\ WriterIdle
  /\ wr' = [pc   |-> IF busy[d] THEN "idle" ELSE IF d = "slv" THEN "pin" ELSE "start",
            dev  |-> d, form |-> f, polls |-> 0,
            late |-> xfer[d] # "none", sent |-> FALSE,
            ret  |-> IF busy[d] THEN "fail" ELSE "none"]
  /\ busy' = [busy EXCEPT ![d] = TRUE]
  /\ UNCHANGED <<rx_busy, pin, xfer, rd, unhalted, reads>>

\* The slave tells the host that it has something to send.
RaisePin ==
  /\ wr.pc = "pin"
  /\ pin' = TRUE
  /\ wr' = [wr EXCEPT !.pc = "start"]
  /\ UNCHANGED <<busy, rx_busy, xfer, rd, unhalted, reads>>

\* spi_write_ptl or spi_write_ptl_cus, whose result nobody looks at.
StartWrite ==
  /\ wr.pc = "start"
  /\ xfer' \in {xfer, [xfer EXCEPT ![wr.dev] = "mine"]}
  /\ wr' = [wr EXCEPT !.pc = "wait"]
  /\ UNCHANGED <<busy, rx_busy, pin, rd, unhalted, reads>>

\* One turn of the loop: wait 1 ms, count, give up after the last count even
\* if the flag has gone down meanwhile.
\* FAULT: the count starts again.
PollUncounted ==
  /\ wr.pc = "wait" /\ busy[wr.dev]
  /\ wr' = [wr EXCEPT !.polls = 0]
  /\ UNCHANGED <<busy, rx_busy, pin, xfer, rd, unhalted, reads>>

Poll ==
  /\ wr.pc = "wait" /\ busy[wr.dev]
  /\ wr' = [wr EXCEPT !.polls = @ + 1,
                      !.pc = IF wr.polls + 1 > MaxPolls THEN "giveup" ELSE "wait"]
  /\ UNCHANGED <<busy, rx_busy, pin, xfer, rd, unhalted, reads>>

\* A call has returned: what the driver still transfers is that of an old call.
Aged(x) == IF x = "none" THEN "none" ELSE "old"

\* The flag went down: 0.  The form with a header of the user's leaves the
\* pin to the callback.
WriteDone ==
  /\ wr.pc = "wait" /\ ~busy[wr.dev]
  /\ pin' = IF wr.dev = "slv" /\ wr.form # "cus" THEN FALSE ELSE pin
  /\ xfer' = [xfer EXCEPT ![wr.dev] = Aged(@)]
  /\ wr' = [wr EXCEPT !.pc = "idle", !.ret = "ok"]
  /\ UNCHANGED <<busy, rx_busy, rd, unhalted, reads>>

\* The result of the halt is ignored; the flag goes down in any case.
\* FAULT: the driver is not halted.
GiveUpNoHalt ==
  /\ wr.pc = "giveup"
  /\ xfer' = [xfer EXCEPT ![wr.dev] = Aged(@)]
  /\ busy' = [busy EXCEPT ![wr.dev] = FALSE]
  /\ pin' = IF wr.dev = "slv" THEN FALSE ELSE pin
  /\ wr' = [wr EXCEPT !.pc = "idle", !.ret = "fail"]
  /\ UNCHANGED <<rx_busy, rd, unhalted, reads>>

\* FAULT: the flag stays up.
GiveUpBusy ==
  /\ wr.pc = "giveup"
  /\ xfer' = [xfer EXCEPT ![wr.dev] = "none"]
  /\ pin' = IF wr.dev = "slv" THEN FALSE ELSE pin
  /\ wr' = [wr EXCEPT !.pc = "idle", !.ret = "fail"]
  /\ UNCHANGED <<busy, rx_busy, rd, unhalted, reads>>

GiveUp ==
  /\ wr.pc = "giveup"
  /\ xfer' \in {[xfer EXCEPT ![wr.dev] = h] : h \in {"none", Aged(xfer[wr.dev])}}
  /\ unhalted' = [unhalted EXCEPT ![wr.dev] = @ \/ xfer'[wr.dev] # "none"]
  /\ busy' = [busy EXCEPT ![wr.dev] = FALSE]
  /\ pin' = IF wr.dev = "slv" THEN FALSE ELSE pin
  /\ wr' = [wr EXCEPT !.pc = "idle", !.ret = "fail"]
  /\ UNCHANGED <<rx_busy, rd, reads>>

\* spi_m1_callback_ptl_tx, spi_s_callback_ptl_tx: the interrupt at the end of
\* a transfer.  The flag does not say which transfer it was.
\* FAULT: the slave leaves the pin up.
WriteEndsPinStays(d) ==
  /\ xfer[d] # "none"
  /\ xfer' = [xfer EXCEPT ![d] = "none"]
  /\ busy' = [busy EXCEPT ![d] = FALSE]
  /\ wr' = [wr EXCEPT !.sent = @ \/ (xfer[d] = "mine" /\ wr.dev = d)]
  /\ UNCHANGED <<rx_busy, pin, rd, unhalted, reads>>

WriteEnds(d) ==
  /\ xfer[d] # "none"
  /\ xfer' = [xfer EXCEPT ![d] = "none"]
  /\ busy' = [busy EXCEPT ![d] = FALSE]
  /\ pin' = IF d = "slv" THEN FALSE ELSE pin
  /\ wr' = [wr EXCEPT !.sent = @ \/ (xfer[d] = "mine" /\ wr.dev = d)]
  /\ UNCHANGED <<rx_busy, rd, unhalted, reads>>

\* hx_drv_spi_mst_protocol_write_halt, hx_drv_spi_slv_protocol_write_halt:
\* the flag goes down only when the driver has halted.
Halt(d) ==
  /\ WriterIdle
  /\ pin' = IF d = "slv" THEN FALSE ELSE pin
  /\ \/ /\ xfer' = [xfer EXCEPT ![d] = "none"]
        /\ busy' = [busy EXCEPT ![d] = FALSE]
        /\ UNCHANGED unhalted
     \/ /\ unhalted' = [unhalted EXCEPT ![d] = @ \/ xfer[d] # "none"]
        /\ UNCHANGED <<xfer, busy>>
  /\ UNCHANGED <<rx_busy, wr, rd, reads>>

-----------------------------------------------------------------------------
(* The read of the master and the opening of the devices.                  *)

\* hx_drv_spi_mst_protocol_read: refused when the flag is up.
ReadRefused ==
  /\ WriterIdle
  /\ rx_busy
  /\ UNCHANGED writeVars

ReadCall ==
  /\ WriterIdle
  /\ ~rx_busy
  /\ rx_busy' = TRUE
  /\ rd' = [pc |-> "poll", polls |-> 0]
  /\ UNCHANGED <<busy, pin, xfer, wr, unhalted, reads>>

\* The pin of the other side is still low.
ReadPinLow ==
  /\ rd.pc = "poll"
  /\ IF rd.polls + 1 > MaxPolls
     THEN /\ rx_busy' = FALSE
          /\ rd' = [rd EXCEPT !.pc = "idle"]
     ELSE /\ rd' = [rd EXCEPT !.polls = @ + 1]
          /\ UNCHANGED rx_busy
  /\ UNCHANGED <<busy, pin, xfer, wr, unhalted, reads>>

\* The pin is high: the callback is registered, and the call returns 0 with
\* the flag up.  The read itself is commented out.
\* FAULT: the flag goes down.
ReadPinHighClears ==
  /\ rd.pc = "poll"
  /\ rx_busy' = FALSE
  /\ rd' = [rd EXCEPT !.pc = "idle"]
  /\ reads' = reads + 1
  /\ UNCHANGED <<busy, pin, xfer, wr, unhalted>>

ReadPinHigh ==
  /\ rd.pc = "poll"
  /\ rd' = [rd EXCEPT !.pc = "idle"]
  /\ reads' = reads + 1
  /\ UNCHANGED <<busy, rx_busy, pin, xfer, wr, unhalted>>

\* The open functions clear the flags.  Opening an open device may or may not
\* reset the driver; open_speed does.
Open(d) ==
  /\ WriterIdle
  /\ busy' = [busy EXCEPT ![d] = FALSE]
  /\ rx_busy' = (rx_busy /\ d # "mst")
  /\ reads' = IF d = "mst" THEN 0 ELSE reads
  /\ xfer' \in {xfer, [xfer EXCEPT ![d] = "none"]}
  /\ UNCHANGED <<pin, wr, rd, unhalted>>

-----------------------------------------------------------------------------
WriterStep == RaisePin \/ StartWrite \/ Poll \/ WriteDone \/ GiveUp
              \/ ReadPinLow \/ ReadPinHigh

WriterCall == \/ \E d \in Dev, f \in Form : WriteCall(d, f)
              \/ \E d \in Dev : Halt(d) \/ Open(d)
              \/ ReadRefused \/ ReadCall

WriteInterrupt == \E d \in Dev : WriteEnds(d)

WriteNext == WriterStep \/ WriterCall \/ WriteInterrupt

WriteSpec == WriteInit /\ [][WriteNext]_writeVars

-----------------------------------------------------------------------------
(* Properties.                                                             *)

\* A write that returns 0 has been sent as a whole.  The one exception needs a
\* halt that failed: the transfer it left behind ends within a later write and
\* brings the flag down (spi_master_protocol.c:79, spi_slave_protocol.c:98).
ZeroMeansSent ==
  wr.ret = "ok" => wr.sent \/ (wr.late /\ unhalted[wr.dev])

\* Between the calls no flag is up: whatever a transfer did, timeout and late
\* interrupt included, the next write is not refused (spi_master_protocol.c:187,
\* spi_slave_protocol.c:289).
BusyOnlyInCall ==
  \A d \in Dev : busy[d] => wr.dev = d /\ wr.pc # "idle"

\* The handshake pin tells the host the truth: it is up while the driver waits
\* for the host to fetch the write in progress, unless the write began with an
\* old transfer in the driver, whose interrupt lowers the pin; and between the
\* calls it is down when there is nothing to fetch, as long as no halt has
\* failed (spi_slave_protocol.c:97, 297, 316, 342).
PinTellsHost ==
  /\ wr.dev = "slv" /\ wr.pc = "wait" /\ xfer["slv"] = "mine" => pin \/ wr.late
  /\ pin => \/ wr.dev = "slv" /\ wr.pc # "idle"
            \/ xfer["slv"] # "none"
            \/ unhalted["slv"]

\* Nobody starts the read of the master, and so nobody clears its flag: between
\* two opens one read returns 0, and every later one is refused
\* (spi_master_protocol.c:314, 320, 347).
ReadOncePerOpen ==
  /\ reads <= 1
  /\ reads = 1 => rx_busy

=============================================================================

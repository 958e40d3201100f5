---------------------------- MODULE I2cComm_proofs ----------------------------
(***************************************************************************)
(* Proofs about I2cComm, for every set of commands.  What a patient host   *)
(* reads rests on BusyInv, where the handler can be while no read is       *)
(* enabled, and FreshInv, where the answer to the last command can be.     *)
(***************************************************************************)
EXTENDS I2cComm, TLAPS

Running == {"process", "fill", "offer", "clear", "enable", "crashed", "gone"}

BusyInv ==
  /\ event => task = "idle"
  /\ event \/ task \in Running => ~enabled
  /\ task \in {"fill", "offer"} => Answered(gRead_buf)
  /\ reading # "no" => offered
  /\ build # "i2c_rtos" => task # "loop"

Good(a) == /\ a.new
           /\ a.for = asked.kind
           /\ asked.kind # "aux_get" => a.says = asked.kind

\* Before the answer is offered: the command has been heard.
Pending == event \/ task \in {"process", "fill", "offer"}

FreshInv ==
  ~hasty =>
    /\ Answered(gRead_buf) /\ Pending => gRead_buf = asked /\ ~offered
    /\ offered => Good(gWrite_buf)
    /\ answer # NoAnswer => Good(answer)

AnswerInv == I2cTypeOK /\ BusyInv /\ FreshInv

-----------------------------------------------------------------------------
LEMMA I2cTypeInit == ASSUME I2cInit PROVE I2cTypeOK
<1>1. parts \in [Parts -> BOOLEAN]
  <2>1. [p \in Parts |-> FALSE] \in [Parts -> BOOLEAN]
    BY Zenon
  <2>2. [p \in Parts |-> p = "algo"] \in [Parts -> BOOLEAN]
    BY Zenon
  <2> QED
    BY <2>1, <2>2, Zenon DEF I2cInit, PeripheralInit
<1>2. NoAnswer \in Answers
  BY DEF NoAnswer, Answers
<1> QED
  BY <1>1, <1>2 DEF I2cInit, I2cStart, I2cTypeOK, Builds

LEMMA OutdatedType == ASSUME NEW a \in Answers PROVE Outdated(a) \in Answers
  BY DEF Answers, Outdated

LEMMA AnswerType ==
  ASSUME NEW c \in I2cCommand, NEW n \in BOOLEAN
  PROVE  [for |-> c.kind, says |-> Says(c.kind), new |-> n] \in Answers
<1>1. c.kind \in Kinds
  BY DEF I2cCommand
<1>2. Says(c.kind) \in Kinds
  BY <1>1 DEF Says, Kinds, Asks
<1> QED
  BY <1>1, <1>2 DEF Answers

LEMMA HostWritesType ==
  ASSUME I2cTypeOK, NEW c \in I2cCommands, HostWrites(c) PROVE I2cTypeOK'
<1>1. gWrite_buf' \in Answers /\ answer' \in Answers
  BY OutdatedType DEF I2cTypeOK, HostWrites, NoAnswer, Answers
<1>2. hasty' \in BOOLEAN
  BY Zenon DEF HostWrites, Owed
<1>3. UNCHANGED <<build, parts, offered, customer, reading>> /\ asked' \in I2cCommand
  BY I2cCommandsAssumption DEF HostWrites, peripheralVars
<1>4. CASE enabled
  BY <1>1, <1>2, <1>3, <1>4, I2cCommandsAssumption
     DEF I2cTypeOK, HostWrites, Interrupt
<1>5. CASE ~enabled
  BY <1>1, <1>2, <1>3, <1>5 DEF I2cTypeOK, HostWrites
<1> QED
  BY <1>4, <1>5

LEMMA HostReadsType == ASSUME I2cTypeOK, HostReads PROVE I2cTypeOK'
  BY DEF I2cTypeOK, HostReads, peripheralVars

LEMMA HostHasReadType == ASSUME I2cTypeOK, HostHasRead PROVE I2cTypeOK'
<1>1. answer' \in Answers
  BY DEF I2cTypeOK, HostHasRead, NoAnswer, Answers
<1> QED
  BY <1>1 DEF I2cTypeOK, HostHasRead, peripheralVars

LEMMA HostStopsType == ASSUME I2cTypeOK, HostStopsReading PROVE I2cTypeOK'
  BY DEF I2cTypeOK, HostStopsReading, peripheralVars

LEMMA BasicIsParts ==
  ASSUME NEW ps \in [Parts -> BOOLEAN], NEW what, NEW on \in BOOLEAN
  PROVE  Basic(ps, what, on) \in [Parts -> BOOLEAN]
  BY DEF Basic

LEMMA SpiPartsType ==
  ASSUME NEW ps \in [Parts -> BOOLEAN], NEW m
  PROVE  SpiParts(ps, m) \in [Parts -> BOOLEAN]
<1> DEFINE started == [p \in Parts |-> IF p = "algo" THEN ps[p] ELSE p \in m]
<1>1. started \in [Parts -> BOOLEAN]
  <2>1. ASSUME NEW p \in Parts PROVE started[p] \in BOOLEAN
    <3>1. ps[p] \in BOOLEAN
      OBVIOUS
    <3>2. (p \in m) \in BOOLEAN
      OBVIOUS
    <3>3. CASE p = "algo"
      BY <3>1, <3>3
    <3>4. CASE p # "algo"
      <4>1. started[p] = (p \in m)
        BY <3>4, Zenon
      <4> QED
        BY <3>2, <4>1, Zenon
    <3> QED
      BY <3>3, <3>4
  <2> QED
    BY <2>1, Zenon
<1>2. ("disable_algo" \notin m) \in BOOLEAN
  BY Zenon
<1>3. PartsAndAlgo(ps, m) \in [Parts -> BOOLEAN]
  BY <1>1, <1>2, BasicIsParts, Zenon DEF PartsAndAlgo
<1> QED
  BY <1>3, BasicIsParts DEF SpiParts

LEMMA HandlerType == ASSUME I2cTypeOK, HandlerStep PROVE I2cTypeOK'
<1> USE DEF Goes
<1>1. CASE Dispatched \/ Suspend
  BY <1>1 DEF I2cTypeOK, Dispatched, Suspend, peripheralVars
<1>2. CASE BadChecksum \/ ProcessSet \/ ProcessGet \/ OtpFails
  BY <1>2 DEF I2cTypeOK, BadChecksum, ProcessSet, ProcessGet, OtpFails
<1>3. CASE ProcessSpi
  <2>1. parts' \in [Parts -> BOOLEAN]
    BY <1>3, SpiPartsType DEF I2cTypeOK, ProcessSpi
  <2> QED
    BY <1>3, <2>1 DEF I2cTypeOK, ProcessSpi
<1>4. CASE ProcessCustomer \/ JumpToUpgrade
  BY <1>4 DEF I2cTypeOK, ProcessCustomer, JumpToUpgrade
<1>5. CASE Fill
  <2>1. gWrite_buf' \in Answers
    BY <1>5 DEF Fill, NoAnswer, Answers
  <2> QED
    BY <1>5, <2>1 DEF I2cTypeOK, Fill, Changed, peripheralVars
<1>6. CASE ClearCommand \/ EnableRead
  BY <1>6 DEF I2cTypeOK, ClearCommand, EnableRead, peripheralVars
<1>7. CASE Offer
  <2>1. CASE gRead_buf \in I2cCommand
    <3>1. (gRead_buf = asked) \in BOOLEAN
      BY Zenon
    <3>2. gWrite_buf' \in Answers
      BY <1>7, <2>1, <3>1, AnswerType DEF Offer
    <3> QED
      BY <1>7, <3>2 DEF I2cTypeOK, Offer, Changed, peripheralVars
  <2>2. CASE gRead_buf = Unasked
    <3>1. (gRead_buf = asked) \in BOOLEAN
      BY Zenon
    <3>2. gWrite_buf' = [for |-> "none", says |-> "none", new |-> gRead_buf = asked]
      BY <1>7, <2>2 DEF Offer, Unasked, Says
    <3>3. gWrite_buf' \in Answers
      BY <3>1, <3>2 DEF Answers
    <3> QED
      BY <1>7, <3>3 DEF I2cTypeOK, Offer, Changed, peripheralVars
  <2> QED
    BY <2>1, <2>2 DEF I2cTypeOK
<1> QED
  BY <1>1, <1>2, <1>3, <1>4, <1>5, <1>6, <1>7 DEF HandlerStep

LEMMA I2cTypeNext == ASSUME I2cTypeOK, [I2cNext]_linkVars PROVE I2cTypeOK'
<1>1. CASE UNCHANGED linkVars
  BY <1>1 DEF I2cTypeOK, linkVars, peripheralVars, i2cVars
<1> QED
  BY <1>1, HostWritesType, HostReadsType, HostHasReadType, HostStopsType,
     HandlerType DEF I2cNext

\* The variables of the I2C commands keep their types.
THEOREM I2cTypeCorrect == I2cSpec => []I2cTypeOK
  BY I2cTypeInit, I2cTypeNext, PTL DEF I2cSpec

-----------------------------------------------------------------------------
LEMMA BusyInit == ASSUME I2cInit PROVE BusyInv
  BY DEF I2cInit, I2cStart, BusyInv, Running

LEMMA HostBusy ==
  ASSUME I2cTypeOK, BusyInv,
         \/ \E c \in I2cCommands : HostWrites(c)
         \/ HostReads \/ HostHasRead \/ HostStopsReading
  PROVE  BusyInv'
<1> USE DEF BusyInv
<1>1. ASSUME NEW c \in I2cCommands, HostWrites(c) PROVE BusyInv'
  <2>1. CASE enabled
    <3>1. ~event /\ task \in {"idle", "loop"}
      BY <2>1 DEF I2cTypeOK, Running
    <3> QED
      BY <1>1, <2>1, <3>1 DEF HostWrites, Interrupt, peripheralVars, Running,
                              I2cTypeOK, Builds
  <2>2. CASE ~enabled
    BY <1>1, <2>2 DEF HostWrites, peripheralVars
  <2> QED
    BY <2>1, <2>2
<1>2. CASE HostReads
  BY <1>2 DEF HostReads, peripheralVars
<1>3. CASE HostHasRead
  BY <1>3 DEF HostHasRead, peripheralVars
<1>4. CASE HostStopsReading
  BY <1>4 DEF HostStopsReading, peripheralVars
<1> QED
  BY <1>1, <1>2, <1>3, <1>4

LEMMA HandlerBusy == ASSUME I2cTypeOK, BusyInv, HandlerStep PROVE BusyInv'
<1> USE DEF BusyInv
<1>1. CASE Dispatched
  BY <1>1 DEF Dispatched, Running, peripheralVars
<1>2. CASE Suspend
  BY <1>2 DEF Suspend, Running, peripheralVars
<1>3. CASE ProcessGet
  BY <1>3 DEF ProcessGet, Goes, Running
<1>4. CASE BadChecksum \/ ProcessSet \/ OtpFails \/ ProcessSpi
           \/ ProcessCustomer \/ JumpToUpgrade
  <2>1. task = "process" /\ task' \in {"clear", "crashed", "gone"}
    BY <1>4 DEF BadChecksum, ProcessSet, OtpFails, ProcessSpi, ProcessCustomer,
                JumpToUpgrade, Goes
  <2>2. UNCHANGED <<build, enabled, event, offered, reading>>
    BY <1>4 DEF BadChecksum, ProcessSet, OtpFails, ProcessSpi, ProcessCustomer,
                JumpToUpgrade, Goes
  <2> QED
    BY <2>1, <2>2 DEF Running
<1>5. CASE Fill
  BY <1>5 DEF Fill, Changed, Running, peripheralVars
<1>6. CASE Offer
  BY <1>6 DEF Offer, Changed, Running, peripheralVars
<1>7. CASE ClearCommand
  BY <1>7 DEF ClearCommand, Running, peripheralVars
<1>8. CASE EnableRead
  BY <1>8 DEF EnableRead, Running, peripheralVars
<1> QED
  BY <1>1, <1>2, <1>3, <1>4, <1>5, <1>6, <1>7, <1>8 DEF HandlerStep

LEMMA BusyNext == ASSUME I2cTypeOK, BusyInv, [I2cNext]_linkVars PROVE BusyInv'
<1>1. CASE UNCHANGED linkVars
  BY <1>1 DEF BusyInv, linkVars, peripheralVars, i2cVars
<1> QED
  BY <1>1, HostBusy, HandlerBusy DEF I2cNext

\* The slave of the event loop is never deaf between two commands.
THEOREM AlwaysHeard == I2cSpec => []I2cHears
<1>1. I2cInit => I2cHears
  BY DEF I2cInit, I2cStart, I2cHears
<1>2. I2cTypeOK /\ BusyInv /\ I2cHears /\ [I2cNext]_linkVars => I2cHears'
  <2> SUFFICES ASSUME I2cTypeOK, BusyInv, I2cHears, [I2cNext]_linkVars
               PROVE  I2cHears'
    OBVIOUS
  <2>1. ASSUME NEW c \in I2cCommands, HostWrites(c) PROVE I2cHears'
    BY <2>1 DEF I2cHears, HostWrites, Interrupt, peripheralVars
  <2>2. CASE HostReads \/ HostHasRead \/ HostStopsReading
    BY <2>2 DEF I2cHears, HostReads, HostHasRead, HostStopsReading,
                peripheralVars
  <2>3. CASE UNCHANGED linkVars
    BY <2>3 DEF I2cHears, linkVars, peripheralVars, i2cVars
  <2>4. CASE HandlerStep
    <3>1. CASE EnableRead
      BY <3>1 DEF I2cHears, EnableRead
    <3>2. CASE Suspend
      BY <3>2 DEF I2cHears, Suspend, BusyInv, peripheralVars
    <3>3. CASE task' # "idle"
      BY <3>3 DEF I2cHears
    <3> QED
      BY <2>4, <3>1, <3>2, <3>3
         DEF HandlerStep, Dispatched, BadChecksum, ProcessSet, ProcessGet,
             OtpFails, ProcessSpi, ProcessCustomer, JumpToUpgrade, Goes, Fill,
             Offer, ClearCommand
  <2> QED
    BY <2>1, <2>2, <2>3, <2>4 DEF I2cNext
<1>3. I2cInit => BusyInv
  BY BusyInit
<1>4. I2cTypeOK /\ BusyInv /\ [I2cNext]_linkVars => BusyInv'
  BY BusyNext
<1> QED
  BY <1>1, <1>2, <1>3, <1>4, I2cTypeCorrect, PTL DEF I2cSpec

-----------------------------------------------------------------------------
LEMMA FreshInit == ASSUME I2cInit PROVE FreshInv
<1>1. task \in {"loop", "idle"} /\ event = FALSE /\ offered = FALSE /\ answer = NoAnswer
  BY DEF I2cInit, I2cStart
<1> QED
  BY <1>1 DEF FreshInv, Pending

LEMMA HostWritesFresh ==
  ASSUME I2cTypeOK, BusyInv, NEW c \in I2cCommands, HostWrites(c)
  PROVE  FreshInv'
<1> SUFFICES ASSUME ~hasty' PROVE FreshInv'
  BY DEF FreshInv
<1>1. ~offered /\ ~offered' /\ answer' = NoAnswer /\ asked' = c
  BY DEF HostWrites, Owed
<1>2. ~(Answered(gRead_buf) /\ Pending)
  BY DEF HostWrites, Owed, Pending
<1>3. (Answered(gRead_buf) /\ Pending)' => gRead_buf' = asked'
  <2>1. CASE enabled
    BY <2>1, <1>1 DEF HostWrites
  <2>2. CASE ~enabled
    <3>1. (Answered(gRead_buf) /\ Pending)' <=> Answered(gRead_buf) /\ Pending
      BY <2>2 DEF HostWrites, Answered, Pending
    <3> QED
      BY <1>2, <3>1
  <2> QED
    BY <2>1, <2>2
<1> QED
  BY <1>1, <1>3 DEF FreshInv

LEMMA HostReadsFresh ==
  ASSUME I2cTypeOK, BusyInv, FreshInv, HostReads \/ HostHasRead \/ HostStopsReading
  PROVE  FreshInv'
<1>1. CASE HostReads \/ HostStopsReading
  BY <1>1 DEF HostReads, HostStopsReading, FreshInv, Good, Pending, Answered
<1>2. CASE HostHasRead
  <2>1. UNCHANGED <<asked, gRead_buf, gWrite_buf, event, task, hasty>> /\ ~offered'
    BY <1>2 DEF HostHasRead
  <2>2. answer' = NoAnswer \/ answer' = gWrite_buf
    BY <1>2 DEF HostHasRead
  <2>3. offered
    BY <1>2 DEF HostHasRead, BusyInv
  <2>4. Good(gWrite_buf) => Good(gWrite_buf)'
    BY <2>1 DEF Good
  <2>5. (Answered(gRead_buf) /\ Pending)' <=> Answered(gRead_buf) /\ Pending
    BY <2>1 DEF Answered, Pending
  <2> QED
    BY <2>1, <2>2, <2>3, <2>4, <2>5 DEF FreshInv, Good
<1> QED
  BY <1>1, <1>2

\* The steps that touch neither the answer nor the host.
LEMMA QuietFresh ==
  ASSUME FreshInv, UNCHANGED <<asked, gWrite_buf, offered, answer, hasty>>,
         (Answered(gRead_buf) /\ Pending)' =>
            Answered(gRead_buf) /\ Pending /\ gRead_buf' = gRead_buf
  PROVE  FreshInv'
  BY DEF FreshInv, Good

LEMMA HandlerFresh ==
  ASSUME I2cTypeOK, BusyInv, FreshInv, HandlerStep PROVE FreshInv'
<1>1. CASE Dispatched \/ Suspend
  <2>1. (Answered(gRead_buf) /\ Pending)' =>
           Answered(gRead_buf) /\ Pending /\ gRead_buf' = gRead_buf
    BY <1>1 DEF Dispatched, Suspend, Answered, Pending
  <2> QED
    BY <1>1, <2>1, QuietFresh DEF Dispatched, Suspend
<1>2. CASE BadChecksum \/ ProcessSet \/ ProcessGet \/ OtpFails \/ ProcessSpi
           \/ ProcessCustomer \/ JumpToUpgrade
  <2>1. UNCHANGED <<asked, gRead_buf, gWrite_buf, offered, answer, hasty>>
    BY <1>2 DEF BadChecksum, ProcessSet, ProcessGet, OtpFails, ProcessSpi,
                ProcessCustomer, JumpToUpgrade, Goes
  <2>2. task = "process"
    BY <1>2 DEF BadChecksum, ProcessSet, ProcessGet, OtpFails, ProcessSpi,
                ProcessCustomer, JumpToUpgrade, Goes
  <2> QED
    BY <2>1, <2>2, QuietFresh DEF Answered, Pending
<1>3. CASE Fill
  <2>1. Answered(gRead_buf) /\ Pending
    BY <1>3 DEF Fill, BusyInv, Pending
  <2>2. UNCHANGED <<asked, gRead_buf, offered, answer, hasty>>
    BY <1>3 DEF Fill
  <2> QED
    BY <2>1, <2>2 DEF FreshInv, Good
<1>4. CASE Offer
  <2>1. Answered(gRead_buf) /\ Pending
    BY <1>4 DEF Offer, BusyInv, Pending
  <2>2. UNCHANGED <<asked, gRead_buf, answer, hasty>>
    BY <1>4 DEF Offer
  <2>3. ~Pending'
    BY <1>4 DEF Offer, Pending, BusyInv
  <2>4. ~hasty => Good(gWrite_buf)'
    BY <1>4, <2>1 DEF Offer, FreshInv, Good, Says
  <2> QED
    BY <2>2, <2>3, <2>4 DEF FreshInv, Good
<1>5. CASE ClearCommand \/ EnableRead
  <2>1. ~Pending'
    BY <1>5 DEF ClearCommand, EnableRead, Pending, BusyInv
  <2> QED
    BY <1>5, <2>1, QuietFresh DEF ClearCommand, EnableRead
<1> QED
  BY <1>1, <1>2, <1>3, <1>4, <1>5 DEF HandlerStep

LEMMA FreshNext ==
  ASSUME I2cTypeOK, BusyInv, FreshInv, [I2cNext]_linkVars PROVE FreshInv'
<1>1. CASE UNCHANGED linkVars
  BY <1>1 DEF FreshInv, Good, Pending, Answered, linkVars, i2cVars
<1> QED
  BY <1>1, HostWritesFresh, HostReadsFresh, HandlerFresh DEF I2cNext

\* A host that waits for its answers reads the answer to its last command.
THEOREM PatientHostReadsFresh == I2cSpec => []FreshAnswer
<1>1. FreshInv => FreshAnswer
  BY DEF FreshInv, FreshAnswer, Good
<1> QED
  BY <1>1, I2cTypeInit, I2cTypeNext, BusyInit, BusyNext, FreshInit, FreshNext, PTL
     DEF I2cSpec

-----------------------------------------------------------------------------
LEMMA MaskOfParts ==
  ASSUME NEW ps, NEW m, NEW p \in Parts
  PROVE  SpiParts(ps, m)[p] = IF p = "algo" THEN "disable_algo" \notin m
                              ELSE {p, "all_on"} \subseteq m
<1>1. CASE "all_on" \in m
  <2>1. m \ {"disable_algo"} # {}
    BY <1>1
  <2> QED
    BY <1>1, <2>1 DEF SpiParts, PartsAndAlgo, Basic, Parts
<1>2. CASE "all_on" \notin m
  BY <1>2 DEF SpiParts, PartsAndAlgo, Basic, Parts
<1> QED
  BY <1>1, <1>2

\* The bits of the feature SPI leave on what they say, for every mask.
THEOREM MaskMeans == I2cSpec => SpiMaskMeans
<1> DEFINE Action ==
      task = "process" /\ gRead_buf.kind = "spi" /\ gRead_buf.checksum
        => LET m == gRead_buf.mask
           IN  task' = "clear" =>
                 \A p \in Parts :
                   parts'[p] = IF p = "algo" THEN "disable_algo" \notin m
                               ELSE {p, "all_on"} \subseteq m
<1>1. ASSUME [I2cNext]_linkVars PROVE [Action]_linkVars
  <2> SUFFICES ASSUME I2cNext, task = "process", gRead_buf.kind = "spi",
                      gRead_buf.checksum, task' = "clear"
               PROVE  \A p \in Parts :
                        parts'[p] = IF p = "algo" THEN "disable_algo" \notin gRead_buf.mask
                                    ELSE {p, "all_on"} \subseteq gRead_buf.mask
    BY <1>1
  <2>1. ProcessSpi
    BY DEF I2cNext, HostWrites, Interrupt, HostReads, HostHasRead,
           HostStopsReading, HandlerStep, Dispatched, Suspend, BadChecksum,
           ChecksumFails, ProcessSet, ProcessGet, Answered, Asks, AsksOtp,
           OtpFails, ProcessCustomer, JumpToUpgrade, Fill, Offer, ClearCommand,
           EnableRead, Goes
  <2> QED
    BY <2>1, MaskOfParts DEF ProcessSpi
<1> QED
  BY <1>1, PTL DEF I2cSpec, SpiMaskMeans

=============================================================================

-------------------------- MODULE EventHandler_proofs --------------------------
(***************************************************************************)
(* Theorems about EventHandler, for every set of devices, clients'         *)
(* functions, statuses and interleaving of the interrupts with the loop.   *)
(***************************************************************************)
EXTENDS EventHandler, FiniteSetTheorems, TLAPS

(* The sources and their handles.                                          *)

LEMMA SourceFacts ==
  /\ DpAll \subseteq Sources /\ Pins \subseteq Sources /\ Adc \subseteq Sources
  /\ Timers \subseteq Sources /\ Created \subseteq Sources
  /\ First \in Created /\ "ADC_SG" \notin Created /\ "ADC_CFG" \in Adc \ {"ADC_SG"}
  /\ Created \cap MainStates = {}
  /\ \A s \in Sources : s \in Created \/ s = "ADC_SG"
<1>1. First \in Created /\ "ADC_SG" \notin Created /\ "ADC_CFG" \in Adc \ {"ADC_SG"}
  BY DEF Created, Sources, First, Adc
<1>2. Created \cap MainStates = {}
  BY EventHandlerAssumption DEF Created
<1> QED BY <1>1, <1>2 DEF Created, Sources

\* What may raise the event e, on its own account or for want of a handle.
Raises(e) == IF e = First THEN {First, "ADC_SG"} ELSE {e}

LEMMA HandleFacts ==
  ASSUME NEW s \in Sources
  PROVE  Handle(s) \in Created /\ s \in Raises(Handle(s))
BY SourceFacts DEF Handle, Raises

LEMMA SlotFacts ==
  /\ \A t \in Timers : Slot(t) = t /\ t \in Entries
  /\ \A s \in Sources : Slot(s) \in Entries
  /\ "DP" \notin Timers
<1>1. \A t \in Timers : t \notin DpAll /\ t \in Sources
  BY EventHandlerAssumption, SourceFacts
<1> QED BY <1>1 DEF Slot, Entries, Timers

\* An order of a finite set is a sequence that has each member once.
LEMMA OrderFacts ==
  ASSUME NEW S, IsFiniteSet(S), NEW q \in Orders(S)
  PROVE  /\ q \in Seq(S) /\ Len(q) \in Nat /\ DOMAIN q = 1 .. Len(q)
         /\ \A i \in 1 .. Len(q) : q[i] \in S
         /\ \A i, j \in 1 .. Len(q) : q[i] = q[j] => i = j
         /\ \A e \in S : \E i \in 1 .. Len(q) : q[i] = e
<1> DEFINE n == Cardinality(S)
<1>1. n \in Nat
  BY FS_CardinalityType
<1>2. /\ q \in [1 .. n -> S]
      /\ \A e \in S : \E i \in 1 .. n : \A j \in 1 .. n : q[j] = e <=> j = i
  BY DEF Orders
<1> HIDE DEF n
<1>3. q \in Seq(S) /\ Len(q) = n
  BY <1>1, <1>2
<1>4. ASSUME NEW i \in 1 .. n, NEW j \in 1 .. n, q[i] = q[j] PROVE i = j
  <2>1. q[i] \in S
    BY <1>2
  <2>2. PICK k \in 1 .. n : \A m \in 1 .. n : q[m] = q[i] <=> m = k
    BY <1>2, <2>1
  <2> QED BY <1>4, <2>2
<1> QED BY <1>1, <1>2, <1>3, <1>4
-----------------------------------------------------------------------------
(* The inductive invariant.                                                *)

HandlerTypeOK ==
  /\ used \subseteq Sources
  /\ listens \subseteq used
  /\ posts \in [Created -> Nat]
  /\ runnable \in Seq(Created)
  /\ running \in Created \cup MainStates
  /\ registered \in [Entries -> Functions \cup {"i2c", NoFunction}]
  /\ value \in [Stored -> Values \cup {"zero"}]
  /\ reason \in [Created -> SUBSET Sources]
  /\ due \subseteq Sources
  /\ last \in [Adc \ {"ADC_SG"} -> Values \cup {"zero", "shot"}]

\* An event is runnable once, and one whose processing function runs is the
\* first of them.
QueueInv ==
  /\ \A i, j \in DOMAIN runnable : runnable[i] = runnable[j] => i = j
  /\ running \in Created => runnable # <<>> /\ runnable[1] = running

\* OwnInterruptsOnly says this of waiting events; an event that does not wait
\* has been raised by nobody else either.
ReasonInv == \A e \in Created : /\ reason[e] \subseteq Raises(e)
                                /\ Waiting(e) => reason[e] # {}

\* The stored status is the newest one of its channel.
StatusInv == \A s \in Adc \ {"ADC_SG"} : last[s] \in {value[s], "shot"}

\* A timer with a registered function has been started and not stopped since.
TimerInv == \A t \in Timers : registered[t] # NoFunction => t \in listens

IInv == HandlerTypeOK /\ QueueInv /\ ReasonInv /\ StatusInv /\ TimerInv

LEMMA InitIInv == EvtInit => IInv
<1> SUFFICES ASSUME EvtInit PROVE IInv
  OBVIOUS
<1> USE EventHandlerAssumption, SourceFacts, SlotFacts
<1>1. HandlerTypeOK
  <2>1. used \subseteq Sources /\ listens \subseteq used /\ running \in MainStates
    BY DEF EvtInit, MainStates
  <2>2. registered \in [Entries -> Functions \cup {"i2c", NoFunction}]
    BY DEF EvtInit
  <2>3. runnable \in Seq(Created)
    BY DEF EvtInit
  <2> QED BY <2>1, <2>2, <2>3 DEF EvtInit, HandlerTypeOK
<1>2. QueueInv
  <2>1. running \notin Created /\ DOMAIN runnable = {}
    BY DEF EvtInit, MainStates
  <2> QED BY <2>1 DEF QueueInv
<1>3. ReasonInv
  <2>1. \A e \in Created : ~Waiting(e) /\ reason[e] = {}
    BY DEF EvtInit, Waiting, IsRunnable
  <2> QED BY <2>1 DEF ReasonInv
<1>4. StatusInv
  BY DEF EvtInit, StatusInv, Stored
<1>5. TimerInv
  BY DEF EvtInit, TimerInv, First, Timers
<1> QED BY <1>1, <1>2, <1>3, <1>4, <1>5 DEF IInv

\* An interrupt gives its event a reason.
LEMMA RaiseIInv ==
  ASSUME IInv, NEW s \in Sources, Raise(s),
         value' \in [Stored -> Values \cup {"zero"}],
         last' \in [Adc \ {"ADC_SG"} -> Values \cup {"zero", "shot"}],
         StatusInv'
  PROVE  IInv'
<1> USE HandleFacts, SourceFacts DEF IInv
<1> DEFINE h == Handle(s)
<1>1. /\ h \in Created /\ s \in Raises(h)
      /\ posts' = [posts EXCEPT ![h] = @ + 1]
      /\ reason' = [reason EXCEPT ![h] = @ \cup {s}]
      /\ due' = due \cup {s}
      /\ UNCHANGED <<used, listens, runnable, running, registered, told>>
  BY DEF Raise
<1> HIDE DEF h
<1>2. HandlerTypeOK'
  <2>1. posts' \in [Created -> Nat]
    BY <1>1 DEF HandlerTypeOK
  <2>2. reason' \in [Created -> SUBSET Sources]
    BY <1>1 DEF HandlerTypeOK
  <2>3. due' \subseteq Sources
    BY <1>1 DEF HandlerTypeOK
  <2> QED BY <1>1, <2>1, <2>2, <2>3 DEF HandlerTypeOK
<1>3. QueueInv'
  BY <1>1 DEF QueueInv
<1>4. ASSUME NEW e \in Created
      PROVE  reason'[e] \subseteq Raises(e) /\ (Waiting(e)' => reason'[e] # {})
  <2>1. CASE e = h
    BY <1>1, <2>1 DEF HandlerTypeOK, ReasonInv
  <2>2. CASE e # h
    <3>1. reason'[e] = reason[e] /\ posts'[e] = posts[e]
      BY <1>1, <2>2 DEF HandlerTypeOK
    <3> QED BY <1>1, <3>1 DEF ReasonInv, Waiting, IsRunnable
  <2> QED BY <2>1, <2>2
<1>5. TimerInv'
  BY <1>1 DEF TimerInv
<1> QED BY <1>2, <1>3, <1>4, <1>5 DEF ReasonInv

LEMMA InterruptIInv ==
  ASSUME IInv,
         \/ I2cInterrupt \/ DpInterrupt \/ PinInterrupt \/ TimerInterrupt
         \/ AdcInterrupt \/ SingleShotInterrupt
  PROVE  IInv'
<1> USE SourceFacts
<1>0. /\ value \in [Stored -> Values \cup {"zero"}]
      /\ last \in [Adc \ {"ADC_SG"} -> Values \cup {"zero", "shot"}]
      /\ StatusInv
  BY DEF IInv, HandlerTypeOK
<1>1. ASSUME NEW s \in Sources, Raise(s), UNCHANGED <<value, last>> PROVE IInv'
  <2>1. StatusInv'
    BY <1>0, <1>1 DEF StatusInv
  <2> QED BY <1>0, <1>1, <2>1, RaiseIInv
<1>2. CASE I2cInterrupt \/ DpInterrupt \/ PinInterrupt \/ TimerInterrupt
  <2>1. First \in Sources
    OBVIOUS
  <2> QED BY <1>1, <1>2, <2>1 DEF I2cInterrupt, DpInterrupt, PinInterrupt, TimerInterrupt
<1>3. ASSUME NEW s \in Adc \ {"ADC_SG"}, NEW v \in Values, Raise(s),
             value' = [value EXCEPT ![s] = v], last' = [last EXCEPT ![s] = v]
      PROVE  IInv'
  <2>1. s \in Stored /\ s \in Sources
    BY DEF Stored
  <2>2. StatusInv'
    BY <1>0, <1>3, <2>1 DEF StatusInv, Stored
  <2>3. /\ value' \in [Stored -> Values \cup {"zero"}]
        /\ last' \in [Adc \ {"ADC_SG"} -> Values \cup {"zero", "shot"}]
    BY <1>0, <1>3, <2>1
  <2> QED BY <1>3, <2>1, <2>2, <2>3, RaiseIInv
<1>4. ASSUME NEW v \in Values, Raise("ADC_SG"),
             value' = [value EXCEPT !["ADC_CFG"] = v],
             last' = [last EXCEPT !["ADC_CFG"] = "shot"]
      PROVE  IInv'
  <2>1. "ADC_CFG" \in Stored /\ "ADC_SG" \in Sources
    BY DEF Stored, Adc, Sources
  <2>2. StatusInv'
    BY <1>0, <1>4, <2>1 DEF StatusInv, Stored
  <2>3. /\ value' \in [Stored -> Values \cup {"zero"}]
        /\ last' \in [Adc \ {"ADC_SG"} -> Values \cup {"zero", "shot"}]
    BY <1>0, <1>4, <2>1
  <2> QED BY <1>4, <2>1, <2>2, <2>3, RaiseIInv
<1> QED BY <1>2, <1>3, <1>4 DEF AdcInterrupt, SingleShotInterrupt

\* What was posted is runnable behind what was, and no event twice.
LEMMA DrainIInv == ASSUME IInv, Drain PROVE IInv'
<1> USE SourceFacts DEF IInv
<1> DEFINE S == {e \in Created : posts[e] > 0 /\ ~IsRunnable(e)}
<1>1. IsFiniteSet(S)
  <2>1. S \subseteq Sources
    OBVIOUS
  <2> QED BY <2>1, EventHandlerAssumption, FS_Subset
<1>2. PICK q \in Orders(S) : runnable' = runnable \o q
  BY DEF Drain
<1>3. /\ posts' = [e \in Created |-> 0]
      /\ running = "drain" /\ running' = "pick"
      /\ UNCHANGED <<used, listens, registered, value, told, reason, due, last>>
  BY DEF Drain
<1>4. /\ q \in Seq(S) /\ Len(q) \in Nat
      /\ \A i \in 1 .. Len(q) : q[i] \in S
      /\ \A i, j \in 1 .. Len(q) : q[i] = q[j] => i = j
  BY <1>1, OrderFacts
<1>5. \A e \in S : e \in Created /\ posts[e] > 0 /\ ~IsRunnable(e)
  OBVIOUS
<1> HIDE DEF S
<1> DEFINE n == Len(runnable)
<1>6. runnable \in Seq(Created) /\ n \in Nat /\ DOMAIN runnable = 1 .. n
  BY DEF HandlerTypeOK
<1>7. q \in Seq(Created)
  <2>1. \A i \in 1 .. Len(q) : q[i] \in Created
    BY <1>4, <1>5
  <2> QED BY <1>4, <2>1
<1>8. /\ runnable' \in Seq(Created)
      /\ DOMAIN runnable' = 1 .. n + Len(q)
      /\ \A i \in 1 .. n + Len(q) :
           runnable'[i] = IF i <= n THEN runnable[i] ELSE q[i - n]
  BY <1>2, <1>4, <1>6, <1>7
<1> HIDE DEF n
<1>9. running \notin Created /\ running' \notin Created /\ running' \in MainStates
  BY <1>3 DEF MainStates
<1>10. HandlerTypeOK'
  BY <1>3, <1>8, <1>9 DEF HandlerTypeOK
<1>11. ASSUME NEW i \in 1 .. n + Len(q)
       PROVE  \/ i \in 1 .. n /\ runnable'[i] = runnable[i] /\ IsRunnable(runnable'[i])
              \/ i - n \in 1 .. Len(q) /\ runnable'[i] = q[i - n] /\ q[i - n] \in S
  <2>1. CASE i <= n
    BY <1>6, <1>8, <2>1 DEF IsRunnable
  <2>2. CASE i > n
    <3>1. i - n \in 1 .. Len(q)
      BY <1>4, <1>6, <2>2
    <3> QED BY <1>4, <1>6, <1>8, <2>2, <3>1
  <2> QED BY <1>4, <1>6, <2>1, <2>2
<1>12. QueueInv'
  <2>1. ASSUME NEW i \in 1 .. n + Len(q), NEW j \in 1 .. n + Len(q),
               runnable'[i] = runnable'[j]
        PROVE  i = j
    <3>1. CASE i \in 1 .. n /\ j \in 1 .. n
      BY <1>6, <1>8, <2>1, <3>1 DEF QueueInv
    <3>2. CASE i - n \in 1 .. Len(q) /\ j - n \in 1 .. Len(q)
      <4>1. i - n = j - n
        BY <1>4, <1>6, <1>8, <2>1, <3>2
      <4> QED BY <1>6, <4>1
    <3>3. CASE i \in 1 .. n /\ j - n \in 1 .. Len(q)
      BY <1>5, <1>6, <1>11, <2>1, <3>3
    <3>4. CASE j \in 1 .. n /\ i - n \in 1 .. Len(q)
      BY <1>5, <1>6, <1>11, <2>1, <3>4
    <3> QED BY <1>11, <3>1, <3>2, <3>3, <3>4
  <2> QED BY <1>8, <1>9, <2>1 DEF QueueInv
<1>13. ReasonInv'
  <2> SUFFICES ASSUME NEW e \in Created
               PROVE  /\ reason[e] \subseteq Raises(e)
                      /\ Waiting(e)' => reason[e] # {}
    BY <1>3 DEF ReasonInv
  <2>1. ASSUME Waiting(e)' PROVE Waiting(e)
    <3>1. PICK i \in 1 .. n + Len(q) : runnable'[i] = e
      BY <1>3, <1>8, <2>1 DEF Waiting, IsRunnable
    <3>2. IsRunnable(e) \/ e \in S
      BY <1>11, <3>1
    <3> QED BY <1>5, <1>9, <3>2 DEF Waiting
  <2> QED BY <2>1 DEF ReasonInv
<1>14. StatusInv' /\ TimerInv'
  BY <1>3 DEF StatusInv, TimerInv
<1> QED BY <1>10, <1>12, <1>13, <1>14

\* The turns of the loop that run nothing.
LEMMA TurnIInv == ASSUME IInv, Begin \/ Idle PROVE IInv'
<1> USE SourceFacts DEF IInv
<1>1. /\ running \in {"main", "pick"} /\ running' = "drain"
      /\ UNCHANGED <<used, listens, posts, runnable, registered, value, told, reason,
                     due, last>>
  BY DEF Begin, Idle
<1>2. running \notin Created /\ running' \notin Created /\ running' \in MainStates
  BY <1>1 DEF MainStates
<1>3. HandlerTypeOK'
  BY <1>1, <1>2 DEF HandlerTypeOK
<1>4. QueueInv'
  BY <1>1, <1>2 DEF QueueInv
<1>5. \A e \in Created : Waiting(e)' <=> Waiting(e)
  BY <1>1, <1>2 DEF Waiting, IsRunnable
<1>6. ReasonInv'
  BY <1>1, <1>5 DEF ReasonInv
<1>7. StatusInv' /\ TimerInv'
  BY <1>1 DEF StatusInv, TimerInv
<1> QED BY <1>3, <1>4, <1>6, <1>7

\* A processing function starts: what is posted by then keeps its reason.
LEMMA CallIInv == ASSUME IInv, NEW e \in Created, Call(e) PROVE IInv'
<1> USE SourceFacts DEF IInv
<1>1. /\ running = "pick" /\ runnable # <<>> /\ e = Head(runnable) /\ running' = e
      /\ reason' = [reason EXCEPT ![e] = IF posts[e] = 0 THEN {} ELSE @]
      /\ due' = due \ {e}
      /\ UNCHANGED <<used, listens, posts, runnable, registered, value, last>>
  BY DEF Call, DpCall, PinCall, AdcCall, TimerCall, I2cCall, Reports
<1>2. running \notin Created /\ runnable[1] = e
  BY <1>1 DEF MainStates, HandlerTypeOK
<1>3. HandlerTypeOK'
  <2>1. reason' \in [Created -> SUBSET Sources]
    BY <1>1 DEF HandlerTypeOK
  <2> QED BY <1>1, <2>1 DEF HandlerTypeOK
<1>4. QueueInv'
  BY <1>1, <1>2 DEF QueueInv
<1>5. ReasonInv'
  <2> SUFFICES ASSUME NEW f \in Created
               PROVE  /\ reason'[f] \subseteq Raises(f)
                      /\ Waiting(f)' => reason'[f] # {}
    BY DEF ReasonInv
  <2>1. CASE f = e
    <3>1. Waiting(e)' => posts[e] > 0
      BY <1>1 DEF Waiting
    <3>2. posts[e] > 0 => Waiting(e) /\ reason'[e] = reason[e]
      BY <1>1 DEF Waiting, HandlerTypeOK
    <3>3. reason'[e] \subseteq reason[e]
      BY <1>1 DEF HandlerTypeOK
    <3> QED BY <2>1, <3>1, <3>2, <3>3 DEF ReasonInv
  <2>2. CASE f # e
    <3>1. reason'[f] = reason[f] /\ (Waiting(f)' => Waiting(f))
      BY <1>1, <1>2, <2>2 DEF Waiting, IsRunnable, HandlerTypeOK
    <3> QED BY <3>1 DEF ReasonInv
  <2> QED BY <2>1, <2>2
<1>6. StatusInv' /\ TimerInv'
  BY <1>1 DEF StatusInv, TimerInv
<1> QED BY <1>3, <1>4, <1>5, <1>6

\* CLEAR takes the event that ran, and no other, from the runnable ones.
LEMMA ReturnIInv == ASSUME IInv, Return PROVE IInv'
<1> USE SourceFacts DEF IInv
<1>1. /\ running \in Created /\ running' = "drain" /\ runnable' = Tail(runnable)
      /\ UNCHANGED <<used, listens, posts, registered, value, reason, due, last>>
  BY DEF Return
<1>2. runnable \in Seq(Created) /\ runnable # <<>> /\ runnable[1] = running
  BY <1>1 DEF HandlerTypeOK, QueueInv
<1> DEFINE n == Len(runnable)
<1>3. /\ n \in Nat /\ n > 0 /\ DOMAIN runnable = 1 .. n
      /\ runnable' \in Seq(Created) /\ DOMAIN runnable' = 1 .. n - 1
      /\ \A i \in 1 .. n - 1 : runnable'[i] = runnable[i + 1]
  BY <1>1, <1>2
<1> HIDE DEF n
<1>4. running' \notin Created /\ running' \in MainStates
  BY <1>1 DEF MainStates
<1>5. HandlerTypeOK'
  BY <1>1, <1>3, <1>4 DEF HandlerTypeOK
<1>6. QueueInv'
  <2>1. ASSUME NEW i \in 1 .. n - 1, NEW j \in 1 .. n - 1, runnable'[i] = runnable'[j]
        PROVE  i = j
    <3>1. i + 1 \in 1 .. n /\ j + 1 \in 1 .. n /\ runnable[i + 1] = runnable[j + 1]
      BY <1>3, <2>1
    <3>2. i + 1 = j + 1
      BY <1>3, <3>1 DEF QueueInv
    <3> QED BY <3>2
  <2> QED BY <1>3, <1>4, <2>1 DEF QueueInv
<1>7. ReasonInv'
  <2> SUFFICES ASSUME NEW e \in Created
               PROVE  /\ reason[e] \subseteq Raises(e)
                      /\ Waiting(e)' => reason[e] # {}
    BY <1>1 DEF ReasonInv
  <2>1. ASSUME Waiting(e)' PROVE Waiting(e)
    <3>1. CASE posts[e] > 0
      BY <3>1 DEF Waiting
    <3>2. CASE ~(posts[e] > 0)
      <4>1. PICK i \in 1 .. n - 1 : runnable'[i] = e
        BY <1>1, <1>3, <2>1, <3>2 DEF Waiting, IsRunnable
      <4>2. i + 1 \in 1 .. n /\ i + 1 # 1 /\ runnable[i + 1] = e /\ 1 \in 1 .. n
        BY <1>3, <4>1
      <4>3. e # running
        BY <1>2, <1>3, <4>2 DEF QueueInv
      <4> QED BY <1>3, <4>2, <4>3 DEF Waiting, IsRunnable
    <3> QED BY <3>1, <3>2
  <2> QED BY <2>1 DEF ReasonInv
<1>8. StatusInv' /\ TimerInv'
  BY <1>1 DEF StatusInv, TimerInv
<1> QED BY <1>5, <1>6, <1>7, <1>8

\* What registering and stopping leave alone keeps its part of the invariant.
LEMMA SameQueue ==
  ASSUME IInv, UNCHANGED <<posts, runnable, running, reason>>
  PROVE  QueueInv' /\ ReasonInv'
<1>1. QueueInv'
  BY DEF IInv, QueueInv
<1>2. \A e \in Created : Waiting(e)' <=> Waiting(e)
  BY DEF Waiting, IsRunnable
<1> QED BY <1>1, <1>2 DEF IInv, ReasonInv

\* A client registers its function for some sources; a timer it registers for
\* is started, and every registration keeps the started ones started.
LEMMA RegistersIInv ==
  ASSUME IInv, NEW slots, NEW f \in Functions, NEW sources,
         Registers(slots, f, sources),
         \A t \in Timers : t \in slots => t \in sources \cap used,
         value' \in [Stored -> Values \cup {"zero"}],
         \A s \in Adc \ {"ADC_SG"} : value'[s] = value[s]
  PROVE  IInv'
<1> USE SourceFacts, SlotFacts DEF IInv
<1>1. /\ registered' = [s \in Entries |-> IF s \in slots THEN f ELSE registered[s]]
      /\ listens' = listens \cup (sources \cap used)
      /\ UNCHANGED <<used, posts, runnable, running, told, reason, due, last>>
  BY DEF Registers
<1>2. HandlerTypeOK'
  <2>1. registered' \in [Entries -> Functions \cup {"i2c", NoFunction}]
    BY <1>1 DEF HandlerTypeOK
  <2> QED BY <1>1, <2>1 DEF HandlerTypeOK
<1>3. QueueInv' /\ ReasonInv'
  BY <1>1, SameQueue
<1>4. StatusInv'
  BY <1>1 DEF StatusInv
<1>5. TimerInv'
  BY <1>1 DEF TimerInv
<1> QED BY <1>2, <1>3, <1>4, <1>5

LEMMA ClientIInv ==
  ASSUME IInv,
         RegisterDp \/ RegisterPin \/ AdcInit \/ AdcRegister \/ TimerStart \/ TimerStop
  PROVE  IInv'
<1> USE EventHandlerAssumption, SourceFacts, SlotFacts
<1>0. value \in [Stored -> Values \cup {"zero"}]
  BY DEF IInv, HandlerTypeOK
<1>1. CASE RegisterDp
  BY <1>0, <1>1, RegistersIInv DEF RegisterDp
<1>2. CASE RegisterPin
  <2>1. PICK f \in Functions, p \in Pins \cap used :
          Registers({p}, f, {p}) /\ UNCHANGED value
    BY <1>2 DEF RegisterPin
  <2>2. p \notin Timers
    OBVIOUS
  <2> QED BY <1>0, <2>1, <2>2, RegistersIInv
<1>3. CASE AdcInit
  BY <1>0, <1>3, RegistersIInv DEF AdcInit
<1>4. CASE AdcRegister
  <2>1. PICK f \in Functions, s \in Adc \cap used :
          Registers({s}, f, {}) /\ UNCHANGED value
    BY <1>4 DEF AdcRegister
  <2>2. s \notin Timers
    OBVIOUS
  <2> QED BY <1>0, <2>1, <2>2, RegistersIInv
<1>5. CASE TimerStart
  <2>1. PICK f \in Functions, t \in Timers \cap used, v \in Values :
          Registers({t}, f, {t}) /\ value' = [value EXCEPT ![t] = v]
    BY <1>5 DEF TimerStart
  <2>2. \A s \in Adc \ {"ADC_SG"} : s # t /\ s \in Stored
    BY DEF Stored
  <2>3. /\ value' \in [Stored -> Values \cup {"zero"}]
        /\ \A s \in Adc \ {"ADC_SG"} : value'[s] = value[s]
    BY <1>0, <2>1, <2>2
  <2> QED BY <2>1, <2>3, RegistersIInv
<1>6. CASE TimerStop
  <2>1. PICK t \in Timers : Stops(t, NoFunction)
    BY <1>6 DEF TimerStop
  <2>2. /\ listens' = listens \ {t}
        /\ registered' = [registered EXCEPT ![t] = NoFunction]
        /\ value' = [value EXCEPT ![t] = "zero"]
        /\ UNCHANGED <<used, posts, runnable, running, told, reason, due, last>>
    BY <2>1 DEF Stops
  <2>3. \A s \in Adc \ {"ADC_SG"} : s # t /\ s \in Stored
    BY DEF Stored
  <2>4. HandlerTypeOK'
    <3>1. registered' \in [Entries -> Functions \cup {"i2c", NoFunction}]
      BY <2>2 DEF IInv, HandlerTypeOK
    <3>2. value' \in [Stored -> Values \cup {"zero"}]
      BY <1>0, <2>2
    <3> QED BY <2>2, <3>1, <3>2 DEF IInv, HandlerTypeOK
  <2>5. QueueInv' /\ ReasonInv'
    BY <2>2, SameQueue
  <2>6. StatusInv'
    BY <1>0, <2>2, <2>3 DEF IInv, StatusInv
  <2>7. TimerInv'
    BY <2>2 DEF IInv, HandlerTypeOK, TimerInv
  <2> QED BY <2>4, <2>5, <2>6, <2>7 DEF IInv
<1> QED BY <1>1, <1>2, <1>3, <1>4, <1>5, <1>6

\* What infra_evt_clear leaves of the runnable events: each of them once, the
\* running one still the first, and none of those cleared but that one.
LEMMA StaysFacts ==
  ASSUME IInv, NEW E, NEW from \in Orders(Stays(E)),
         \A i, j \in DOMAIN from : i < j => from[i] < from[j],
         runnable' = [i \in DOMAIN from |-> runnable[from[i]]]
  PROVE  /\ runnable' \in Seq(Created)
         /\ \A i, j \in DOMAIN runnable' : runnable'[i] = runnable'[j] => i = j
         /\ \A i \in DOMAIN runnable' :
              IsRunnable(runnable'[i]) /\ (runnable'[i] \notin E \/ runnable'[i] = running)
         /\ running \in Created => runnable' # <<>> /\ runnable'[1] = running
<1> DEFINE n == Len(runnable)
<1>1. /\ runnable \in Seq(Created) /\ n \in Nat /\ DOMAIN runnable = 1 .. n
      /\ \A i \in 1 .. n : runnable[i] \in Created
  BY DEF IInv, HandlerTypeOK
<1>2. IsFiniteSet(Stays(E))
  <2>1. IsFiniteSet(1 .. n)
    BY <1>1, FS_Interval
  <2>2. Stays(E) \subseteq 1 .. n
    BY <1>1 DEF Stays
  <2> QED BY <2>1, <2>2, FS_Subset
<1> HIDE DEF n
<1> DEFINE m == Len(from)
<1>3. /\ from \in Seq(Stays(E)) /\ m \in Nat /\ DOMAIN from = 1 .. m
      /\ \A i \in 1 .. m : from[i] \in Stays(E)
      /\ \A i, j \in 1 .. m : from[i] = from[j] => i = j
      /\ \A p \in Stays(E) : \E i \in 1 .. m : from[i] = p
  BY <1>2, OrderFacts
<1> HIDE DEF m
<1>4. \A i \in 1 .. m : /\ from[i] \in 1 .. n
                        /\ runnable[from[i]] \notin E \/ runnable[from[i]] = running
  BY <1>1, <1>3 DEF Stays
<1>5. runnable' \in [1 .. m -> Created]
  BY <1>1, <1>3, <1>4
<1>6. runnable' \in Seq(Created) /\ DOMAIN runnable' = 1 .. m /\ Len(runnable') = m
  BY <1>3, <1>5
<1>7. \A i \in 1 .. m : runnable'[i] = runnable[from[i]]
  BY <1>3
<1>8. ASSUME NEW i \in 1 .. m, NEW j \in 1 .. m, runnable'[i] = runnable'[j]
      PROVE  i = j
  <2>1. from[i] = from[j]
    BY <1>1, <1>4, <1>7, <1>8 DEF IInv, QueueInv
  <2> QED BY <1>3, <2>1
<1>9. ASSUME running \in Created PROVE runnable' # <<>> /\ runnable'[1] = running
  <2>1. 1 \in Stays(E) /\ runnable[1] = running
    BY <1>1, <1>9 DEF IInv, QueueInv, Stays
  <2>2. PICK i \in 1 .. m : from[i] = 1
    BY <1>3, <2>1
  <2>3. i = 1
    <3> SUFFICES ASSUME i # 1 PROVE FALSE
      OBVIOUS
    <3>1. 1 \in 1 .. m /\ 1 < i
      BY <1>3
    <3>2. from[1] < 1 /\ from[1] \in 1 .. n
      BY <1>3, <1>4, <2>2, <3>1
    <3> QED BY <1>1, <3>2
  <2> QED BY <1>3, <1>6, <1>7, <2>1, <2>2, <2>3
<1> QED BY <1>1, <1>4, <1>6, <1>7, <1>8, <1>9 DEF IsRunnable

LEMMA ClearsIInv == ASSUME IInv, NEW E, Clears(E) PROVE IInv'
<1> USE SourceFacts
<1>1. PICK from \in Orders(Stays(E)) :
        /\ \A i, j \in DOMAIN from : i < j => from[i] < from[j]
        /\ runnable' = [i \in DOMAIN from |-> runnable[from[i]]]
  BY DEF Clears
<1>2. /\ posts' = [e \in Created |-> IF e \in E /\ posts[e] > 0 THEN posts[e] - 1
                                     ELSE posts[e]]
      /\ due' = due \ E
      /\ reason' = [e \in Created |-> IF e \in E /\ posts'[e] = 0 THEN {}
                                      ELSE reason[e]]
      /\ UNCHANGED <<used, listens, running, registered, value, told, last>>
  BY DEF Clears
<1>3. /\ runnable' \in Seq(Created)
      /\ \A i, j \in DOMAIN runnable' : runnable'[i] = runnable'[j] => i = j
      /\ \A i \in DOMAIN runnable' :
           IsRunnable(runnable'[i]) /\ (runnable'[i] \notin E \/ runnable'[i] = running)
      /\ running \in Created => runnable' # <<>> /\ runnable'[1] = running
  BY <1>1, StaysFacts
<1>4. posts \in [Created -> Nat] /\ reason \in [Created -> SUBSET Sources]
  BY DEF IInv, HandlerTypeOK
<1>5. posts' \in [Created -> Nat]
  BY <1>2, <1>4
<1>6. HandlerTypeOK'
  <2>1. reason' \in [Created -> SUBSET Sources]
    BY <1>2, <1>4
  <2>2. due' \subseteq Sources
    BY <1>2 DEF IInv, HandlerTypeOK
  <2> QED BY <1>2, <1>3, <1>5, <2>1, <2>2 DEF IInv, HandlerTypeOK
<1>7. QueueInv'
  BY <1>2, <1>3 DEF QueueInv
<1>8. ReasonInv'
  <2> SUFFICES ASSUME NEW e \in Created
               PROVE  /\ reason'[e] \subseteq Raises(e)
                      /\ Waiting(e)' => reason'[e] # {}
    BY DEF ReasonInv
  <2>1. reason'[e] \subseteq reason[e]
    BY <1>2
  <2>2. ASSUME Waiting(e)' PROVE Waiting(e) /\ reason'[e] = reason[e]
    <3>1. CASE posts'[e] > 0
      <4>1. posts[e] > 0 /\ posts'[e] # 0
        BY <1>2, <1>4, <1>5, <3>1
      <4> QED BY <1>2, <4>1 DEF Waiting
    <3>2. CASE ~(posts'[e] > 0)
      <4>1. PICK i \in DOMAIN runnable' : runnable'[i] = e /\ e # running
        BY <1>2, <2>2, <3>2 DEF Waiting, IsRunnable
      <4>2. IsRunnable(e) /\ e \notin E
        BY <1>3, <4>1
      <4> QED BY <1>2, <4>1, <4>2 DEF Waiting
    <3> QED BY <3>1, <3>2
  <2> QED BY <2>1, <2>2 DEF IInv, ReasonInv
<1>9. StatusInv' /\ TimerInv'
  BY <1>2 DEF IInv, StatusInv, TimerInv
<1> QED BY <1>6, <1>7, <1>8, <1>9 DEF IInv

LEMMA HandlerInvariant == EvtSpec => []IInv
<1>1. EvtInit => IInv
  BY InitIInv
<1>2. IInv /\ [EvtNext]_evtVars => IInv'
  <2> SUFFICES ASSUME IInv, [EvtNext]_evtVars PROVE IInv'
    OBVIOUS
  <2>1. CASE \/ I2cInterrupt \/ DpInterrupt \/ PinInterrupt \/ TimerInterrupt
             \/ AdcInterrupt \/ SingleShotInterrupt
    BY <2>1, InterruptIInv
  <2>2. CASE LoopStep
    BY <2>2, TurnIInv, DrainIInv, ReturnIInv, CallIInv DEF LoopStep
  <2>3. CASE RegisterDp \/ RegisterPin \/ AdcInit \/ AdcRegister \/ TimerStart \/ TimerStop
    BY <2>3, ClientIInv
  <2>4. CASE ClearDp \/ ClearPins \/ ClearSensorRtc
    BY <2>4, ClearsIInv DEF ClearDp, ClearPins, ClearSensorRtc
  <2>5. CASE UNCHANGED evtVars
    <3>1. QueueInv' /\ ReasonInv'
      BY <2>5, SameQueue DEF evtVars
    <3> QED BY <2>5, <3>1 DEF evtVars, IInv, HandlerTypeOK, StatusInv, TimerInv
  <2> QED BY <2>1, <2>2, <2>3, <2>4, <2>5 DEF EvtNext
<1> QED BY <1>1, <1>2, PTL DEF EvtSpec
-----------------------------------------------------------------------------
(* Results.                                                                *)

\* Every variable of the event handler keeps its type; interrupts are enabled
\* only for devices the program uses.
THEOREM HandlerTypeCorrect == EvtSpec => []HandlerTypeOK
<1>1. IInv => HandlerTypeOK
  BY DEF IInv
<1> QED BY <1>1, HandlerInvariant, PTL

\* evt_datapath.c:208: a processing function runs for interrupts of its own
\* device only, but for the event with handle zero, which single-shot
\* conversions raise too.
THEOREM RunsForItsDevice == EvtSpec => []OwnInterruptsOnly
<1>1. IInv => OwnInterruptsOnly
  BY DEF IInv, ReasonInv, Raises, OwnInterruptsOnly
<1> QED BY <1>1, HandlerInvariant, PTL

\* Only a call of Reports leaves "pick" for an event.
LEMMA ReportsOnly ==
  ASSUME IInv, EvtNext, running = "pick", NEW e \in Sources, running' = e,
         told'.fn # NoFunction
  PROVE  Call(e)
<1>1. running \notin Created /\ e \notin MainStates
  BY EventHandlerAssumption, SourceFacts DEF MainStates
<1>2. e # running
  BY <1>1 DEF MainStates
<1> QED
  BY <1>1, <1>2
     DEF EvtNext, I2cInterrupt, DpInterrupt, PinInterrupt, TimerInterrupt, AdcInterrupt,
         SingleShotInterrupt, Raise, LoopStep, Begin, Drain, Idle, Return, MainStates,
         RegisterDp, RegisterPin, AdcInit, AdcRegister, TimerStart, TimerStop, Stops,
         Registers, ClearDp, ClearPins, ClearSensorRtc, Clears,
         Call, DpCall, PinCall, AdcCall, TimerCall, I2cCall, Reports

\* evt_datapath.c:83, 203: the client of an ADC channel is told its newest
\* status, or that of the single-shot conversion that replaced it.
THEOREM NewestIsTold == EvtSpec => ToldTheNewest
<1> DEFINE Newest ==
      \A e \in Adc \ {"ADC_SG"} :
        running = "pick" /\ running' = e /\ told'.fn # NoFunction
          => last[e] \in {told'.arg, "shot"}
<1>1. IInv /\ [EvtNext]_evtVars => [Newest]_evtVars
  <2> SUFFICES ASSUME IInv, EvtNext, NEW e \in Adc \ {"ADC_SG"},
                      running = "pick", running' = e, told'.fn # NoFunction
               PROVE  last[e] \in {told'.arg, "shot"}
    OBVIOUS
  <2>1. Call(e)
    BY ReportsOnly, SourceFacts
  <2>2. e \notin DpAll \cup Pins \cup Timers /\ e # First
    BY EventHandlerAssumption
  <2>3. told'.arg = value[e]
    BY <2>1, <2>2 DEF Call, DpCall, PinCall, AdcCall, TimerCall, I2cCall, Reports
  <2> QED BY <2>3 DEF IInv, StatusInv
<1> QED BY <1>1, HandlerInvariant, PTL DEF EvtSpec, ToldTheNewest

\* evt_datapath.c:1733: a timer that was stopped calls nobody, though its last
\* tick may still be posted or runnable.
THEOREM StoppedTimersAreSilent == EvtSpec => StoppedTimerIsSilent
<1> DEFINE Silent ==
      \A t \in Timers :
        running = "pick" /\ running' = t /\ told'.fn # NoFunction => t \in listens
<1>1. IInv /\ [EvtNext]_evtVars => [Silent]_evtVars
  <2> SUFFICES ASSUME IInv, EvtNext, NEW t \in Timers,
                      running = "pick", running' = t, told'.fn # NoFunction
               PROVE  t \in listens
    OBVIOUS
  <2>1. Call(t)
    BY ReportsOnly, SourceFacts
  <2>2. told'.fn = registered[t]
    BY <2>1, SlotFacts DEF Call, DpCall, PinCall, AdcCall, TimerCall, I2cCall, Reports
  <2> QED BY <2>2 DEF IInv, TimerInv
<1> QED BY <1>1, HandlerInvariant, PTL DEF EvtSpec, StoppedTimerIsSilent
===============================================================================

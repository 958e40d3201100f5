----------------------------- MODULE EventHandler -----------------------------
(***************************************************************************)
(* The event handler (event_handler.c) and the devices whose interrupts it *)
(* turns into events (evt_datapath/evt_datapath.c): datapath, pins, ADC    *)
(* and the two timers.  An interrupt stores its status and raises the      *)
(* event of its handle; the processing function of the event, on the main  *)
(* thread, calls the function a client has registered, with the status as  *)
(* it then is.                                                             *)
(*                                                                         *)
(* Of the event loop (EventLoop) the module has what holds for events of   *)
(* one priority, as these are: it makes what is posted runnable, in any    *)
(* order but behind what is, runs the first and starts over.  A program    *)
(* uses some of the devices; the build has EVT_I2CCOMM and EVT_DATAPATH.   *)
(***************************************************************************)
EXTENDS Naturals, Sequences, FiniteSets

CONSTANTS
  Dp, Rs, Hog,   \* events of the datapath, by the type of callback they go to
  Pins,          \* PGPIO0 to PGPIO14, SGPIO0 and SGPIO1
  Channels,      \* ADC_CH0 to ADC_CH3
  Functions,     \* what clients register
  NoFunction,    \* NULL
  Values,        \* statuses of the ADC, intervals of the timers
  Programs,      \* each is the devices one program uses
  MaxPosts       \* bound: copies of an event in the buffer of the interrupts

\* The event that event_handler_init creates first has handle 0.
First   == "I2CS_RX"
Timers  == {"SENSOR_RTC", "ADC_RTC"}
DpTypes == {Dp \cup {"SENSOR_RTC_FIRE"}, Rs, Hog}
DpAll   == UNION DpTypes
Adc     == Channels \cup {"ADC_CFG", "ADC_SG"}
Sources == {First} \cup DpAll \cup Pins \cup Adc \cup Timers

\* event_handler_init leaves one out.
Created == Sources \ {"ADC_SG"}

\* What the main thread does when no processing function runs.
MainStates == {"main", "drain", "pick"}

\* The drivers name their interrupts apart.
ASSUME EventHandlerAssumption ==
  /\ NoFunction \notin Functions
  /\ Programs \subseteq SUBSET Sources
  /\ MaxPosts \in Nat \ {0}
  /\ IsFiniteSet(Sources)
  /\ Sources \cap (MainStates \cup {"DP"}) = {}
  /\ First \notin DpAll \cup Pins \cup Adc
  /\ DpAll \cap (Pins \cup Adc \cup Timers) = {}
  /\ Pins \cap (Adc \cup Timers) = {}
  /\ Adc \cap Timers = {}

\* g_event: the handle of an event that was not created is still zero.
\* FAULT: it is that of the event before it.
HandleBefore(s) == IF s \in Created THEN s ELSE "ADC_CFG"

Handle(s) == IF s \in Created THEN s ELSE First

\* The datapath has one function for all its events.
Slot(s) == IF s \in DpAll THEN "DP" ELSE s
Entries == {Slot(s) : s \in Sources}

VARIABLES
  used,        \* the devices of this program
  listens,     \* sources whose interrupts are enabled
  posts,       \* copies of each event in the buffer of the interrupts
  runnable,    \* the runnable events, the first one first
  running,     \* the event whose processing function runs; "main": start-up;
               \* "drain", "pick": the loop
  registered,  \* g_event_cb, g_gpio_event_cb, g_adc_*_event_cb, g_*RTC_event_cb
  value,       \* g_adc_*_event, g_sensor_rtc_interval, g_adc_rtc_interval
  told,        \* the call of a client's function under way
  reason,      \* which sources have raised an event that has not run since
  due,         \* sources whose last interrupt has been neither reported nor
               \* cleared by a client
  last         \* status of each ADC source's last interrupt; "shot" if a
               \* single-shot conversion has ended since

evtVars == <<used, listens, posts, runnable, running, registered, value, told,
             reason, due, last>>

Stored == (Adc \ {"ADC_SG"}) \cup Timers
Nobody == [fn |-> NoFunction, arg |-> "zero"]

EvtInit ==
  /\ used \in Programs
  /\ listens = used \cap {First}
  /\ posts = [e \in Created |-> 0]
  /\ runnable = <<>>
  /\ running = "main"
  /\ registered = [s \in Entries |-> IF s = First THEN "i2c" ELSE NoFunction]
  /\ value = [s \in Stored |-> "zero"]
  /\ told = Nobody
  /\ reason = [e \in Created |-> {}]
  /\ due = {}
  /\ last = [s \in Adc \ {"ADC_SG"} |-> "zero"]

-----------------------------------------------------------------------------
(* Interrupts.                                                             *)

Raise(s) ==
  /\ s \in listens
  /\ posts[Handle(s)] < MaxPosts
  /\ posts' = [posts EXCEPT ![Handle(s)] = @ + 1]
  /\ reason' = [reason EXCEPT ![Handle(s)] = @ \cup {s}]
  /\ due' = due \cup {s}
  /\ UNCHANGED <<used, listens, runnable, running, registered, told>>

I2cInterrupt == Raise(First) /\ UNCHANGED <<value, last>>

\* event_dplib_cb; the statuses it raises nothing for are no sources.
DpInterrupt == \E s \in DpAll : Raise(s) /\ UNCHANGED <<value, last>>

PinInterrupt == \E p \in Pins : Raise(p) /\ UNCHANGED <<value, last>>

\* sensor_rtc_timer_dump, adc_rtc_timer_dump
TimerInterrupt == \E t \in Timers : Raise(t) /\ UNCHANGED <<value, last>>

\* adcc_callback_ch_*, adcc_constrain_cb
\* FAULT: the status is not stored while the event is due.
AdcInterruptKeeps ==
  \E s \in Adc \ {"ADC_SG"}, v \in Values :
    /\ Raise(s)
    /\ value' = IF posts[s] = 0 THEN [value EXCEPT ![s] = v] ELSE value
    /\ last' = [last EXCEPT ![s] = v]

AdcInterrupt ==
  \E s \in Adc \ {"ADC_SG"}, v \in Values :
    /\ Raise(s)
    /\ value' = [value EXCEPT ![s] = v]
    /\ last' = [last EXCEPT ![s] = v]

\* adcc_sg_cb: the status goes where that of adcc_constrain_cb is.
SingleShotInterrupt ==
  \E v \in Values :
    /\ Raise("ADC_SG")
    /\ value' = [value EXCEPT !["ADC_CFG"] = v]
    /\ last' = [last EXCEPT !["ADC_CFG"] = "shot"]

-----------------------------------------------------------------------------
(* The event loop and the processing functions.                            *)

\* The sequences in which each member of S has one place.
Orders(S) ==
  {q \in [1 .. Cardinality(S) -> S] :
     \A e \in S : \E i \in DOMAIN q : \A j \in DOMAIN q : q[j] = e <=> j = i}

IsRunnable(e) == \E i \in DOMAIN runnable : runnable[i] = e

Drain ==
  /\ running = "drain"
  /\ \E q \in Orders({e \in Created : posts[e] > 0 /\ ~IsRunnable(e)}) :
       runnable' = runnable \o q
  /\ posts' = [e \in Created |-> 0]
  /\ running' = "pick"
  /\ UNCHANGED <<used, listens, registered, value, told, reason, due, last>>

Idle ==
  /\ running = "pick"
  /\ runnable = <<>>
  /\ running' = "drain"
  /\ UNCHANGED <<used, listens, posts, runnable, registered, value, told, reason,
                 due, last>>

Reports(e, arg) ==
  /\ running = "pick"
  /\ runnable # <<>>
  /\ e = Head(runnable)
  /\ running' = e
  /\ told' = [fn |-> registered[Slot(e)], arg |-> arg]
  /\ reason' = [reason EXCEPT ![e] = IF posts[e] = 0 THEN {} ELSE @]
  /\ due' = due \ {e}
  /\ UNCHANGED <<used, listens, posts, runnable, registered, value, last>>

DpCall(e)  == e \in DpAll /\ Reports(e, e)
PinCall(e) == e \in Pins /\ Reports(e, "one")
AdcCall(e) == e \in Adc /\ Reports(e, value[e])

\* evt_SensorRTC_cb, evt_ADCRTC_cb
TimerCall(e) == e \in Timers /\ Reports(e, value[e])

\* evt_i2ccomm_rx_cb
I2cCall(e) == e = First /\ Reports(e, "zero")

Call(e) == DpCall(e) \/ PinCall(e) \/ AdcCall(e) \/ TimerCall(e) \/ I2cCall(e)

\* The processing function returns CLEAR.
\* FAULT: what interrupts have posted meanwhile is cleared with it.
ReturnForgets ==
  /\ running \in Created
  /\ runnable' = Tail(runnable)
  /\ posts' = [posts EXCEPT ![running] = 0]
  /\ running' = "drain"
  /\ told' = Nobody
  /\ UNCHANGED <<used, listens, registered, value, reason, due, last>>

Return ==
  /\ running \in Created
  /\ runnable' = Tail(runnable)
  /\ running' = "drain"
  /\ told' = Nobody
  /\ UNCHANGED <<used, listens, posts, registered, value, reason, due, last>>

\* event_handler_start
Begin ==
  /\ running = "main"
  /\ running' = "drain"
  /\ UNCHANGED <<used, listens, posts, runnable, registered, value, told, reason,
                 due, last>>

LoopStep == \/ Begin \/ Drain \/ Idle \/ Return
            \/ \E e \in Created : Call(e)

-----------------------------------------------------------------------------
(* What clients call, at start-up or from their functions.                 *)

Client == running = "main" \/ told.fn # NoFunction

Registers(slots, f, sources) ==
  /\ Client
  /\ registered' = [s \in Entries |-> IF s \in slots THEN f ELSE registered[s]]
  /\ listens' = listens \cup (sources \cap used)
  /\ UNCHANGED <<used, posts, runnable, running, told, reason, due, last>>

\* hx_dplib_evthandler_register_cb
RegisterDp ==
  \E f \in Functions, type \in DpTypes :
    /\ type \cap used # {}
    /\ Registers({"DP"}, f, type)
    /\ UNCHANGED value

\* hx_gpio_evthandler_register_cb
RegisterPin ==
  \E f \in Functions, p \in Pins \cap used :
    Registers({p}, f, {p}) /\ UNCHANGED value

\* hx_ADC_evthandler_init
AdcInit ==
  \E f \in Functions :
    /\ Adc \cap used # {}
    /\ Registers(Adc, f, Adc)
    /\ UNCHANGED value

\* hx_ADCCh_evthandler_register_cb
AdcRegister ==
  \E f \in Functions, s \in Adc \cap used :
    Registers({s}, f, {}) /\ UNCHANGED value

\* hx_SensorRTC_evthdl_register_cb, hx_ADCRTC_evthdl_register_cb
TimerStart ==
  \E f \in Functions, t \in Timers \cap used, v \in Values :
    /\ Registers({t}, f, {t})
    /\ value' = [value EXCEPT ![t] = v]

\* The same with an interval of 0.
Stops(t, fn) ==
  /\ Client
  /\ listens' = listens \ {t}
  /\ registered' = [registered EXCEPT ![t] = fn]
  /\ value' = [value EXCEPT ![t] = "zero"]
  /\ UNCHANGED <<used, posts, runnable, running, told, reason, due, last>>

\* FAULT: the function stays.
TimerStopKeeps == \E t \in Timers \cap used : Stops(t, registered[t])

TimerStop == \E t \in Timers \cap used : Stops(t, NoFunction)

\* What infra_evt_clear leaves: the running event, and the others in their order.
Stays(E) == {i \in DOMAIN runnable : runnable[i] \notin E \/ runnable[i] = running}

\* infra_evt_clear, and infra_evt_clear_ISR_pendingevent, which removes one copy.
Clears(E) ==
  /\ Client
  /\ E \cap used # {}
  /\ \E from \in Orders(Stays(E)) :
       /\ \A i, j \in DOMAIN from : i < j => from[i] < from[j]
       /\ runnable' = [i \in DOMAIN from |-> runnable[from[i]]]
  /\ posts' = [e \in Created |-> IF e \in E /\ posts[e] > 0 THEN posts[e] - 1
                                 ELSE posts[e]]
  /\ due' = due \ E
  /\ reason' = [e \in Created |-> IF e \in E /\ posts'[e] = 0 THEN {}
                                  ELSE reason[e]]
  /\ UNCHANGED <<used, listens, running, registered, value, told, last>>

\* evt_dp_clear_all_dpevent, evt_dp_clear_allgpio, evt_dp_clear_sensor_rtc
ClearDp        == Clears(DpAll \ {"SENSOR_RTC_FIRE"})
ClearPins      == Clears(Pins)
ClearSensorRtc == Clears({"SENSOR_RTC_FIRE"})

-----------------------------------------------------------------------------
EvtNext ==
  \/ I2cInterrupt \/ DpInterrupt \/ PinInterrupt \/ TimerInterrupt
  \/ AdcInterrupt \/ SingleShotInterrupt
  \/ LoopStep
  \/ RegisterDp \/ RegisterPin \/ AdcInit \/ AdcRegister
  \/ TimerStart \/ TimerStop
  \/ ClearDp \/ ClearPins \/ ClearSensorRtc

EvtSpec == EvtInit /\ [][EvtNext]_evtVars

-----------------------------------------------------------------------------
(* Properties.                                                             *)

Waiting(e) == posts[e] > 0 \/ (IsRunnable(e) /\ e # running)

\* A processing function runs for interrupts of its own device.  The exception
\* is the event created first, the one a command of the host raises: it also
\* runs for every single-shot conversion, whose event is raised but never
\* created (evt_datapath.c:208).
OwnInterruptsOnly ==
  \A e \in Created :
    Waiting(e) => /\ reason[e] # {}
                  /\ reason[e] \subseteq
                       IF e = First THEN {First, "ADC_SG"} ELSE {e}

\* Whatever has come between an interrupt of the ADC and its report, the client
\* is told the newest status of that channel (evt_datapath.c:83); the status of
\* the constraint interrupt is that of a single-shot conversion if one has ended
\* since (evt_datapath.c:203).
ToldTheNewest ==
  [][\A e \in Adc \ {"ADC_SG"} :
       running = "pick" /\ running' = e /\ told'.fn # NoFunction
         => last[e] \in {told'.arg, "shot"}]_evtVars

\* A timer that was stopped calls nobody, though its last tick may still be
\* waiting (evt_datapath.c:1733).
StoppedTimerIsSilent ==
  [][\A t \in Timers :
       running = "pick" /\ running' = t /\ told'.fn # NoFunction
         => t \in listens]_evtVars

\* Every interrupt is reported to the function that was registered last, for
\* whichever type of callback (evt_datapath.c:1570), or cleared by a client.
\* That of a single-shot conversion is reported to nobody.
EveryInterruptReported == \A s \in Created : s \in due ~> s \notin due

=============================================================================

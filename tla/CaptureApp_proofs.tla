--------------------------- MODULE CaptureApp_proofs ---------------------------
(****************************************************************************)
(* Proofs about CaptureApp, for every set of faults, every retry limit and  *)
(* every number of posts between two turns of the loop.                     *)
(****************************************************************************)
EXTENDS CaptureApp, TLAPS

\* A datapath that is off, or waits for a trigger, raises no fault.
LEMMA FaultStreams ==
    ASSUME NEW f \in Faults
    PROVE  FaultyIn(f) \subseteq {"live", "hung", "deaf"}
  BY CaptureAssumption DEF FaultyIn, FaultEvents

\* What the primitives of the event loop do to the pending events.
LEMMA PostType ==
    ASSUME TypeOK, NEW e \in Events, Post(e)
    PROVE  isr' \in [Events -> 0 .. MaxPosts]
  BY CaptureAssumption DEF TypeOK, Post

LEMMA TakeType ==
    ASSUME TypeOK, NEW e \in Events, Take(e)
    PROVE  /\ runnable' \subseteq Events
           /\ isr' \in [Events -> 0 .. MaxPosts]
  BY CaptureAssumption DEF TypeOK, Take, Due

LEMMA ClearType ==
    ASSUME TypeOK, evt_dp_clear_all_dpevent
    PROVE  /\ runnable' \subseteq Events
           /\ isr' \in [Events -> 0 .. MaxPosts]
  BY CaptureAssumption DEF TypeOK, evt_dp_clear_all_dpevent

-------------------------------------------------------------------------------
\* The two counters reach their limit only on the way into a reset, and no
\* callback runs, let alone counts, between that and the start-up.
TypeInv ==
    /\ TypeOK
    /\ pc # "reset" => err_retry_cnt < MaxErr /\ rtc_err_retry_cnt < RtcReboot

LEMMA InitType == Init => TypeInv
<1> SUFFICES ASSUME Init PROVE TypeInv
  OBVIOUS
<1>1. isr \in [Events -> 0 .. MaxPosts]
  BY CaptureAssumption DEF Init, PowerUp
<1>2. /\ err_retry_cnt \in 0 .. MaxErr /\ err_retry_cnt < MaxErr
      /\ rtc_err_retry_cnt \in 0 .. RtcReboot /\ rtc_err_retry_cnt < RtcReboot
  BY CaptureAssumption DEF Init, PowerUp
<1> QED BY <1>1, <1>2 DEF Init, PowerUp, TypeInv, TypeOK, States, Streams

LEMMA HardwareType ==
    ASSUME TypeInv, Hardware
    PROVE  TypeInv'
<1>1. CASE HwFrame
  <2>1. isr' \in [Events -> 0 .. MaxPosts]
    BY <1>1, PostType DEF TypeInv, HwFrame, Events, DpEvents
  <2> QED BY <1>1, <2>1 DEF HwFrame, TypeInv, TypeOK, app, counts, timer, Streams
<1>2. ASSUME NEW f \in Faults, HwFault(f)
      PROVE  TypeInv'
  <2>1. isr' \in [Events -> 0 .. MaxPosts]
    BY <1>2, PostType, CaptureAssumption DEF TypeInv, HwFault, Events, DpEvents
  <2> QED BY <1>2, <2>1 DEF HwFault, TypeInv, TypeOK, app, counts, timer, Streams
<1>3. CASE HwTick
  <2>1. isr' \in [Events -> 0 .. MaxPosts]
    BY <1>3, PostType DEF TypeInv, HwTick, Events
  <2> QED BY <1>3, <2>1 DEF HwTick, TypeInv, TypeOK, app, counts, timer
<1> QED BY <1>1, <1>2, <1>3 DEF Hardware

LEMMA CallbackType ==
    ASSUME TypeInv, Callback
    PROVE  TypeInv'
<1> USE DEF TypeInv
<1>1. CASE SensorReady
  BY <1>1 DEF SensorReady, TypeOK, app, counts, timer, events
<1>2. CASE SensorDead
  BY <1>2 DEF SensorDead, TypeOK, app, counts, timer, events
<1>3. CASE Setup
  <2>1. runnable' \subseteq Events /\ isr' \in [Events -> 0 .. MaxPosts]
    BY <1>3, ClearType DEF Setup
  <2> QED BY <1>3, <2>1 DEF Setup, TypeOK, States, counts, timer
<1>4. CASE Start
  BY <1>4, CaptureAssumption DEF Start, TypeOK, Streams, app, counts, events
<1>5. CASE StopClear
  <2>1. runnable' \subseteq Events /\ isr' \in [Events -> 0 .. MaxPosts]
    BY <1>5, ClearType DEF StopClear
  <2> QED BY <1>5, <2>1 DEF StopClear, TypeOK, app, counts
<1>6. CASE StopHalt
  BY <1>6 DEF StopHalt, TypeOK, States, Streams, counts, timer, events
<1>7. CASE Retrigger
  BY <1>7 DEF Retrigger, TypeOK, Streams, app, counts, timer, events
<1>8. CASE XdmaError \/ WdtError \/ ParserError
  <2>1. CountError /\ pc # "reset"
    BY <1>8 DEF XdmaError, WdtError, ParserError
  <2>2. /\ err_retry_cnt' \in 0 .. MaxErr
        /\ pc' \in {"setup", "reset"}
        /\ pc' # "reset" => err_retry_cnt' < MaxErr
    BY <2>1, CaptureAssumption DEF TypeOK, CountError
  <2>3. stream' \in Streams /\ flags' \subseteq Flags
    BY <1>8 DEF XdmaError, WdtError, ParserError, TypeOK, Streams
  <2>4. UNCHANGED <<app_cur_state, app_new_state, frame_process_done,
                    rtc_err_retry_cnt, timer, classification_rtc, events, back>>
    BY <1>8 DEF XdmaError, WdtError, ParserError
  <2> QED BY <2>1, <2>2, <2>3, <2>4 DEF TypeOK, timer, events
<1>9. CASE FrameReady
  BY <1>9, CaptureAssumption DEF FrameReady, TypeOK, app, timer, events
<1>10. CASE NoFrame
  BY <1>10 DEF NoFrame, TypeOK, app, counts, timer, events
<1>11. CASE Algorithm
  BY <1>11 DEF Algorithm, TypeOK, counts, timer, events
<1>12. CASE Finish
  <2>1. pc' \in {"loop", "retrigger", "stop"}
    BY <1>12 DEF Finish, AfterFrame
  <2> QED BY <1>12, <2>1 DEF Finish, TypeOK, counts, timer, events
<1>13. CASE Abandon
  <2>1. runnable' \subseteq Events /\ isr' \in [Events -> 0 .. MaxPosts]
    BY <1>13, ClearType DEF Abandon
  <2> QED BY <1>13, <2>1 DEF Abandon, TypeOK, Streams, app, counts, timer
<1>14. CASE Reboot
  <2>1. isr' \in [Events -> 0 .. MaxPosts]
    BY <1>14, CaptureAssumption DEF Reboot
  <2>2. /\ err_retry_cnt' \in 0 .. MaxErr /\ err_retry_cnt' < MaxErr
        /\ rtc_err_retry_cnt' \in 0 .. RtcReboot /\ rtc_err_retry_cnt' < RtcReboot
    BY <1>14, CaptureAssumption DEF Reboot
  <2> QED BY <1>14, <2>1, <2>2 DEF Reboot, TypeOK, States, Streams
<1> QED
  BY <1>1, <1>2, <1>3, <1>4, <1>5, <1>6, <1>7, <1>8, <1>9, <1>10, <1>11, <1>12,
     <1>13, <1>14 DEF Callback

LEMMA DpEventType ==
    ASSUME TypeInv, NEW e \in DpEvents, DpEvent(e)
    PROVE  TypeInv'
<1>1. e \in Events
  BY DEF Events
<1>2. runnable' \subseteq Events /\ isr' \in [Events -> 0 .. MaxPosts]
  BY <1>1, TakeType DEF DpEvent, TypeInv
<1>3. FlagOf(e) \subseteq Flags
  BY DEF FlagOf, Flags, DpEvents, FaultEvents
<1>4. stream' \in Streams
  BY DEF DpEvent, TypeInv, TypeOK, Streams
<1>5. pc # "reset"
  BY DEF DpEvent, Take
<1> QED BY <1>2, <1>3, <1>4, <1>5 DEF DpEvent, TypeInv, TypeOK, counts, timer

LEMMA TickType ==
    ASSUME TypeInv, Tick
    PROVE  TypeInv'
<1> USE DEF TypeInv
<1>1. Take("TICK")
  BY DEF Tick, TickIgnored, TickOfFrame, TickWithoutFrame
<1>2. runnable' \subseteq Events /\ isr' \in [Events -> 0 .. MaxPosts]
  BY <1>1, TakeType DEF Events
<1>3. pc = "loop"
  BY <1>1 DEF Take
<1>4. CASE TickIgnored
  BY <1>2, <1>4 DEF TickIgnored, TypeOK, app, counts, timer
<1>5. CASE TickOfFrame
  <2>1. pc' \in {"stop", "retrigger", "setup", "loop"}
    BY <1>5 DEF TickOfFrame, NextOfTick
  <2>2. rtc_err_retry_cnt' \in 0 .. RtcReboot /\ rtc_err_retry_cnt' < RtcReboot
    BY <1>5, CaptureAssumption DEF TickOfFrame
  <2> QED BY <1>2, <1>3, <1>5, <2>1, <2>2 DEF TickOfFrame, TypeOK, timer
<1>6. CASE TickWithoutFrame
  <2>1. /\ rtc_err_retry_cnt' \in 0 .. RtcReboot
        /\ pc' \in {"reset", "abandon", "loop"}
        /\ pc' # "reset" => rtc_err_retry_cnt' < RtcReboot
    BY <1>3, <1>6, CaptureAssumption DEF TickWithoutFrame, TypeOK
  <2> QED BY <1>2, <1>3, <1>6, <2>1 DEF TickWithoutFrame, TypeOK, app, timer
<1> QED BY <1>4, <1>5, <1>6 DEF Tick

LEMMA StepKeepsType ==
    ASSUME TypeInv, Next
    PROVE  TypeInv'
<1>1. CASE AskToStop
  BY <1>1 DEF AskToStop, TypeInv, TypeOK, States, counts, timer, events
<1>2. CASE StartAgain
  BY <1>2 DEF StartAgain, TypeInv, TypeOK, app, counts, timer, events
<1> QED
  BY <1>1, <1>2, HardwareType, CallbackType, DpEventType, TickType DEF Next

LEMMA TypeInvHolds == Spec => []TypeInv
<1>1. TypeInv /\ UNCHANGED vars => TypeInv'
  BY DEF vars, TypeInv, TypeOK
<1>2. TypeInv /\ [Next]_vars => TypeInv'
  BY <1>1, StepKeepsType
<1> QED BY InitType, <1>2, PTL DEF Spec

\* Every variable keeps its type: in particular g_hw5x5jpeg_err_retry_cnt and
\* g_rtc_err_retry_cnt never pass the limits that reset the board, whatever
\* errors, frames and ticks come in whatever order.
THEOREM TypeCorrect == Spec => []TypeOK
<1>1. TypeInv => TypeOK
  BY DEF TypeInv
<1> QED BY <1>1, TypeInvHolds, PTL

-------------------------------------------------------------------------------
\* A stop turns the timer off before the datapath, and a start leaves the STOP
\* state before it touches either.
QuietInv ==
    /\ StoppedIsQuiet
    /\ pc = "halt" => ~rtc_on /\ ~rtc_cb
    /\ pc = "start" => app_cur_state = "FACE_LIVE"

LEMMA HardwareKeepsQuiet ==
    ASSUME QuietInv, Hardware
    PROVE  QuietInv'
<1> USE DEF QuietInv, StoppedIsQuiet
<1>1. CASE HwFrame
  BY <1>1 DEF HwFrame, app, timer
<1>2. ASSUME NEW f \in Faults, HwFault(f)
      PROVE  QuietInv'
  BY <1>2, FaultStreams DEF HwFault, app, timer
<1>3. CASE HwTick
  BY <1>3 DEF HwTick, app, timer
<1> QED BY <1>1, <1>2, <1>3 DEF Hardware

LEMMA CallbackKeepsQuiet ==
    ASSUME TypeInv, QuietInv, Callback
    PROVE  QuietInv'
<1> USE DEF QuietInv, StoppedIsQuiet
<1>1. CASE SensorReady \/ SensorDead
  BY <1>1 DEF SensorReady, SensorDead, app, timer
<1>2. CASE Setup
  BY <1>2 DEF Setup, timer
<1>3. CASE Start
  BY <1>3 DEF Start, app, TypeInv, TypeOK
<1>4. CASE StopClear \/ StopHalt
  BY <1>4 DEF StopClear, StopHalt, app, timer
<1>5. CASE Retrigger
  BY <1>5 DEF Retrigger, app, timer
<1>6. CASE XdmaError \/ WdtError \/ ParserError
  BY <1>6 DEF XdmaError, WdtError, ParserError, CountError, timer
<1>7. CASE FrameReady \/ NoFrame
  BY <1>7 DEF FrameReady, NoFrame, app, timer
<1>8. CASE Algorithm \/ Finish
  BY <1>8 DEF Algorithm, Finish, AfterFrame, timer
<1>9. CASE Abandon \/ Reboot
  BY <1>9 DEF Abandon, Reboot, app, timer
<1> QED
  BY <1>1, <1>2, <1>3, <1>4, <1>5, <1>6, <1>7, <1>8, <1>9 DEF Callback

LEMMA EventKeepsQuiet ==
    ASSUME QuietInv, (\E e \in DpEvents : DpEvent(e)) \/ Tick
    PROVE  QuietInv'
<1> USE DEF QuietInv, StoppedIsQuiet
<1>1. CASE \E e \in DpEvents : DpEvent(e)
  BY <1>1 DEF DpEvent, timer
<1>2. CASE TickIgnored
  BY <1>2 DEF TickIgnored, Take, app, timer
<1>3. CASE TickOfFrame
  BY <1>3 DEF TickOfFrame, NextOfTick, timer
<1>4. CASE TickWithoutFrame
  BY <1>4 DEF TickWithoutFrame, app, timer
<1> QED BY <1>1, <1>2, <1>3, <1>4 DEF Tick

LEMMA QuietInvHolds == Spec => []QuietInv
<1>1. Init => QuietInv
  BY DEF Init, PowerUp, QuietInv, StoppedIsQuiet
<1>2. TypeInv /\ QuietInv /\ [Next]_vars => QuietInv'
  <2> SUFFICES ASSUME TypeInv, QuietInv, [Next]_vars PROVE QuietInv'
    OBVIOUS
  <2>1. CASE AskToStop \/ StartAgain
    BY <2>1 DEF AskToStop, StartAgain, QuietInv, StoppedIsQuiet, app, timer
  <2>2. CASE UNCHANGED vars
    BY <2>2 DEF vars, QuietInv, StoppedIsQuiet
  <2> QED
    BY <2>1, <2>2, HardwareKeepsQuiet, CallbackKeepsQuiet, EventKeepsQuiet
    DEF Next
<1> QED BY <1>1, <1>2, TypeInvHolds, PTL DEF Spec

\* app_stop_cv: whatever faults, ticks and requests interleave with a stop, an
\* application in the STOP state has its datapath off and no timer running.
THEOREM StopIsQuiet == Spec => []StoppedIsQuiet
<1>1. QuietInv => StoppedIsQuiet
  BY DEF QuietInv
<1> QED BY <1>1, QuietInvHolds, PTL

-------------------------------------------------------------------------------
\* With sources that fire once between two turns of the loop, a clear leaves no
\* event of the datapath, and a datapath that is off raises none.
CleanInv == pc = "start" /\ stream = "off" => Due \cap DpEvents = {}

LEMMA ClearRemovesAll ==
    ASSUME TypeOK, MaxPosts = 1, evt_dp_clear_all_dpevent
    PROVE  Due' \cap DpEvents = {}
<1>1. \A e \in DpEvents : e \in Events /\ isr[e] \in 0 .. 1
  BY DEF TypeOK, Events
<1>2. \A e \in DpEvents : isr'[e] = 0
  BY <1>1 DEF evt_dp_clear_all_dpevent
<1> QED BY <1>2 DEF evt_dp_clear_all_dpevent, Due, Events

LEMMA StepKeepsClean ==
    ASSUME MaxPosts = 1, TypeInv, CleanInv, Next
    PROVE  CleanInv'
<1>1. CASE Hardware
  <2>1. CASE HwFrame
    BY <2>1 DEF HwFrame, CleanInv
  <2>2. ASSUME NEW f \in Faults, HwFault(f)
        PROVE  CleanInv'
    BY <2>2, FaultStreams DEF HwFault, CleanInv
  <2>3. CASE HwTick
    <3>1. \A e \in DpEvents : e \in Events /\ isr'[e] = isr[e]
      BY <2>3 DEF HwTick, Post, TypeInv, TypeOK, Events, DpEvents, FaultEvents
    <3>2. Due' \cap DpEvents = Due \cap DpEvents
      BY <2>3, <3>1 DEF HwTick, Due
    <3> QED BY <2>3, <3>2 DEF HwTick, CleanInv
  <2> QED BY <1>1, <2>1, <2>2, <2>3 DEF Hardware
<1>2. CASE Callback
  <2>1. CASE Setup
    BY <2>1, ClearRemovesAll DEF Setup, TypeInv, CleanInv
  <2>2. CASE Start
    BY <2>2 DEF Start, TypeInv, TypeOK, CleanInv
  <2>3. CASE SensorReady \/ SensorDead \/ StopClear \/ StopHalt \/ Retrigger
    BY <2>3 DEF SensorReady, SensorDead, StopClear, StopHalt, Retrigger, CleanInv
  <2>4. CASE XdmaError \/ WdtError \/ ParserError
    BY <2>4 DEF XdmaError, WdtError, ParserError, CountError, CleanInv
  <2>5. CASE FrameReady \/ NoFrame \/ Algorithm \/ Finish \/ Abandon \/ Reboot
    BY <2>5 DEF FrameReady, NoFrame, Algorithm, Finish, AfterFrame, Abandon,
                Reboot, CleanInv
  <2> QED BY <1>2, <2>1, <2>2, <2>3, <2>4, <2>5 DEF Callback
<1>3. CASE \E e \in DpEvents : DpEvent(e)
  BY <1>3 DEF DpEvent, CleanInv
<1>4. CASE Tick
  BY <1>4 DEF Tick, TickIgnored, TickOfFrame, TickWithoutFrame, NextOfTick, Take,
              CleanInv
<1>5. CASE AskToStop \/ StartAgain
  BY <1>5 DEF AskToStop, StartAgain, CleanInv
<1> QED BY <1>1, <1>2, <1>3, <1>4, <1>5 DEF Next

\* app_aiot_face_setup_hw5x5jpeg_path: a stream started on a stopped datapath
\* meets no event of its predecessor, if each source posts once between two turns
\* of the loop.
THEOREM NoStaleEvents ==
    ASSUME MaxPosts = 1
    PROVE  Spec => NoStaleEvent
<1>1. Init => CleanInv
  BY DEF Init, PowerUp, CleanInv
<1>2. TypeInv /\ CleanInv /\ [Next]_vars => CleanInv'
  <2> SUFFICES ASSUME TypeInv, CleanInv, [Next]_vars PROVE CleanInv'
    OBVIOUS
  <2>1. CASE UNCHANGED vars
    BY <2>1 DEF vars, CleanInv, Due
  <2> QED BY <2>1, StepKeepsClean
<1>3. CleanInv /\ [Next]_vars => [Start /\ stream = "off" => Due \cap DpEvents = {}]_vars
  BY DEF CleanInv, Start
<1> QED BY <1>1, <1>2, <1>3, TypeInvHolds, PTL DEF Spec, NoStaleEvent

-------------------------------------------------------------------------------
\* Without faults every event is a frame or a tick, and the frame of a capture
\* is the only one under way: due, or in a callback, or waiting for the timer.
Free == "FRAME" \notin Due /\ stream # "live"

FramesInv ==
    /\ flags \cap {"xdma", "wdt", "parser"} = {}
    /\ Due \cap FaultEvents = {}
    /\ isr["FRAME"] <= 1
    /\ "FRAME" \in Due => stream = "ready"
    /\ pc \in {"check", "algo", "finish", "retrigger", "stop", "halt"} => Free
    /\ pc \in {"boot", "setup", "start"} => stream = "off"
    /\ pc \in {"boot", "setup", "start", "abandon"} => back = "loop"
    /\ rtc_cb => app_cur_state = "FACE_LIVE" /\ classification_rtc
    /\ pc = "loop" /\ classification_rtc /\ frame_process_done => Free
    /\ pc = "retrigger" /\ classification_rtc => ~frame_process_done
    /\ pc = "start" => ~frame_process_done

LEMMA DueOfTake ==
    ASSUME TypeOK, NEW e \in Events, Take(e)
    PROVE  Due' = Due \ {e} /\ isr'["FRAME"] = 0
  BY DEF Take, Due, TypeOK, Events, DpEvents

LEMMA DueOfClear ==
    ASSUME TypeOK, evt_dp_clear_all_dpevent
    PROVE  /\ Due' \subseteq Due
           /\ isr["FRAME"] <= 1 => isr'["FRAME"] <= 1 /\ "FRAME" \notin Due'
<1>1. \A d \in Events : isr[d] \in Nat /\ isr'[d] \in Nat /\ isr'[d] <= isr[d]
  BY CaptureAssumption DEF TypeOK, evt_dp_clear_all_dpevent
<1>2. Due' \subseteq Due
  BY <1>1 DEF Due, evt_dp_clear_all_dpevent
<1>3. "FRAME" \in DpEvents /\ "FRAME" \in Events
  BY DEF DpEvents, Events
<1>4. isr["FRAME"] <= 1 => isr'["FRAME"] = 0
  BY <1>1, <1>3 DEF evt_dp_clear_all_dpevent
<1> QED BY <1>2, <1>3, <1>4 DEF Due, evt_dp_clear_all_dpevent

LEMMA DueOfPost ==
    ASSUME TypeOK, NEW e \in Events, Post(e), runnable' = runnable
    PROVE  /\ Due' = Due \cup {e}
           /\ isr' = [isr EXCEPT ![e] = isr[e] + 1]
<1>1. \A d \in Events : isr[d] \in Nat
  BY CaptureAssumption DEF TypeOK
<1> QED BY <1>1 DEF Post, Due, TypeOK

LEMMA FramesHardware ==
    ASSUME Faults = {}, TypeInv, FramesInv, Hardware
    PROVE  FramesInv'
<1> USE DEF TypeInv, FramesInv, Free
<1>1. CASE HwFrame
  <2>1. "FRAME" \in Events /\ "FRAME" \notin FaultEvents
    BY DEF Events, DpEvents, FaultEvents
  <2>2. Due' = Due \cup {"FRAME"} /\ isr' = [isr EXCEPT !["FRAME"] = isr["FRAME"] + 1]
    BY <1>1, <2>1, DueOfPost DEF HwFrame
  <2>3. isr["FRAME"] = 0
    BY <1>1, <2>1, CaptureAssumption DEF HwFrame, Due, TypeOK
  <2>4. isr'["FRAME"] = 1
    BY <2>1, <2>2, <2>3 DEF TypeOK
  <2> QED BY <1>1, <2>1, <2>2, <2>4 DEF HwFrame, app, timer
<1>2. CASE HwTick
  <2>1. "TICK" \in Events /\ "FRAME" \in Events /\ "TICK" \notin FaultEvents
    BY DEF Events, DpEvents, FaultEvents
  <2>2. Due' = Due \cup {"TICK"} /\ isr' = [isr EXCEPT !["TICK"] = isr["TICK"] + 1]
    BY <1>2, <2>1, DueOfPost DEF HwTick
  <2>3. isr'["FRAME"] = isr["FRAME"]
    BY <2>1, <2>2 DEF TypeOK
  <2> QED BY <1>2, <2>1, <2>2, <2>3 DEF HwTick, app, timer
<1> QED BY <1>1, <1>2 DEF Hardware

LEMMA FramesCallback ==
    ASSUME Faults = {}, TypeInv, QuietInv, FramesInv, Callback
    PROVE  FramesInv'
<1> USE DEF TypeInv, FramesInv, Free
<1>a. UNCHANGED events => Due' = Due /\ isr' = isr
  BY DEF events, Due
<1>1. CASE SensorReady \/ SensorDead
  BY <1>1, <1>a DEF SensorReady, SensorDead, app, timer
<1>2. CASE Setup
  BY <1>2, DueOfClear DEF Setup, timer
<1>3. CASE Start
  BY <1>3, <1>a DEF Start, QuietInv, app
<1>4. CASE StopClear
  BY <1>4, DueOfClear DEF StopClear, app
<1>5. CASE StopHalt
  <2>1. ~rtc_cb'
    BY <1>5 DEF StopHalt, QuietInv, timer
  <2> QED BY <1>5, <1>a, <2>1 DEF StopHalt
<1>6. CASE Retrigger
  BY <1>6, <1>a DEF Retrigger, app, timer
<1>7. ~ (XdmaError \/ WdtError \/ ParserError)
  BY DEF XdmaError, WdtError, ParserError
<1>8. CASE FrameReady \/ NoFrame
  BY <1>8, <1>a DEF FrameReady, NoFrame, app, timer
<1>9. CASE Algorithm
  BY <1>9, <1>a DEF Algorithm, timer
<1>10. CASE Finish
  <2>1. /\ pc' \in {"loop", "retrigger", "stop"}
        /\ classification_rtc => pc' = "loop"
    BY <1>10 DEF Finish, AfterFrame
  <2> QED BY <1>10, <1>a, <2>1 DEF Finish, timer
<1>11. CASE Abandon
  <2>1. Due' \subseteq Due /\ isr'["FRAME"] <= 1 /\ "FRAME" \notin Due'
    BY <1>11, DueOfClear DEF Abandon
  <2> QED BY <1>11, <2>1 DEF Abandon, app, timer
<1>12. CASE Reboot
  <2>1. Due' = {} /\ isr'["FRAME"] = 0
    BY <1>12 DEF Reboot, Due, Events, DpEvents
  <2> QED BY <1>12, <2>1 DEF Reboot
<1> QED
  BY <1>1, <1>2, <1>3, <1>4, <1>5, <1>6, <1>7, <1>8, <1>9, <1>10, <1>11, <1>12
  DEF Callback

LEMMA FramesEvent ==
    ASSUME Faults = {}, TypeInv, QuietInv, FramesInv,
           (\E e \in DpEvents : DpEvent(e)) \/ Tick
    PROVE  FramesInv'
<1> USE DEF TypeInv, FramesInv, Free
<1>1. ASSUME NEW e \in DpEvents, DpEvent(e)
      PROVE  FramesInv'
  <2>1. e \in Events /\ Take(e)
    BY <1>1 DEF DpEvent, Events
  <2>2. e = "FRAME"
    BY <2>1 DEF Take, DpEvents
  <2>3. Due' = Due \ {e} /\ isr'["FRAME"] = 0 /\ stream = "ready"
    BY <2>1, <2>2, DueOfTake DEF Take
  <2>4. flags' = flags \cup {"frame"} /\ stream' = stream /\ pc' = "check"
    BY <1>1, <2>2 DEF DpEvent, FlagOf
  <2> QED BY <1>1, <2>2, <2>3, <2>4 DEF DpEvent, timer
<1>2. ASSUME Tick
      PROVE  FramesInv'
  <2>1. Take("TICK") /\ "TICK" \in Events
    BY <1>2 DEF Tick, TickIgnored, TickOfFrame, TickWithoutFrame, Events
  <2>2. Due' = Due \ {"TICK"} /\ isr'["FRAME"] = 0 /\ pc = "loop"
    BY <2>1, DueOfTake DEF Take
  <2>3. CASE TickIgnored
    BY <2>2, <2>3 DEF TickIgnored, app, timer
  <2>4. CASE TickOfFrame
    <3>1. app_cur_state = "FACE_LIVE" /\ classification_rtc /\ Free
      BY <2>2, <2>4 DEF TickOfFrame
    <3>2. pc' \in {"stop", "retrigger", "loop"}
      BY <2>4, <3>1 DEF TickOfFrame, NextOfTick
    <3> QED BY <2>2, <2>4, <3>1, <3>2 DEF TickOfFrame, timer
  <2>5. CASE TickWithoutFrame
    <3>1. pc' \in {"reset", "abandon", "loop"}
      BY <2>5 DEF TickWithoutFrame
    <3> QED BY <2>2, <2>5, <3>1 DEF TickWithoutFrame, app, timer
  <2> QED BY <1>2, <2>3, <2>4, <2>5 DEF Tick
<1> QED BY <1>1, <1>2

LEMMA FramesInvHolds ==
    ASSUME Faults = {}
    PROVE  Spec => [](TypeInv /\ QuietInv /\ FramesInv)
<1>1. Init => FramesInv
  BY DEF Init, PowerUp, FramesInv, Free, Due, Events, DpEvents
<1>2. TypeInv /\ QuietInv /\ FramesInv /\ [Next]_vars => FramesInv'
  <2> SUFFICES ASSUME TypeInv, QuietInv, FramesInv, [Next]_vars PROVE FramesInv'
    OBVIOUS
  <2>1. CASE AskToStop
    BY <2>1 DEF AskToStop, FramesInv, Free, Due, events, timer
  <2>2. CASE StartAgain
    BY <2>2 DEF StartAgain, FramesInv, Free, Due, QuietInv, StoppedIsQuiet, events,
                timer, app
  <2>3. CASE UNCHANGED vars
    BY <2>3 DEF vars, FramesInv, Free, Due
  <2> QED
    BY <2>1, <2>2, <2>3, FramesHardware, FramesCallback, FramesEvent DEF Next
<1> QED BY <1>1, <1>2, TypeInvHolds, QuietInvHolds, PTL DEF Spec

\* sensor_dp_lib.h:46: as long as the datapath raises no event but frame ready,
\* the detection works on a buffer nothing writes, with the timer or without,
\* through every stop, start and restart by the timer.
THEOREM StableBuffer ==
    ASSUME Faults = {}
    PROVE  Spec => []FrameBufferStable
<1>1. FramesInv => FrameBufferStable
  BY DEF FramesInv, Free, FrameBufferStable
<1> QED BY <1>1, FramesInvHolds, PTL

\* sensor_dp_lib.h:51-53: under the same condition no capture is triggered while
\* the one before it is under way.
THEOREM TriggersAfterFrames ==
    ASSUME Faults = {}
    PROVE  Spec => TriggerAfterFrame
<1>1. FramesInv /\ [Next]_vars => [Retrigger => stream # "live"]_vars
  BY DEF FramesInv, Free, Retrigger
<1> QED BY <1>1, FramesInvHolds, PTL DEF Spec, TriggerAfterFrame
===============================================================================

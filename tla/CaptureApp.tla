------------------------------ MODULE CaptureApp ------------------------------
(****************************************************************************)
(* aiot_bodydetect_allon_tflite2: how the application starts the camera     *)
(* datapath, handles its events, re-triggers, restarts, stops and resets.   *)
(*                                                                          *)
(* The application runs inside the callbacks of the event loop, one at a    *)
(* time; a callback is a sequence of steps (pc), because the datapath and   *)
(* the timer raise events from interrupts between them.  Of the loop only   *)
(* its promise is used (EventSpec, EventLoop): all its events have one      *)
(* priority here, so any due event may be next.                             *)
(****************************************************************************)
EXTENDS Naturals

CONSTANTS
    Faults,     \* events the datapath may raise besides frame ready
    RtcModes,   \* classification_rtc # 0, the values the configuration may have
    Commands,   \* SIM_I2C_CHANGE_STATE: something asks to stop and to start
    MaxErr,     \* MAX_HW5x5JPEG_ERR_RETRY_CNT, 10 in the program
    RtcRetry,   \* MAX_RTC_NOT_RECAP_ERR_RETRY_CNT, 100
    RtcReboot,  \* MAX_RTC_NOT_RECAP_ERR_REBOOT_CNT, 200
    MaxPosts    \* bound: times an event is raised between two turns of the loop

\* XDMA: the four EVT_INDEX_XDMA_*_ABNORMAL.  WDT: the three EDM watchdogs.
\* CDM: a FIFO error.  MOTION: also the RS and HOG events, which do as little.
FaultEvents == {"XDMA", "WDT", "PARSER", "CDM", "MOTION"}
DpEvents    == FaultEvents \cup {"FRAME"}
Events      == DpEvents \cup {"TICK"}

ASSUME CaptureAssumption ==
    /\ Faults \subseteq FaultEvents
    /\ RtcModes \subseteq BOOLEAN
    /\ Commands \in BOOLEAN
    /\ MaxErr \in Nat \ {0}
    /\ RtcRetry \in Nat \ {0}
    /\ RtcReboot \in Nat \ {0}
    /\ MaxPosts \in Nat \ {0}

VARIABLES
    app_cur_state,       \* g_app_cur_state
    app_new_state,       \* g_app_new_state
    frame_process_done,  \* g_frame_process_done
    flags,               \* those of g_xdma_abnormal, g_wdt*_timeout, ... that are set
    err_retry_cnt,       \* g_hw5x5jpeg_err_retry_cnt
    rtc_err_retry_cnt,   \* g_rtc_err_retry_cnt
    classification_rtc,  \* app_table_cfg.classification_rtc # 0
    rtc_cb,              \* g_sensorRTC_event_cb # NULL
    rtc_on,              \* the RTC_SENSOR timer is running
    runnable,            \* events the loop has seen and not dispatched
    isr,                 \* how often each event is in the interrupt buffer
    stream,              \* what the datapath does
    pc,                  \* where the main thread is
    back                 \* where the setup of the datapath returns to

app    == <<app_cur_state, app_new_state, frame_process_done, flags>>
counts == <<err_retry_cnt, rtc_err_retry_cnt>>
timer  == <<rtc_cb, rtc_on>>
events == <<runnable, isr>>
vars   == <<app_cur_state, app_new_state, frame_process_done, flags,
            err_retry_cnt, rtc_err_retry_cnt, classification_rtc, rtc_cb,
            rtc_on, runnable, isr, stream, pc, back>>

States  == {"INIT", "FACE_LIVE", "STOP"}
Flags   == {"xdma", "wdt", "parser", "fifo", "frame"}

\* "off": stopped and reset.  "live": capturing one frame.  "ready": the frame
\* is in memory, the datapath waits for a trigger.  "hung": an error occurred.
\* "deaf": an error occurred and the parser is disabled.
Streams == {"off", "live", "ready", "hung", "deaf"}

TypeOK ==
    /\ app_cur_state \in States
    /\ app_new_state \in States
    /\ frame_process_done \in BOOLEAN
    /\ flags \subseteq Flags
    /\ err_retry_cnt \in 0 .. MaxErr
    /\ rtc_err_retry_cnt \in 0 .. RtcReboot
    /\ classification_rtc \in RtcModes
    /\ rtc_cb \in BOOLEAN
    /\ rtc_on \in BOOLEAN
    /\ runnable \subseteq Events
    /\ isr \in [Events -> 0 .. MaxPosts]
    /\ stream \in Streams
    /\ pc \in {"boot", "loop", "check", "algo", "finish", "setup", "start",
               "retrigger", "abandon", "stop", "halt", "reset"}
    /\ back \in {"loop", "check"}

PowerUp ==
    /\ app_cur_state = "INIT"
    /\ app_new_state = "INIT"
    /\ frame_process_done = FALSE
    /\ flags = {}
    /\ err_retry_cnt = 0
    /\ rtc_err_retry_cnt = 0
    /\ rtc_cb = FALSE
    /\ rtc_on = FALSE
    /\ runnable = {}
    /\ isr = [e \in Events |-> 0]
    /\ stream = "off"
    /\ pc = "boot"
    /\ back = "loop"

Init == PowerUp /\ classification_rtc \in RtcModes

-------------------------------------------------------------------------------
(* The datapath and the timer: interrupts, at any time. *)

Post(e) ==
    /\ isr[e] < MaxPosts
    /\ isr' = [isr EXCEPT ![e] = @ + 1]

HwFrame ==
    /\ stream = "live"
    /\ stream' = "ready"
    /\ Post("FRAME")
    /\ UNCHANGED <<app, counts, timer, classification_rtc, runnable, pc, back>>

\* Streams in which the datapath may raise a fault, and what it does then.
FaultyIn(f) == CASE f = "MOTION" -> {"live"}
                 [] f = "WDT"    -> {"live", "hung", "deaf"}
                 [] OTHER        -> {"live", "hung"}

HwFault(f) ==
    /\ stream \in FaultyIn(f)
    /\ stream' = IF f = "MOTION" \/ stream = "deaf" THEN stream ELSE "hung"
    /\ Post(f)
    /\ UNCHANGED <<app, counts, timer, classification_rtc, runnable, pc, back>>

\* sensor_rtc_timer_dump
HwTick ==
    /\ rtc_on
    /\ Post("TICK")
    /\ UNCHANGED <<app, counts, timer, classification_rtc, runnable, stream, pc, back>>

-------------------------------------------------------------------------------
(* The event loop, as far as the application sees it. *)

Due == runnable \cup {e \in Events : isr[e] > 0}

\* The loop makes every posted event runnable, then calls one of them; its
\* callback returns CLEAR, and nothing clears an event that executes.
Take(e) ==
    /\ pc = "loop"
    /\ e \in Due
    /\ runnable' = Due \ {e}
    /\ isr' = [d \in Events |-> 0]

\* evt_dp_clear_all_dpevent: a clear and one clear_ISR_pendingevent for each
\* event, which removes one of its places in the interrupt buffer.  Its callers
\* also call evt_dp_clear_sensor_rtc, which clears EVT_INDEX_SENSOR_RTC_FIRE,
\* an event of the datapath library's own timer, never started here; the ticks
\* of sensor_rtc_timer_dump are EVT_INDEX_SENSOR_RTC and stay.
evt_dp_clear_all_dpevent ==
    /\ runnable' = runnable \ DpEvents
    /\ isr' = [e \in Events |->
                IF e \in DpEvents /\ isr[e] > 0 THEN isr[e] - 1 ELSE isr[e]]

-------------------------------------------------------------------------------
(* Start-up, and the setup path every start and restart goes through. *)

\* app_aiot_bodydetect_google: the sensor is configured at most six times.
SensorReady ==
    /\ pc = "boot"
    /\ pc' = "setup"
    /\ UNCHANGED <<app, counts, timer, classification_rtc, events, stream, back>>

SensorDead ==
    /\ pc = "boot"
    /\ pc' = "reset"
    /\ UNCHANGED <<app, counts, timer, classification_rtc, events, stream, back>>

\* FAULT forms of the operators that follow them.
SetupNoClear ==
    /\ pc = "setup"
    /\ flags' = flags \cap {"parser"}
    /\ app_cur_state' = "FACE_LIVE"
    /\ app_new_state' = "FACE_LIVE"
    /\ frame_process_done' = FALSE
    /\ pc' = "start"
    /\ UNCHANGED <<counts, timer, classification_rtc, events, stream, back>>

\* app_aiot_face_setup_hw5x5jpeg_path up to the registration of the callback;
\* app_init_dpcbflag clears every flag but g_inp1bitparer_abnormal.
Setup ==
    /\ pc = "setup"
    /\ evt_dp_clear_all_dpevent
    /\ flags' = flags \cap {"parser"}
    /\ app_cur_state' = "FACE_LIVE"
    /\ app_new_state' = "FACE_LIVE"
    /\ frame_process_done' = FALSE
    /\ pc' = "start"
    /\ UNCHANGED <<counts, timer, classification_rtc, stream, back>>

StartNoTimer ==
    /\ pc = "start"
    /\ stream' = "live"
    /\ pc' = back
    /\ UNCHANGED <<app, counts, timer, classification_rtc, events, back>>

\* sensordplib_set_sensorctrl_start, then the timer.
Start ==
    /\ pc = "start"
    /\ stream' = "live"
    /\ rtc_on' = (rtc_on \/ classification_rtc)
    /\ rtc_cb' = (rtc_cb \/ classification_rtc)
    /\ pc' = back
    /\ UNCHANGED <<app, counts, classification_rtc, events, back>>

StopClearKeepsTimer ==
    /\ pc = "stop"
    /\ evt_dp_clear_all_dpevent
    /\ rtc_cb' = FALSE
    /\ pc' = "halt"
    /\ UNCHANGED <<app, counts, rtc_on, classification_rtc, stream, back>>

\* app_stop_cv: first the events and the timer,
StopClear ==
    /\ pc = "stop"
    /\ evt_dp_clear_all_dpevent
    /\ rtc_on' = FALSE
    /\ rtc_cb' = FALSE
    /\ pc' = "halt"
    /\ UNCHANGED <<app, counts, classification_rtc, stream, back>>

\* then the datapath.
StopHalt ==
    /\ pc = "halt"
    /\ stream' = "off"
    /\ app_cur_state' = "STOP"
    /\ pc' = "loop"
    /\ UNCHANGED <<app_new_state, frame_process_done, flags, counts, timer,
                   classification_rtc, events, back>>

\* app_aiot_hw5x5jpeg_recapture.  A trigger makes a datapath that waits for it
\* capture the next frame; it does not repair one that hangs.
Retrigger ==
    /\ pc = "retrigger"
    /\ stream' = IF stream = "ready" THEN "live" ELSE stream
    /\ pc' = "loop"
    /\ UNCHANGED <<app, counts, timer, classification_rtc, events, back>>

-------------------------------------------------------------------------------
(* app_aiot_face_hw5x5jpeg_eventhdl_cb *)

FlagOf(e) == CASE e = "XDMA"   -> {"xdma"}
               [] e = "WDT"    -> {"wdt"}
               [] e = "PARSER" -> {"parser"}
               [] e = "CDM"    -> {"fifo"}
               [] e = "FRAME"  -> {"frame"}
               [] e = "MOTION" -> {}

\* The callback stores the event in its flag; on a parser error it disables
\* the parser.
DpEvent(e) ==
    /\ Take(e)
    /\ flags' = flags \cup FlagOf(e)
    /\ stream' = IF e = "PARSER" /\ stream \in {"live", "hung"} THEN "deaf" ELSE stream
    /\ back' = "check"
    /\ pc' = "check"
    /\ UNCHANGED <<app_cur_state, app_new_state, frame_process_done, counts,
                   timer, classification_rtc>>

\* Every error that is handled counts, and the last one allowed resets the chip.
CountErrorForgets ==
    /\ err_retry_cnt' = err_retry_cnt
    /\ pc' = IF err_retry_cnt + 1 < MaxErr THEN "setup" ELSE "reset"

CountErrorNoLimit ==
    /\ err_retry_cnt' = err_retry_cnt + 1
    /\ pc' = "setup"

CountError ==
    /\ err_retry_cnt' = err_retry_cnt + 1
    /\ pc' = IF err_retry_cnt + 1 < MaxErr THEN "setup" ELSE "reset"

\* app_aiot_face_hw5x5jpeg_algo_check looks for an error of the DMA first,
XdmaError ==
    /\ pc = "check"
    /\ "xdma" \in flags
    /\ stream' = "off"
    /\ flags' = flags \ {"xdma"}
    /\ CountError
    /\ UNCHANGED <<app_cur_state, app_new_state, frame_process_done,
                   rtc_err_retry_cnt, timer, classification_rtc, events, back>>

\* then for a watchdog (the sensor is configured again),
WdtError ==
    /\ pc = "check"
    /\ "xdma" \notin flags
    /\ "wdt" \in flags
    /\ stream' = "off"
    /\ flags' = flags \ {"wdt"}
    /\ CountError
    /\ UNCHANGED <<app_cur_state, app_new_state, frame_process_done,
                   rtc_err_retry_cnt, timer, classification_rtc, events, back>>

ParserErrorNoSetup ==
    /\ pc = "check"
    /\ flags \cap {"xdma", "wdt"} = {}
    /\ "parser" \in flags
    /\ flags' = flags \ {"parser"}
    /\ err_retry_cnt' = err_retry_cnt + 1
    /\ UNCHANGED <<app_cur_state, app_new_state, frame_process_done,
                   rtc_err_retry_cnt, timer, classification_rtc, events, stream,
                   pc, back>>

\* then for a parser error, which neither stops nor resets the datapath,
ParserError ==
    /\ pc = "check"
    /\ flags \cap {"xdma", "wdt"} = {}
    /\ "parser" \in flags
    /\ flags' = flags \ {"parser"}
    /\ CountError
    /\ UNCHANGED <<app_cur_state, app_new_state, frame_process_done,
                   rtc_err_retry_cnt, timer, classification_rtc, events, stream, back>>

\* then for a frame.
FrameReady ==
    /\ pc = "check"
    /\ flags \cap {"xdma", "wdt", "parser"} = {}
    /\ "frame" \in flags
    /\ err_retry_cnt' = 0
    /\ pc' = "algo"
    /\ UNCHANGED <<app, rtc_err_retry_cnt, timer, classification_rtc, events,
                   stream, back>>

NoFrame ==
    /\ pc = "check"
    /\ flags \cap {"xdma", "wdt", "parser", "frame"} = {}
    /\ pc' = "finish"
    /\ UNCHANGED <<app, counts, timer, classification_rtc, events, stream, back>>

\* The detection runs on the buffer the datapath has filled.
Algorithm ==
    /\ pc = "algo"
    /\ flags' = flags \ {"frame"}
    /\ pc' = "finish"
    /\ UNCHANGED <<app_cur_state, app_new_state, frame_process_done, counts,
                   timer, classification_rtc, events, stream, back>>

\* Without the timer the callback itself goes on to the next frame.
AfterFrameAlways ==
    IF classification_rtc THEN "loop" ELSE "retrigger"

AfterFrameIgnoresTimer ==
    IF app_cur_state = app_new_state THEN "retrigger"
    ELSE IF app_new_state = "STOP" THEN "stop"
    ELSE "loop"

AfterFrame ==
    IF classification_rtc THEN "loop"
    ELSE IF app_cur_state = app_new_state THEN "retrigger"
    ELSE IF app_new_state = "STOP" THEN "stop"
    ELSE "loop"

Finish ==
    /\ pc = "finish"
    /\ frame_process_done' = TRUE
    /\ pc' = AfterFrame
    /\ UNCHANGED <<app_cur_state, app_new_state, flags, counts, timer,
                   classification_rtc, events, stream, back>>

-------------------------------------------------------------------------------
(* evt_SensorRTC_cb and sensor_rtc_fire *)

\* A tick that was posted before the timer was stopped finds no callback.
TickIgnored ==
    /\ Take("TICK")
    /\ ~rtc_cb
    /\ UNCHANGED <<app, counts, timer, classification_rtc, stream, pc, back>>

NextOfTick ==
    IF app_new_state = "STOP" THEN "stop"
    ELSE IF app_cur_state = app_new_state THEN "retrigger"
    ELSE IF app_new_state = "FACE_LIVE" THEN "setup"
    ELSE "loop"

TickOfFrameKeepsDone ==
    /\ Take("TICK")
    /\ rtc_cb
    /\ frame_process_done
    /\ rtc_err_retry_cnt' = 0
    /\ back' = "loop"
    /\ pc' = NextOfTick
    /\ UNCHANGED <<app, err_retry_cnt, timer, classification_rtc, stream>>

TickOfFrame ==
    /\ Take("TICK")
    /\ rtc_cb
    /\ frame_process_done
    /\ rtc_err_retry_cnt' = 0
    /\ frame_process_done' = FALSE
    /\ back' = "loop"
    /\ pc' = NextOfTick
    /\ UNCHANGED <<app_cur_state, app_new_state, flags, err_retry_cnt, timer,
                   classification_rtc, stream>>

\* No event of the datapath since the last tick.
TickWithoutFrame ==
    /\ Take("TICK")
    /\ rtc_cb
    /\ ~frame_process_done
    /\ rtc_err_retry_cnt' = rtc_err_retry_cnt + 1
    /\ back' = "loop"
    /\ pc' = IF rtc_err_retry_cnt + 1 >= RtcReboot THEN "reset"
             ELSE IF rtc_err_retry_cnt + 1 >= RtcRetry THEN "abandon"
             ELSE "loop"
    /\ UNCHANGED <<app, err_retry_cnt, timer, classification_rtc, stream>>

\* The datapath is stopped and reset and its events are cleared, before the
\* stop or the setup that does so again.
Abandon ==
    /\ pc = "abandon"
    /\ stream' = "off"
    /\ evt_dp_clear_all_dpevent
    /\ pc' = IF app_cur_state = "STOP" THEN "stop" ELSE "setup"
    /\ UNCHANGED <<app, counts, timer, classification_rtc, back>>

-------------------------------------------------------------------------------
\* adc_rtc_timer_dump of the SIM_I2C_CHANGE_STATE build: app_setup_change_state
AskToStop ==
    /\ Commands
    /\ pc = "loop"
    /\ app_cur_state = "FACE_LIVE"
    /\ app_new_state' = "STOP"
    /\ UNCHANGED <<app_cur_state, frame_process_done, flags, counts, timer,
                   classification_rtc, events, stream, pc, back>>

\* and app_start_cv.
StartAgain ==
    /\ Commands
    /\ pc = "loop"
    /\ app_cur_state = "STOP"
    /\ back' = "loop"
    /\ pc' = "setup"
    /\ UNCHANGED <<app, counts, timer, classification_rtc, events, stream>>

\* hx_lib_pm_chip_rst and hx_lib_pm_cpu_rst: start-up initialises everything.
Reboot ==
    /\ pc = "reset"
    /\ app_cur_state' = "INIT"
    /\ app_new_state' = "INIT"
    /\ frame_process_done' = FALSE
    /\ flags' = {}
    /\ err_retry_cnt' = 0
    /\ rtc_err_retry_cnt' = 0
    /\ rtc_cb' = FALSE
    /\ rtc_on' = FALSE
    /\ runnable' = {}
    /\ isr' = [e \in Events |-> 0]
    /\ stream' = "off"
    /\ pc' = "boot"
    /\ back' = "loop"
    /\ UNCHANGED classification_rtc

-------------------------------------------------------------------------------
Hardware ==
    \/ HwFrame
    \/ \E f \in Faults : HwFault(f)
    \/ HwTick

\* Steps of a callback that has started, and of start-up.
Callback ==
    \/ SensorReady \/ SensorDead \/ Setup \/ Start \/ StopClear \/ StopHalt
    \/ Retrigger \/ XdmaError \/ WdtError \/ ParserError \/ FrameReady
    \/ NoFrame \/ Algorithm \/ Finish \/ Abandon \/ Reboot

Tick == TickIgnored \/ TickOfFrame \/ TickWithoutFrame

Next ==
    \/ Hardware
    \/ Callback
    \/ \E e \in DpEvents : DpEvent(e)
    \/ Tick
    \/ AskToStop
    \/ StartAgain

Spec == Init /\ [][Next]_vars

-------------------------------------------------------------------------------
\* sensor_dp_lib.h:46: on frame ready "you can do CV".  The detection never runs
\* on a buffer the datapath is filling with the next frame.
FrameBufferStable == pc = "algo" => stream # "live"

\* app_stop_cv: an application in the STOP state has a datapath that is off, and
\* no timer that could start it.
StoppedIsQuiet ==
    app_cur_state = "STOP" => stream = "off" /\ ~rtc_on /\ ~rtc_cb

\* sensor_dp_lib.h:51-53: the next frame is triggered "After 1st frame ready",
\* never while the capture that was asked for last is still under way.
TriggerAfterFrame == [][Retrigger => stream # "live"]_vars

\* app_aiot_hw5x5jpeg_algo.c:479-483: after a FIFO error the datapath is reset and
\* the stream started again; the callback does not just trigger the next frame.
FifoErrorRestarts == [][Retrigger => "fifo" \notin flags]_vars

\* A stream that is started on a datapath that was stopped meets no event of the
\* stream before it (xdma and wdt branches, sensor_rtc_fire, app_start_cv): an old
\* error would restart the new stream, an old frame hand it an empty buffer.  It
\* takes a source that fires once between two turns of the loop (MaxPosts = 1);
\* of an event posted twice the second survives evt_dp_clear_all_dpevent.
NoStaleEvent ==
    [][Start /\ stream = "off" => Due \cap DpEvents = {}]_vars
===============================================================================

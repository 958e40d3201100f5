----------------------------- MODULE MCCaptureApp -----------------------------
(****************************************************************************)
(* CaptureApp for TLC: fairness, and what must eventually happen.           *)
(****************************************************************************)
EXTENDS CaptureApp

\* A callback runs to completion and start-up does too; the event loop starves
\* no event of the one priority all events have (EventLoop, BoundedOvertaking);
\* a capture that runs undisturbed ends, and the timer is periodic.  Nothing is
\* assumed of faults and of the requests to stop and to start.
FairSpec ==
    /\ Spec
    /\ WF_vars(Callback)
    /\ WF_vars(HwFrame)
    /\ WF_vars(HwTick)
    /\ \A e \in Faults \cup {"FRAME"} : SF_vars(DpEvent(e))
    /\ SF_vars(Tick)

\* app_aiot_face_hw5x5jpeg_eventhdl_cb, sensor_rtc_fire: as long as nothing
\* fails, frame after frame reaches the detection, unless the application is
\* stopped or the board resets.
KeepsCapturing == []<>(pc = "algo" \/ app_cur_state = "STOP" \/ pc = "boot")

\* app_setup_change_state: a request to stop is honoured after the frame under
\* way.  Only the timer's watchdog, when it gives up waiting for that frame,
\* starts the stream again and forgets the request.
StopHonoured ==
    app_new_state = "STOP" ~> (app_cur_state = "STOP" \/ rtc_err_retry_cnt >= RtcRetry)

\* app_aiot_face_hw5x5jpeg_algo_check: whatever stops the datapath, it is
\* started again or switched off.
HungIsHandled == stream \in {"hung", "deaf"} ~> stream \in {"live", "off"}

\* The two error counters together: a camera that is restarted again and again
\* and gives no frame is reset, although each restart path leaves or clears the
\* counter of the other.
RestartsEnd == []<>(pc = "setup") => []<>(pc \in {"algo", "reset"} \/ app_cur_state = "STOP")
===============================================================================

------------------------------- MODULE MCDevices -------------------------------
(***************************************************************************)
(* Two programs whose devices hand over to the main thread, for TLC: the   *)
(* microphone recorder, which does so by itself, and the event handler.    *)
(***************************************************************************)
EXTENDS PdmAudio, EventHandler

VARIABLE program

deviceVars == <<vars, evtVars, program>>

DevicesInit ==
  /\ Init
  /\ EvtInit
  /\ program \in {"recorder", "events"}

DevicesNext ==
  \/ program = "recorder" /\ Next /\ UNCHANGED <<evtVars, program>>
  \/ program = "events" /\ EvtNext /\ UNCHANGED <<vars, program>>

Recorder(A) == program = "recorder" /\ A /\ UNCHANGED <<evtVars, program>>

\* The recorder's fairness is that of FairSpec.  The event loop goes on, and a
\* client's function returns.
DevicesSpec ==
  /\ DevicesInit
  /\ [][DevicesNext]_deviceVars
  /\ WF_deviceVars(Recorder(SeeFlag \/ CopyBlock \/ StepDone \/ Stop))
  /\ WF_deviceVars(Recorder(Fill))
  /\ WF_deviceVars(Recorder(Callback))
  /\ WF_deviceVars(program = "events" /\ LoopStep /\ UNCHANGED <<vars, program>>)

-----------------------------------------------------------------------------
\* Two events of the datapath with callbacks of different types; a pin beside a
\* timer; a channel of the ADC beside the timer of the sensor; the constraint
\* interrupt of the ADC, single-shot conversions and the commands of the host.
DevicePrograms ==
  {{"FRAME_READY", "RSDMA_FINISH"},
   {"PGPIO0", "SENSOR_RTC"},
   {"ADC_CH0", "SENSOR_RTC_FIRE"},
   {"I2CS_RX", "ADC_CFG", "ADC_SG"}}

=============================================================================

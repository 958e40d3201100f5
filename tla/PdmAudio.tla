------------------------------- MODULE PdmAudio -------------------------------
(****************************************************************************)
(* Lab3_PDM_Microphone: the main loop records Steps laps of a ring of N     *)
(* audio blocks that the microphone DMA fills without pause.  The callback  *)
(* of the DMA interrupt copies the new blocks to a second buffer, the       *)
(* stamp, and raises audio_flag once per lap; the main loop then copies the *)
(* stamp to its place in the clip while the DMA and the callback go on.     *)
(*                                                                          *)
(* Nothing but time keeps the two apart.  MinGap, MaxGap and Slack say how  *)
(* much: they count audio blocks, 64 ms each.                               *)
(****************************************************************************)
EXTENDS Integers

CONSTANTS
    N,       \* AUD_BLK_STEP + AUD_WAIT_STEP, 16 in the program
    Steps,   \* AUD_STEP_CNT, 5
    Takes,   \* bound: recordings that are told apart
    MinGap,  \* blocks filled between two callbacks: at least, cb_evt_blk = 2
    MaxGap,  \* and at most, with the latency of the interrupt
    Slack    \* blocks filled while the main loop handles one audio_flag

\* One callback period is longer than the main loop needs for a step (a poll
\* every 1 ms, 64 KB of memcpy, a line on the UART and 5 ms), and two periods
\* fit in the ring.
ASSUME PdmAssumption ==
    /\ N \in Nat \ {0}
    /\ Steps \in Nat \ {0}
    /\ Takes \in Nat \ {0}
    /\ MinGap \in Nat
    /\ MaxGap \in Nat
    /\ Slack \in Nat
    /\ Slack < MinGap
    /\ MinGap <= MaxGap
    /\ 2 * MaxGap <= N

Slots == 0 .. N - 1

VARIABLES
    pc,               \* main loop: "key", "wait", "copy" or "stop"
    record_step_cnt,
    copied,           \* blocks the memcpy under way has copied to the clip
    audio_flag,
    last_block, stamp_idx, pdm_idx,  \* statics of the callback, in blocks
    take,             \* which recording this is
    lap, pos,         \* the DMA fills slot pos of the ring, for the lap-th time
    since,            \* blocks filled since the last callback
    late,             \* blocks filled since audio_flag was raised
    stamp,            \* audio_clip_stamp: which block each place holds
    clip              \* audio_clip

main    == <<pc, record_step_cnt, copied>>
statics == <<last_block, stamp_idx, pdm_idx>>
dma     == <<take, lap, pos, since, late>>
vars    == <<pc, record_step_cnt, copied, audio_flag, last_block, stamp_idx,
             pdm_idx, take, lap, pos, since, late, stamp, clip>>

\* A block is known by the recording, the lap and the slot it was filled in;
\* the zero-initialised buffers hold silence.
Silence == <<-1, -1, -1>>
Torn    == <<-2, -2, -2>>
Block   == Int \X Int \X Int

TypeOK ==
    /\ pc \in {"key", "wait", "copy", "stop"}
    /\ record_step_cnt \in 0 .. Steps
    /\ copied \in 0 .. N
    /\ audio_flag \in BOOLEAN
    /\ last_block \in Slots
    /\ stamp_idx \in Slots
    /\ pdm_idx \in Slots
    /\ take \in 0 .. Takes - 1
    /\ lap \in 0 .. Steps
    /\ pos \in Slots
    /\ since \in 0 .. MaxGap
    /\ late \in 0 .. Slack
    /\ stamp \in [Slots -> Block]
    /\ clip \in [0 .. Steps - 1 -> [Slots -> Block]]

Init ==
    /\ pc = "key"
    /\ record_step_cnt = 0
    /\ copied = 0
    /\ audio_flag = FALSE
    /\ last_block = 0 /\ stamp_idx = 0 /\ pdm_idx = 0
    /\ take = 0
    /\ lap = 0 /\ pos = 0 /\ since = 0 /\ late = 0
    /\ stamp = [i \in Slots |-> Silence]
    /\ clip = [k \in 0 .. Steps - 1 |-> [i \in Slots |-> Silence]]

-------------------------------------------------------------------------------
(* Main loop *)

\* The key A: hx_lib_audio_start, and the first turn of the for loop.
Press ==
    /\ pc = "key"
    /\ pc' = "wait"
    /\ record_step_cnt' = 0
    /\ take' = IF take + 1 = Takes THEN 0 ELSE take + 1
    /\ lap' = 0 /\ pos' = 0 /\ since' = 0
    /\ UNCHANGED <<copied, audio_flag, statics, late, stamp, clip>>

SeeFlag ==
    /\ pc = "wait"
    /\ audio_flag
    /\ audio_flag' = FALSE
    /\ pc' = "copy"
    /\ copied' = 0
    /\ UNCHANGED <<record_step_cnt, statics, dma, stamp, clip>>

\* FAULT: the copy does not move on to the next block.
CopyBlockStays ==
    /\ pc = "copy"
    /\ copied < N
    /\ clip' = [clip EXCEPT ![record_step_cnt][copied] = stamp[copied]]
    /\ UNCHANGED <<pc, record_step_cnt, copied, audio_flag, statics, dma, stamp>>

\* The memcpy of one lap, block by block: the interrupt stays enabled.
CopyBlock ==
    /\ pc = "copy"
    /\ copied < N
    /\ clip' = [clip EXCEPT ![record_step_cnt][copied] = stamp[copied]]
    /\ copied' = copied + 1
    /\ UNCHANGED <<pc, record_step_cnt, audio_flag, statics, dma, stamp>>

StepDone ==
    /\ pc = "copy"
    /\ copied = N
    /\ record_step_cnt' = record_step_cnt + 1
    /\ pc' = IF record_step_cnt + 1 < Steps THEN "wait" ELSE "stop"
    /\ UNCHANGED <<copied, audio_flag, statics, dma, stamp, clip>>

\* hx_lib_audio_stop; then the clip is sent to the UART.
Stop ==
    /\ pc = "stop"
    /\ pc' = "key"
    /\ UNCHANGED <<record_step_cnt, copied, audio_flag, statics, dma, stamp, clip>>

-------------------------------------------------------------------------------
(* The DMA, and the callback of its interrupt *)

Handling == audio_flag \/ pc \in {"copy", "stop"}

\* The DMA runs from start to stop, and time passes with the blocks it fills.
Fill ==
    /\ pc # "key"
    /\ since < MaxGap
    /\ Handling => late < Slack
    /\ pos' = IF pos + 1 = N THEN 0 ELSE pos + 1
    /\ lap' = IF pos + 1 = N THEN lap + 1 ELSE lap
    /\ since' = since + 1
    /\ late' = IF Handling THEN late + 1 ELSE late
    /\ UNCHANGED <<main, audio_flag, statics, take, stamp, clip>>

\* What slot i of the ring holds; slot pos is being overwritten.
Ring(i) == IF i < pos THEN <<take, lap, i>>
           ELSE IF i = pos THEN Torn
           ELSE <<take, lap - 1, i>>

\* memcpy of n blocks from the ring to the stamp
CopyToStamp(n) ==
    stamp' = [i \in Slots |-> IF stamp_idx <= i /\ i < stamp_idx + n
                              THEN Ring(pdm_idx + i - stamp_idx) ELSE stamp[i]]

\* FAULT forms of the operators that follow them.
WrappedKeepsPdmIdx ==
    /\ last_block > pos
    /\ CopyToStamp(N - last_block)
    /\ last_block' = 0
    /\ stamp_idx' = 0
    /\ pdm_idx' = pdm_idx
    /\ audio_flag' = TRUE

WrappedKeepsStampIdx ==
    /\ last_block > pos
    /\ CopyToStamp(N - last_block)
    /\ last_block' = 0
    /\ stamp_idx' = stamp_idx + N - last_block
    /\ pdm_idx' = 0
    /\ audio_flag' = TRUE

\* The block number is smaller than the last one: the lap is complete.
Wrapped ==
    /\ last_block > pos
    /\ CopyToStamp(N - last_block)
    /\ last_block' = 0
    /\ stamp_idx' = 0
    /\ pdm_idx' = 0
    /\ audio_flag' = TRUE

\* FAULT: the block being filled is taken for a finished one.
AdvancedOneMore ==
    /\ last_block <= pos
    /\ CopyToStamp(pos + 1 - last_block)
    /\ stamp_idx' = (stamp_idx + pos + 1 - last_block) % N
    /\ pdm_idx' = (pdm_idx + pos + 1 - last_block) % N
    /\ last_block' = (pos + 1) % N
    /\ UNCHANGED audio_flag

Advanced ==
    /\ last_block <= pos
    /\ CopyToStamp(pos - last_block)
    /\ stamp_idx' = stamp_idx + (pos - last_block)
    /\ pdm_idx' = pdm_idx + (pos - last_block)
    /\ last_block' = pos
    /\ UNCHANGED audio_flag

\* pdm_rx_callback_fun; hx_lib_audio_request_read returns the ring and pos.
Callback ==
    /\ pc # "key"
    /\ since >= MinGap
    /\ Wrapped \/ Advanced
    /\ since' = 0
    /\ late' = 0
    /\ UNCHANGED <<main, take, lap, pos, clip>>

-------------------------------------------------------------------------------
Next ==
    \/ Press \/ SeeFlag \/ CopyBlock \/ StepDone \/ Stop
    \/ Fill \/ Callback

Spec == Init /\ [][Next]_vars

\* The main loop polls, the DMA fills and its interrupt is served; nobody has
\* to press the key.
FairSpec ==
    /\ Spec
    /\ WF_vars(SeeFlag \/ CopyBlock \/ StepDone \/ Stop)
    /\ WF_vars(Fill)
    /\ WF_vars(Callback)

-------------------------------------------------------------------------------
\* main.c:174-178: when the finish flag is set, blocks 0 to N - 1 of one lap are
\* saved, the lap this step is about.
FlagMeansSaved ==
    audio_flag => \A i \in Slots : stamp[i] = <<take, record_step_cnt, i>>

\* main.c:20 "Record time": what the main loop has recorded is gapless.  Step k
\* of the clip is the whole lap k of this recording, whatever the interleaving of
\* the memcpy, the callback and the DMA, in this recording and the next ones.
ClipIsGapless ==
    \A k \in 0 .. record_step_cnt - 1 : \A i \in Slots : clip[k][i] = <<take, k, i>>

\* main.c:84-98: a recording that was started ends.
RecordingEnds == pc = "wait" ~> pc = "key"
===============================================================================

--------------------------- MODULE PdmAudio_proofs ---------------------------
(****************************************************************************)
(* Proofs about PdmAudio, for every ring, number of steps and timing that   *)
(* the assumption allows.                                                   *)
(****************************************************************************)
EXTENDS PdmAudio, TLAPS

\* laps of this recording that are in the stamp or the clip as a whole
Laps == IF audio_flag \/ pc = "copy" THEN record_step_cnt + 1 ELSE record_step_cnt

\* After a lap the callback starts again from slot 0, although the DMA has
\* filled some blocks of the next one.
Ahead == IF last_block = 0 THEN MaxGap - 1 ELSE 0

\* The DMA is in the lap after the saved ones, at or after last_block; or it
\* has wrapped since the last callback, and then it is well before last_block.
Position ==
    \/ /\ lap = Laps
       /\ last_block <= pos
       /\ pos <= last_block + since + Ahead
    \/ /\ lap = Laps + 1
       /\ pos + N <= last_block + since + Ahead

Control ==
    /\ pc \in {"wait", "copy"} => record_step_cnt < Steps
    /\ pc = "stop" => record_step_cnt = Steps
    /\ audio_flag => pc = "wait"

\* While the main loop handles a lap no callback comes.
Timing ==
    /\ Handling => last_block = 0 /\ since <= late
    /\ pc = "key" => last_block = 0

Contents ==
    /\ stamp_idx = last_block /\ pdm_idx = last_block
    /\ \A i \in Slots : i < last_block => stamp[i] = <<take, record_step_cnt, i>>
    /\ audio_flag \/ pc = "copy" =>
         \A i \in Slots : stamp[i] = <<take, record_step_cnt, i>>
    /\ pc = "copy" =>
         \A i \in Slots : i < copied =>
            clip[record_step_cnt][i] = <<take, record_step_cnt, i>>

IInv ==
    /\ TypeOK
    /\ pc # "key" => Position
    /\ Control
    /\ Timing
    /\ Contents
    /\ ClipIsGapless

\* A DMA that the main loop makes wait, or that is not a whole callback period
\* ahead, has not lapped the callback.
LEMMA NotLapped ==
    ASSUME IInv, pc # "key", Handling
    PROVE  lap = Laps
  BY PdmAssumption DEF IInv, TypeOK, Position, Timing, Ahead, Slots

LEMMA IsBlock == \A a, b, c \in Int : <<a, b, c>> \in Block
  BY DEF Block

LEMMA InitInv == Init => IInv
  <1> SUFFICES ASSUME Init PROVE IInv
    OBVIOUS
  <1>1. Silence \in Block
    BY IsBlock DEF Silence
  <1>2. TypeOK
    <2>1. stamp \in [Slots -> Block] /\ clip \in [0 .. Steps - 1 -> [Slots -> Block]]
      BY <1>1 DEF Init
    <2>2. record_step_cnt \in 0 .. Steps /\ lap \in 0 .. Steps /\ copied \in 0 .. N
      BY PdmAssumption DEF Init
    <2>3. /\ last_block \in Slots /\ stamp_idx \in Slots /\ pdm_idx \in Slots
          /\ pos \in Slots /\ take \in 0 .. Takes - 1
      BY PdmAssumption DEF Init, Slots
    <2>4. since \in 0 .. MaxGap /\ late \in 0 .. Slack
      BY PdmAssumption DEF Init
    <2> QED BY <2>1, <2>2, <2>3, <2>4 DEF Init, TypeOK
  <1>3. Control /\ Timing
    BY DEF Init, Control, Timing, Handling
  <1>4. Contents /\ ClipIsGapless
    BY DEF Init, Contents, ClipIsGapless, Slots
  <1> QED BY <1>2, <1>3, <1>4 DEF Init, IInv

LEMMA PressInv == IInv /\ Press => IInv'
  <1> SUFFICES ASSUME IInv, Press PROVE IInv'
    OBVIOUS
  <1> USE PdmAssumption
  <1>1. ~audio_flag /\ last_block = 0
    BY DEF IInv, Control, Timing, Press
  <1>2. TypeOK'
    BY DEF IInv, TypeOK, Press, statics, Slots
  <1>3. Position' /\ Control' /\ Timing'
    BY <1>1 DEF IInv, TypeOK, Position, Control, Timing, Handling, Laps, Ahead,
       Press, statics
  <1>4. Contents' /\ ClipIsGapless'
    BY <1>1 DEF IInv, Contents, ClipIsGapless, Press, statics, Slots
  <1> QED BY <1>2, <1>3, <1>4 DEF IInv

LEMMA SeeFlagInv == IInv /\ SeeFlag => IInv'
  <1> SUFFICES ASSUME IInv, SeeFlag PROVE IInv'
    OBVIOUS
  <1>1. TypeOK'
    <2>1. copied' \in 0 .. N
      BY PdmAssumption DEF SeeFlag
    <2> QED BY <2>1 DEF IInv, TypeOK, SeeFlag, statics, dma
  <1>2. Position' /\ Control' /\ Timing'
    BY DEF IInv, Position, Control, Timing, Handling, Laps, Ahead, SeeFlag,
       statics, dma
  <1>3. Contents' /\ ClipIsGapless'
    BY DEF IInv, Contents, ClipIsGapless, SeeFlag, statics, dma, Slots
  <1> QED BY <1>1, <1>2, <1>3 DEF IInv

LEMMA CopyBlockInv == IInv /\ CopyBlock => IInv'
  <1> SUFFICES ASSUME IInv, CopyBlock PROVE IInv'
    OBVIOUS
  <1> USE PdmAssumption
  <1>1. /\ pc = "copy" /\ pc' = pc
        /\ copied \in Slots
        /\ record_step_cnt \in 0 .. Steps - 1
        /\ stamp[copied] = <<take, record_step_cnt, copied>>
        /\ stamp[copied] \in Block
    BY DEF IInv, TypeOK, Control, Contents, CopyBlock, Slots
  <1>2. \A k \in 0 .. Steps - 1, i \in Slots :
           clip'[k][i] = IF k = record_step_cnt /\ i = copied
                         THEN stamp[copied] ELSE clip[k][i]
    BY <1>1 DEF IInv, TypeOK, CopyBlock
  <1>3. TypeOK'
    BY <1>1 DEF IInv, TypeOK, CopyBlock, statics, dma, Slots
  <1>4. (pc # "key" => Position)' /\ Control' /\ Timing'
    BY DEF IInv, Position, Control, Timing, Handling, Laps, Ahead, CopyBlock,
       statics, dma
  <1>5. Contents'
    BY <1>1, <1>2 DEF IInv, TypeOK, Contents, CopyBlock, statics, dma, Slots
  <1>6. ClipIsGapless'
    BY <1>1, <1>2 DEF IInv, TypeOK, ClipIsGapless, CopyBlock, dma
  <1> QED BY <1>3, <1>4, <1>5, <1>6 DEF IInv

LEMMA StepDoneInv == IInv /\ StepDone => IInv'
  <1> SUFFICES ASSUME IInv, StepDone PROVE IInv'
    OBVIOUS
  <1> USE PdmAssumption
  <1>1. lap = Laps
    BY NotLapped DEF StepDone, Handling
  <1>2. TypeOK' /\ Control' /\ Timing'
    BY DEF IInv, TypeOK, Control, Timing, Handling, StepDone, statics, dma, Slots
  <1>3. (pc # "key" => Position)'
    BY <1>1 DEF IInv, TypeOK, Position, Control, Laps, Ahead, StepDone, statics, dma
  <1>4. Contents'
    BY DEF IInv, TypeOK, Control, Contents, Timing, Handling, StepDone, statics,
       dma, Slots
  <1>5. ClipIsGapless'
    BY DEF IInv, TypeOK, Contents, ClipIsGapless, StepDone, dma, Slots
  <1> QED BY <1>2, <1>3, <1>4, <1>5 DEF IInv

LEMMA StopInv == IInv /\ Stop => IInv'
  BY PdmAssumption DEF IInv, TypeOK, Position, Control, Timing, Contents,
     ClipIsGapless, Handling, Slots, Laps, Ahead, Stop, statics, dma

LEMMA FillInv == IInv /\ Fill => IInv'
  <1> SUFFICES ASSUME IInv, Fill PROVE IInv'
    OBVIOUS
  <1> USE PdmAssumption
  <1>1. Position
    BY DEF IInv, Fill
  <1>2. pos + 1 = N => lap = Laps /\ ~Handling
    BY <1>1 DEF IInv, TypeOK, Position, Timing, Ahead, Fill, Slots, Handling
  <1>3. TypeOK'
    BY <1>2 DEF IInv, TypeOK, Control, Laps, Handling, Fill, main, statics, Slots
  <1>4. Control' /\ Timing' /\ Contents' /\ ClipIsGapless'
    BY DEF IInv, TypeOK, Control, Timing, Contents, ClipIsGapless, Handling,
       Fill, main, statics, Slots
  <1>5. Position'
    BY <1>1, <1>2 DEF IInv, TypeOK, Position, Laps, Ahead, Fill, main, statics, Slots
  <1> QED BY <1>3, <1>4, <1>5 DEF IInv

\* The callback comes while the main loop waits for the next lap.
LEMMA CallbackWaits ==
    ASSUME IInv, Callback
    PROVE  pc = "wait" /\ ~audio_flag /\ ~Handling
  BY PdmAssumption DEF IInv, TypeOK, Timing, Handling, Callback

LEMMA WrappedInv == IInv /\ Callback /\ Wrapped => IInv'
  <1> SUFFICES ASSUME IInv, Callback, Wrapped PROVE IInv'
    OBVIOUS
  <1> USE PdmAssumption
  <1>1. pc = "wait" /\ ~audio_flag /\ ~Handling
    BY CallbackWaits
  <1>2. lap = record_step_cnt + 1 /\ pos <= MaxGap - 1
    BY <1>1 DEF IInv, TypeOK, Position, Laps, Ahead, Callback, Wrapped, Slots
  <1>3. \A i \in Slots : i >= last_block => Ring(i) = <<take, record_step_cnt, i>>
    BY <1>2 DEF IInv, TypeOK, Wrapped, Ring, Slots
  <1>4. \A i \in Slots : stamp'[i] = <<take, record_step_cnt, i>>
    <2> TAKE i \in Slots
    <2>1. CASE i < last_block
      BY <2>1 DEF IInv, TypeOK, Contents, Wrapped, CopyToStamp, Slots
    <2>2. CASE i >= last_block
      <3>1. stamp'[i] = Ring(pdm_idx + i - stamp_idx)
        BY <2>2 DEF IInv, TypeOK, Contents, Wrapped, CopyToStamp, Slots
      <3>2. pdm_idx + i - stamp_idx = i
        BY DEF IInv, TypeOK, Contents, Slots
      <3> QED BY <1>3, <2>2, <3>1, <3>2
    <2>3. i < last_block \/ i >= last_block
      BY DEF IInv, TypeOK, Slots
    <2> QED BY <2>1, <2>2, <2>3
  <1>5. stamp' \in [Slots -> Block]
    <2>1. stamp' = [i \in Slots |-> stamp'[i]]
      BY DEF Wrapped, CopyToStamp
    <2>2. \A i \in Slots : stamp'[i] \in Block
      <3> TAKE i \in Slots
      <3>1. take \in Int /\ record_step_cnt \in Int /\ i \in Int
        BY DEF IInv, TypeOK, Slots
      <3> QED BY <1>4, <3>1, IsBlock
    <2> QED BY <2>1, <2>2
  <1>6. TypeOK'
    BY <1>5 DEF IInv, TypeOK, Callback, Wrapped, main, Slots
  <1>7. Position'
    BY <1>1, <1>2 DEF IInv, TypeOK, Position, Laps, Ahead, Callback, Wrapped, main,
       Slots
  <1>8. Control' /\ Timing'
    BY <1>1 DEF IInv, TypeOK, Control, Timing, Handling, Callback, Wrapped, main
  <1>9. Contents'
    BY <1>1, <1>4 DEF Contents, Callback, Wrapped, main, Slots
  <1>10. ClipIsGapless'
    BY DEF IInv, ClipIsGapless, Callback, main
  <1> QED BY <1>6, <1>7, <1>8, <1>9, <1>10 DEF IInv

LEMMA AdvancedInv == IInv /\ Callback /\ Advanced => IInv'
  <1> SUFFICES ASSUME IInv, Callback, Advanced PROVE IInv'
    OBVIOUS
  <1> USE PdmAssumption
  <1>1. pc = "wait" /\ ~audio_flag /\ ~Handling
    BY CallbackWaits
  <1>2. lap = record_step_cnt
    BY <1>1 DEF IInv, TypeOK, Position, Laps, Ahead, Callback, Advanced, Slots
  <1>3. stamp_idx + (pos - last_block) = pos /\ pdm_idx + (pos - last_block) = pos
    BY DEF IInv, TypeOK, Contents, Slots
  <1>4. \A i \in Slots : i < pos => stamp'[i] = <<take, record_step_cnt, i>>
    <2> SUFFICES ASSUME NEW i \in Slots, i < pos
                 PROVE  stamp'[i] = <<take, record_step_cnt, i>>
      OBVIOUS
    <2>1. CASE i < last_block
      BY <2>1 DEF IInv, TypeOK, Contents, Advanced, CopyToStamp, Slots
    <2>2. CASE i >= last_block
      <3>1. stamp'[i] = Ring(pdm_idx + i - stamp_idx)
        BY <1>3, <2>2 DEF IInv, TypeOK, Contents, Advanced, CopyToStamp, Slots
      <3>2. pdm_idx + i - stamp_idx = i
        BY DEF IInv, TypeOK, Contents, Slots
      <3>3. Ring(i) = <<take, record_step_cnt, i>>
        BY <1>2 DEF IInv, TypeOK, Ring, Slots
      <3> QED BY <3>1, <3>2, <3>3
    <2> QED BY <2>1, <2>2 DEF IInv, TypeOK, Slots
  <1>5. stamp' \in [Slots -> Block]
    <2>1. stamp' = [i \in Slots |-> IF stamp_idx <= i /\ i < pos
                                    THEN Ring(pdm_idx + i - stamp_idx) ELSE stamp[i]]
      BY <1>3 DEF Advanced, CopyToStamp
    <2>2. \A j \in Int : Ring(j) \in Block
      BY IsBlock DEF IInv, TypeOK, Ring, Torn, Slots
    <2>3. \A i \in Slots : pdm_idx + i - stamp_idx \in Int
      BY DEF IInv, TypeOK, Slots
    <2> QED BY <2>1, <2>2, <2>3 DEF IInv, TypeOK
  <1>6. TypeOK'
    BY <1>3, <1>5 DEF IInv, TypeOK, Callback, Advanced, main, Slots
  <1>7. Position'
    BY <1>1, <1>2 DEF IInv, TypeOK, Position, Laps, Ahead, Callback, Advanced, main,
       Slots
  <1>8. Control' /\ Timing'
    BY <1>1 DEF IInv, TypeOK, Control, Timing, Handling, Callback, Advanced, main
  <1>9. Contents'
    BY <1>1, <1>3, <1>4 DEF Contents, Callback, Advanced, main, Slots
  <1>10. ClipIsGapless'
    BY DEF IInv, ClipIsGapless, Callback, main
  <1> QED BY <1>6, <1>7, <1>8, <1>9, <1>10 DEF IInv

LEMMA StutterInv == IInv /\ UNCHANGED vars => IInv'
  BY DEF IInv, TypeOK, Position, Control, Timing, Contents, ClipIsGapless,
     Handling, Laps, Ahead, vars

LEMMA NextInv == IInv /\ [Next]_vars => IInv'
  <1> SUFFICES ASSUME IInv, [Next]_vars PROVE IInv'
    OBVIOUS
  <1>1. CASE Press      BY <1>1, PressInv
  <1>2. CASE SeeFlag    BY <1>2, SeeFlagInv
  <1>3. CASE CopyBlock  BY <1>3, CopyBlockInv
  <1>4. CASE StepDone   BY <1>4, StepDoneInv
  <1>5. CASE Stop       BY <1>5, StopInv
  <1>6. CASE Fill       BY <1>6, FillInv
  <1>7. CASE Callback   BY <1>7, WrappedInv, AdvancedInv DEF Callback
  <1>8. CASE UNCHANGED vars BY <1>8, StutterInv
  <1> QED BY <1>1, <1>2, <1>3, <1>4, <1>5, <1>6, <1>7, <1>8 DEF Next

LEMMA AlwaysInv == Spec => []IInv
  BY InitInv, NextInv, PTL DEF Spec

\* Type correctness, with the bounds the timing gives: the counters of the
\* callback stay within the ring, and the DMA never runs past the last lap.
THEOREM TypeCorrect == Spec => []TypeOK
  <1>1. IInv => TypeOK
    BY DEF IInv
  <1> QED BY <1>1, AlwaysInv, PTL

\* pdm_rx_callback_fun: the flag is raised when one whole lap, the one the main
\* loop waits for, is in the stamp.
THEOREM FlagSound == Spec => []FlagMeansSaved
  <1>1. IInv => FlagMeansSaved
    BY DEF IInv, Contents, FlagMeansSaved
  <1> QED BY <1>1, AlwaysInv, PTL

\* The recording is gapless for every ring, every number of steps and every
\* timing with Slack < MinGap and 2 * MaxGap <= N.
THEOREM Gapless == Spec => []ClipIsGapless
  <1>1. IInv => ClipIsGapless
    BY DEF IInv
  <1> QED BY <1>1, AlwaysInv, PTL
===============================================================================

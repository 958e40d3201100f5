--------------------------- MODULE EventLoop_proofs ---------------------------
(****************************************************************************)
(* Theorems about EventLoop, for every number of events, set of priorities  *)
(* and interleaving of the clients with the interrupts.                     *)
(****************************************************************************)
EXTENDS MCEventLoop, SequenceTheorems, TLAPS

\* The table on its own: a permutation whose first created_cnt places hold the
\* events the clients know.
TableInv ==
    /\ subs_events \in [Idx -> Idx]
    /\ pending_cnt \in Nat
    /\ created_cnt \in Nat
    /\ created_cnt <= Creates
    /\ Partition

\* Whatever moves the events of the table by a permutation of the places that
\* keeps the created ones together preserves TableInv.  from(i) is the place
\* that place i is filled from, to(j) where the content of place j goes.
LEMMA PermutedTable ==
    ASSUME TableInv,
           NEW from \in [Idx -> Idx], NEW to \in [Idx -> Idx],
           \A i \in Idx : to[from[i]] = i /\ from[to[i]] = i,
           \A i \in Idx : i < created_cnt <=> from[i] < created_cnt,
           subs_events' = [i \in Idx |-> subs_events[from[i]]],
           pending_cnt' \in Nat, pending_cnt' <= created_cnt,
           created_cnt' = created_cnt, handles' = handles
    PROVE  TableInv'
<1> USE EventLoopAssumption DEF TableInv, Partition, Idx
<1>1. subs_events' \in [Idx -> Idx]
  OBVIOUS
<1>2. \A i, j \in Idx : subs_events'[i] = subs_events'[j] => i = j
  OBVIOUS
<1>3. \A i \in 0 .. created_cnt - 1 : subs_events'[i] \in handles
  OBVIOUS
<1>4. \A e \in handles : \E i \in 0 .. created_cnt - 1 : subs_events'[i] = e
  <2> SUFFICES ASSUME NEW e \in handles
               PROVE  \E i \in 0 .. created_cnt - 1 : subs_events'[i] = e
    OBVIOUS
  <2>1. PICK j \in 0 .. created_cnt - 1 : subs_events[j] = e
    OBVIOUS
  <2>2. j \in Idx /\ to[j] \in Idx /\ from[to[j]] = j
    OBVIOUS
  <2>3. to[j] \in 0 .. created_cnt - 1
    BY <2>2
  <2>4. subs_events'[to[j]] = e
    BY <2>1, <2>2
  <2> QED BY <2>3, <2>4
<1>5. pending_cnt' <= created_cnt'
  OBVIOUS
<1>6. Partition'
  <2>1. \A i \in 0 .. created_cnt' - 1 : subs_events'[i] \in handles'
    BY <1>3
  <2>2. \A e \in handles' : \E i \in 0 .. created_cnt' - 1 : subs_events'[i] = e
    BY <1>4
  <2> QED BY <1>2, <1>5, <2>1, <2>2
<1> QED BY <1>1, <1>6

LEMMA RaiseKeepsTable ==
    ASSUME TableInv, NEW e \in handles, infra_evt_raise(e), handles' = handles
    PROVE  TableInv'
<1> USE EventLoopAssumption DEF Idx
<1>1. CASE UNCHANGED table
  BY <1>1 DEF table, TableInv, Partition
<1>2. ASSUME NEW h \in RaisePlaces(e), NEW k \in 0 .. pending_cnt,
             subs_events' = PlaceRaised(h, k),
             pending_cnt' = pending_cnt + 1, created_cnt' = created_cnt
      PROVE  TableInv'
  <2>1. /\ pending_cnt \in Nat /\ created_cnt \in Nat
        /\ pending_cnt <= created_cnt
        /\ created_cnt \in Idx
        /\ h \in pending_cnt .. created_cnt - 1
    BY DEF RaisePlaces, SearchEnd, TableInv, Partition
  <2> DEFINE from == [i \in Idx |-> IF i = k THEN h
                                    ELSE IF k < i /\ i <= pending_cnt THEN i - 1
                                    ELSE IF i = h THEN pending_cnt ELSE i]
             to   == [j \in Idx |-> IF j = h THEN k
                                    ELSE IF k <= j /\ j < pending_cnt THEN j + 1
                                    ELSE IF j = pending_cnt THEN h ELSE j]
  <2>2. from \in [Idx -> Idx] /\ to \in [Idx -> Idx]
    BY <2>1
  <2>3. \A i \in Idx : to[from[i]] = i /\ from[to[i]] = i
    BY <2>1
  <2>4. \A i \in Idx : i < created_cnt <=> from[i] < created_cnt
    BY <2>1
  <2>5. subs_events' = [i \in Idx |-> subs_events[from[i]]]
    BY <1>2, <2>1 DEF PlaceRaised
  <2>6. pending_cnt' \in Nat /\ pending_cnt' <= created_cnt
    BY <1>2, <2>1
  <2> HIDE DEF from, to
  <2> QED BY <1>2, <2>2, <2>3, <2>4, <2>5, <2>6, PermutedTable
<1> QED BY <1>1, <1>2 DEF infra_evt_raise

LEMMA ClearKeepsTable ==
    ASSUME TableInv, NEW h \in 0 .. pending_cnt - 1, subs_clear_pending(h),
           handles' = handles
    PROVE  TableInv'
<1> USE EventLoopAssumption DEF Idx
<1>1. /\ pending_cnt \in Nat /\ created_cnt \in Nat
      /\ pending_cnt <= created_cnt
      /\ created_cnt \in Idx
  BY DEF TableInv, Partition
<1> DEFINE from == [i \in Idx |-> IF h <= i /\ i < pending_cnt - 1 THEN i + 1
                                  ELSE IF i = pending_cnt - 1 THEN h ELSE i]
           to   == [j \in Idx |-> IF j = h THEN pending_cnt - 1
                                  ELSE IF h < j /\ j < pending_cnt THEN j - 1 ELSE j]
<1>2. from \in [Idx -> Idx] /\ to \in [Idx -> Idx]
  BY <1>1
<1>3. \A i \in Idx : to[from[i]] = i /\ from[to[i]] = i
  BY <1>1
<1>4. \A i \in Idx : i < created_cnt <=> from[i] < created_cnt
  BY <1>1
<1>5. subs_events' = [i \in Idx |-> subs_events[from[i]]]
  BY <1>1 DEF subs_clear_pending, PlaceCleared
<1>6. /\ pending_cnt' \in Nat /\ pending_cnt' <= created_cnt
      /\ created_cnt' = created_cnt
  BY <1>1 DEF subs_clear_pending
<1> HIDE DEF from, to
<1> QED BY <1>2, <1>3, <1>4, <1>5, <1>6, PermutedTable

LEMMA RotationKeepsTable ==
    ASSUME TableInv, subs_proc_rtn_none, handles' = handles
    PROVE  TableInv'
<1> USE EventLoopAssumption DEF Idx
<1>1. PICK n \in 1 .. pending_cnt : /\ subs_events' = PlaceRotated(n)
                                    /\ UNCHANGED <<pending_cnt, created_cnt>>
  BY DEF subs_proc_rtn_none
<1>2. /\ pending_cnt \in Nat /\ created_cnt \in Nat
      /\ pending_cnt <= created_cnt
      /\ created_cnt \in Idx
  BY DEF TableInv, Partition
<1> DEFINE from == [i \in Idx |-> IF i < n - 1 THEN i + 1
                                  ELSE IF i = n - 1 THEN 0 ELSE i]
           to   == [j \in Idx |-> IF j = 0 THEN n - 1
                                  ELSE IF j < n THEN j - 1 ELSE j]
<1>3. from \in [Idx -> Idx] /\ to \in [Idx -> Idx]
  BY <1>2
<1>4. \A i \in Idx : to[from[i]] = i /\ from[to[i]] = i
  BY <1>2
<1>5. \A i \in Idx : i < created_cnt <=> from[i] < created_cnt
  BY <1>2
<1>6. subs_events' = [i \in Idx |-> subs_events[from[i]]]
  BY <1>1, <1>2 DEF PlaceRotated
<1> HIDE DEF from, to
<1> QED BY <1>1, <1>2, <1>3, <1>4, <1>5, <1>6, PermutedTable

LEMMA SameTable ==
    ASSUME TableInv, UNCHANGED <<table, handles>>
    PROVE  TableInv'
BY DEF TableInv, Partition, table

\* What stays of a sequence that is cut at the back.
LEMMA CutSequence ==
    ASSUME NEW S, NEW s \in Seq(S), NEW n \in 0 .. Len(s)
    PROVE  /\ SubSeq(s, 1, n) \in Seq(S)
           /\ Len(SubSeq(s, 1, n)) = n
           /\ \A i \in 1 .. n : SubSeq(s, 1, n)[i] = s[i]
BY SubSeqProperties

\* The invariant that carries the type invariant, Partition and NeverCrashed:
\* only created events are raised, and those have a processing function; a
\* processing function on the stack has left a runnable event in the table; a
\* removal of posted events in progress stays within the buffer.
StateInv ==
    /\ TypeOK
    /\ TableInv
    /\ \A i \in 1 .. Len(isr) : isr[i] \in handles
    /\ \A e \in handles : func[e] # "null"
    /\ pc = "callback" <=> running # NoEvent
    /\ pc = "callback" => running \in handles /\ executing /\ pending_cnt > 0
    /\ purge.at # "none" => /\ pc \in {"main", "callback", "idle"}
                            /\ purge.cnt <= Len(isr)
    /\ purge.at = "shift" => purge.h < purge.cnt
    /\ pc # "crashed"

LEMMA InitStateInv == Init => StateInv
<1> SUFFICES ASSUME Init PROVE StateInv
  OBVIOUS
<1> USE EventLoopAssumption DEF Init, NoPurge, Idx, NoEvent
<1>1. TypeOK
  <2>1. isr \in Seq(Idx) /\ Len(isr) <= EventMax
    OBVIOUS
  <2>2. purge \in [at : {"none", "search", "shift"}, evt : Idx \cup {NoEvent},
                   h : 0 .. EventMax, cnt : 0 .. EventMax]
    OBVIOUS
  <2>3. prio \in [Idx -> Nat] /\ func \in [Idx -> {"null", "default", "client"}]
    OBVIOUS
  <2>4. subs_events \in [Idx -> Idx]
    OBVIOUS
  <2> QED BY <2>1, <2>2, <2>3, <2>4 DEF TypeOK
<1>2. TableInv
  BY DEF TableInv, Partition
<1> QED BY <1>1, <1>2 DEF StateInv

\* Steps that leave the table and the buffer of the interrupts alone.
LEMMA QuietStepsKeepStateInv ==
    ASSUME "stale" \notin Calls, StateInv,
           \/ Create \/ Abort \/ Execute \/ Drained \/ Dispatch \/ Idle \/ IdleReturn
           \/ \E e \in Idx : SetCallback(e) \/ Delete(e) \/ PurgeSearch(e)
           \/ \E e \in Idx, p \in Prios : SetPriority(e, p)
           \/ PurgeMiss
    PROVE  StateInv'
<1> USE EventLoopAssumption DEF StateInv, TypeOK, Idx, NoEvent, attrs, ClientRuns, Targets
<1>1. CASE Create
  <2> DEFINE idx == subs_events[created_cnt]
  <2>1. /\ created_cnt \in Idx /\ created_cnt < Creates /\ idx \in Idx
        /\ created_cnt' = created_cnt + 1
        /\ handles' = handles \cup {idx}
        /\ func' = [func EXCEPT ![idx] = "default"]
        /\ prio' = [prio EXCEPT ![idx] = DefaultPrio]
        /\ UNCHANGED <<subs_events, pending_cnt, isr, executing, aborted, pc,
                       running, purge>>
    BY <1>1 DEF Create, TableInv
  <2>2. TableInv'
    <3>1. \A i \in 0 .. created_cnt' - 1 : subs_events'[i] \in handles'
      BY <2>1 DEF TableInv, Partition
    <3>2. \A e \in handles' : \E i \in 0 .. created_cnt' - 1 : subs_events'[i] = e
      BY <2>1 DEF TableInv, Partition
    <3> QED BY <2>1, <3>1, <3>2 DEF TableInv, Partition
  <2>3. TypeOK'
    <3> HIDE DEF idx
    <3>1. prio' \in [Idx -> Nat]
      BY <2>1
    <3>2. func' \in [Idx -> {"null", "default", "client"}]
      BY <2>1
    <3>3. handles' \subseteq Idx
      BY <2>1
    <3>4. created_cnt' \in 0 .. EventMax
      BY <2>1
    <3> QED BY <2>1, <3>1, <3>2, <3>3, <3>4
  <2>4. \A e \in handles' : func'[e] # "null"
    BY <2>1
  <2> HIDE DEF idx
  <2> QED BY <2>1, <2>2, <2>3, <2>4 DEF TableInv
<1>2. CASE Abort
  BY <1>2, SameTable DEF Abort, table
<1>3. CASE Execute
  BY <1>3, SameTable DEF Execute, table
<1>4. CASE Drained
  BY <1>4, SameTable DEF Drained, table
<1>5. CASE Dispatch
  <2>1. subs_events[0] \in handles
    BY <1>5 DEF Dispatch, TableInv, Partition
  <2>2. /\ func[subs_events[0]] # "null"
        /\ pc' = "callback" /\ running' = subs_events[0] /\ executing'
        /\ purge.at = "none" /\ pending_cnt > 0
        /\ UNCHANGED <<table, attrs, isr, aborted, handles, purge>>
    BY <1>5, <2>1 DEF Dispatch
  <2>3. TableInv'
    BY <2>2, SameTable
  <2>4. TypeOK'
    BY <2>1, <2>2, <1>5 DEF Dispatch, table
  <2>5. /\ \A i \in 1 .. Len(isr') : isr'[i] \in handles'
        /\ \A e \in handles' : func'[e] # "null"
    BY <2>2
  <2>6. /\ pc' = "callback" /\ running' # NoEvent
        /\ running' \in handles' /\ executing' /\ pending_cnt' > 0
        /\ purge'.at = "none"
    BY <2>1, <2>2 DEF table
  <2> QED BY <2>3, <2>4, <2>5, <2>6
<1>6. CASE Idle
  BY <1>6, SameTable DEF Idle, table
<1>7. CASE IdleReturn
  BY <1>7, SameTable DEF IdleReturn, NextTurn, table
<1>8. ASSUME NEW e \in Idx, SetCallback(e) PROVE StateInv'
  BY <1>8, SameTable DEF SetCallback, table
<1>9. ASSUME NEW e \in Idx, Delete(e) PROVE StateInv'
  <2>1. \A h \in Idx : subs_events[h] = e => h < created_cnt
    BY <1>9 DEF Delete, TableInv, Partition
  <2>2. pc' = pc /\ UNCHANGED <<table, attrs, isr, executing, aborted, handles,
                                running, purge>>
    BY <1>9, <2>1 DEF Delete, TableInv
  <2> QED BY <2>2, SameTable DEF table
<1>10. ASSUME NEW e \in Idx, PurgeSearch(e) PROVE StateInv'
  <2>1. PICK h \in 0 .. Len(isr) :
          purge' = [at |-> "search", evt |-> e, h |-> h, cnt |-> Len(isr)]
    BY <1>10 DEF PurgeSearch
  <2>2. /\ purge' \in [at : {"none", "search", "shift"}, evt : Idx \cup {NoEvent},
                       h : 0 .. EventMax, cnt : 0 .. EventMax]
        /\ purge'.at = "search" /\ purge'.cnt = Len(isr)
    BY <2>1
  <2>3. /\ UNCHANGED <<table, attrs, isr, executing, aborted, handles, pc, running>>
        /\ pc \in {"main", "callback", "idle"}
    BY <1>10 DEF PurgeSearch
  <2>4. TableInv'
    BY <2>3, SameTable
  <2>5. TypeOK'
    BY <2>2, <2>3 DEF table
  <2>6. /\ \A i \in 1 .. Len(isr') : isr'[i] \in handles'
        /\ \A f \in handles' : func'[f] # "null"
    BY <2>3
  <2>7. /\ pc' = "callback" <=> running' # NoEvent
        /\ pc' = "callback" => running' \in handles' /\ executing' /\ pending_cnt' > 0
        /\ purge'.at = "search" /\ purge'.cnt <= Len(isr')
        /\ pc' \in {"main", "callback", "idle"}
    BY <2>2, <2>3 DEF table
  <2> QED BY <2>4, <2>5, <2>6, <2>7
<1>11. ASSUME NEW e \in Idx, NEW p \in Prios, SetPriority(e, p) PROVE StateInv'
  BY <1>11, SameTable DEF SetPriority, table
<1>12. CASE PurgeMiss
  <2>1. /\ purge' \in [at : {"none", "search", "shift"}, evt : Idx \cup {NoEvent},
                       h : 0 .. EventMax, cnt : 0 .. EventMax]
        /\ purge'.at = "none"
    BY <1>12 DEF PurgeMiss, NoPurge
  <2> QED BY <1>12, <2>1, SameTable DEF PurgeMiss, table
<1> QED BY <1>1, <1>2, <1>3, <1>4, <1>5, <1>6, <1>7, <1>8, <1>9, <1>10, <1>11, <1>12

\* Steps that change the table.
LEMMA TableStepsKeepStateInv ==
    ASSUME "stale" \notin Calls, StateInv,
           \/ \E e \in Idx : Raise(e) \/ Clear(e)
           \/ \E status \in {"NONE", "CLEAR"} : Return(status)
           \/ Drain
    PROVE  StateInv'
<1> USE EventLoopAssumption DEF Idx, NoEvent
<1>0. ASSUME TableInv', handles' = handles, pending_cnt' \in Nat
      PROVE  /\ subs_events' \in [Idx -> Idx]
             /\ pending_cnt' \in 0 .. EventMax
             /\ created_cnt' \in 0 .. EventMax
  BY <1>0 DEF TableInv, Partition
<1>1. ASSUME NEW e \in Idx, Raise(e) PROVE StateInv'
  <2>1. /\ e \in handles /\ infra_evt_raise(e)
        /\ UNCHANGED <<attrs, isr, executing, aborted, handles, pc, running, purge>>
    BY <1>1 DEF Raise, Targets
  <2>2. TableInv'
    BY <2>1, RaiseKeepsTable DEF StateInv
  <2>3. pending_cnt' \in Nat /\ pending_cnt' >= pending_cnt
    BY <2>1 DEF infra_evt_raise, table, StateInv, TableInv
  <2>4. TypeOK'
    BY <1>0, <2>1, <2>2, <2>3 DEF StateInv, TypeOK, attrs
  <2>5. pc = "callback" => pending_cnt' > 0
    BY <2>3 DEF StateInv, TypeOK
  <2> QED BY <2>1, <2>2, <2>4, <2>5 DEF StateInv, attrs
<1>2. ASSUME NEW e \in Idx, Clear(e) PROVE StateInv'
  <2>1. PICK h \in 0 .. pending_cnt - 1 :
          (h # 0 \/ ~executing) /\ subs_clear_pending(h)
    BY <1>2 DEF Clear
  <2>2. UNCHANGED <<attrs, isr, executing, aborted, handles, pc, running, purge>>
    BY <1>2 DEF Clear
  <2>3. TableInv'
    BY <2>1, <2>2, ClearKeepsTable DEF StateInv
  <2>4. pending_cnt' \in Nat /\ (executing => pending_cnt' > 0)
    BY <2>1 DEF subs_clear_pending, StateInv, TableInv
  <2>5. TypeOK'
    BY <1>0, <2>2, <2>3, <2>4 DEF StateInv, TypeOK, attrs
  <2> QED BY <2>2, <2>3, <2>4, <2>5 DEF StateInv, TypeOK, attrs
<1>3. ASSUME NEW status \in {"NONE", "CLEAR"}, Return(status) PROVE StateInv'
  <2>1. /\ pc = "callback" /\ subs_proc_rtn(status)
        /\ running' = NoEvent /\ pc' = NextTurn /\ purge.at = "none"
        /\ UNCHANGED <<attrs, isr, executing, aborted, handles, purge>>
    BY <1>3 DEF Return
  <2>2. 0 \in 0 .. pending_cnt - 1
    BY <2>1 DEF StateInv, TableInv
  <2>3. TableInv' /\ pending_cnt' \in Nat
    <3>1. CASE status = "CLEAR"
      BY <2>1, <2>2, <3>1, ClearKeepsTable
         DEF subs_proc_rtn, subs_clear_pending, StateInv, TableInv
    <3>2. CASE status = "NONE"
      BY <2>1, <3>2, RotationKeepsTable
         DEF subs_proc_rtn, subs_proc_rtn_none, StateInv, TableInv
    <3> QED BY <3>1, <3>2
  <2>4. TypeOK'
    BY <1>0, <2>1, <2>3 DEF StateInv, TypeOK, attrs, NextTurn
  <2> QED BY <2>1, <2>3, <2>4 DEF StateInv, TypeOK, attrs, NextTurn
<1>4. CASE Drain
  <2> DEFINE n == Len(isr)
  <2>1. /\ n \in Nat /\ n > 0 /\ isr \in Seq(Idx) /\ n <= EventMax
        /\ isr[n] \in handles
    <3>1. isr \in Seq(Idx) /\ isr # <<>>
      BY <1>4 DEF Drain, StateInv, TypeOK
    <3>2. n \in Nat /\ n > 0
      BY <3>1
    <3> QED BY <3>1, <3>2 DEF StateInv, TypeOK
  <2>2. /\ infra_evt_raise(isr[n]) /\ isr' = SubSeq(isr, 1, n - 1) /\ pc = "drain"
        /\ UNCHANGED <<attrs, executing, aborted, handles, pc, running, purge>>
    BY <1>4 DEF Drain
  <2> HIDE DEF n
  <2>3. TableInv'
    BY <2>1, <2>2, RaiseKeepsTable DEF StateInv
  <2>4. pending_cnt' \in Nat
    BY <2>3 DEF TableInv
  <2>5. /\ isr' \in Seq(Idx) /\ Len(isr') = n - 1
        /\ \A i \in 1 .. n - 1 : isr'[i] = isr[i]
    <3>1. n - 1 \in 0 .. Len(isr)
      BY <2>1 DEF n
    <3> QED BY <2>1, <2>2, <3>1, CutSequence
  <2>6. TypeOK'
    <3>1. Len(isr') <= EventMax
      BY <2>1, <2>5
    <3> HIDE DEF Idx
    <3> QED BY <1>0, <2>2, <2>3, <2>4, <2>5, <3>1 DEF StateInv, TypeOK, attrs
  <2>7. \A i \in 1 .. Len(isr') : isr'[i] \in handles'
    BY <2>1, <2>2, <2>5 DEF StateInv, n
  <2>8. purge'.at = "none" /\ pc' # "callback" /\ running' = NoEvent
    BY <2>2 DEF StateInv, TypeOK
  <2> QED BY <2>2, <2>3, <2>6, <2>7, <2>8 DEF StateInv, attrs
<1> QED BY <1>1, <1>2, <1>3, <1>4

\* Steps that change the buffer of the interrupts.
LEMMA BufferStepsKeepStateInv ==
    ASSUME "stale" \notin Calls, StateInv,
           \/ \E e \in Idx : RaiseISR(e)
           \/ PurgeShift \/ PurgeEnd
    PROVE  StateInv'
<1> USE EventLoopAssumption DEF Idx, NoEvent
<1> DEFINE n == Len(isr)
<1>0. isr \in Seq(Idx) /\ n \in Nat /\ n <= EventMax
  BY DEF StateInv, TypeOK
<1>1. ASSUME NEW e \in Idx, RaiseISR(e) PROVE StateInv'
  <2>1. /\ e \in handles /\ n < EventMax /\ isr' = Append(isr, e)
        /\ UNCHANGED <<table, attrs, executing, aborted, handles, pc, running, purge>>
    BY <1>1 DEF RaiseISR, Targets
  <2>2. /\ isr' \in Seq(Idx) /\ Len(isr') = n + 1
        /\ \A i \in 1 .. n + 1 : isr'[i] \in handles
    BY <1>0, <2>1 DEF StateInv
  <2> HIDE DEF n
  <2>3. TableInv'
    BY <2>1, SameTable DEF StateInv
  <2>4. TypeOK'
    <3>1. Len(isr') <= EventMax
      BY <1>0, <2>1, <2>2
    <3> HIDE DEF Idx
    <3> QED BY <2>1, <2>2, <3>1 DEF StateInv, TypeOK, attrs, table
  <2>5. purge'.at # "none" => purge'.cnt <= Len(isr')
    BY <1>0, <2>1, <2>2 DEF StateInv, TypeOK, n
  <2> QED BY <2>1, <2>2, <2>3, <2>4, <2>5 DEF StateInv, attrs, table
<1>2. CASE PurgeShift
  <2>1. PICK m \in Counts :
          /\ purge.h < m
          /\ isr' = [i \in 1 .. n |-> IF purge.h < i /\ i < m THEN isr[i + 1] ELSE isr[i]]
          /\ purge' = [purge EXCEPT !.at = "shift", !.cnt = m]
    BY <1>2 DEF PurgeShift
  <2>2. /\ purge.at = "search"
        /\ UNCHANGED <<table, attrs, executing, aborted, handles, pc, running>>
    BY <1>2 DEF PurgeShift
  <2>3. m \in 0 .. n /\ purge.h \in 0 .. EventMax
    BY <1>0, <2>1, <2>2 DEF Counts, StateInv, TypeOK
  <2>4. /\ isr' \in Seq(Idx) /\ Len(isr') = n
        /\ \A i \in 1 .. n : isr'[i] \in handles
    <3>1. \A i \in 1 .. n : isr[i] \in Idx /\ isr[i] \in handles
      BY <1>0 DEF StateInv
    <3>2. \A i \in 1 .. n : isr'[i] \in Idx /\ isr'[i] \in handles
      <4> SUFFICES ASSUME NEW i \in 1 .. n
                   PROVE  isr'[i] \in Idx /\ isr'[i] \in handles
        OBVIOUS
      <4>1. m <= n /\ m \in Nat
        BY <1>0, <2>3
      <4>2. purge.h < i /\ i < m => i + 1 \in 1 .. n
        BY <1>0, <4>1
      <4>3. isr'[i] = IF purge.h < i /\ i < m THEN isr[i + 1] ELSE isr[i]
        BY <2>1
      <4> HIDE DEF n, Idx
      <4> QED BY <3>1, <4>2, <4>3
    <3>3. isr' \in [1 .. n -> Idx]
      BY <2>1, <3>2
    <3> HIDE DEF n, Idx
    <3>4. isr' \in Seq(Idx) /\ Len(isr') = n
      BY <1>0, <3>3
    <3> QED BY <3>2, <3>4
  <2>5. /\ purge' \in [at : {"none", "search", "shift"}, evt : Idx \cup {NoEvent},
                       h : 0 .. EventMax, cnt : 0 .. EventMax]
        /\ purge'.at = "shift" /\ purge'.h = purge.h /\ purge'.cnt = m
    <3>1. purge \in [at : {"none", "search", "shift"}, evt : Idx \cup {NoEvent},
                     h : 0 .. EventMax, cnt : 0 .. EventMax]
      BY DEF StateInv, TypeOK
    <3>2. m \in 0 .. EventMax
      BY <1>0, <2>3
    <3> HIDE DEF Idx, n
    <3> QED BY <2>1, <3>1, <3>2
  <2> HIDE DEF n
  <2>6. TableInv'
    BY <2>2, SameTable DEF StateInv
  <2>7. TypeOK'
    <3> HIDE DEF Idx
    <3> QED BY <1>0, <2>2, <2>4, <2>5 DEF StateInv, TypeOK, attrs, table
  <2>8. /\ purge'.h < purge'.cnt /\ purge'.cnt <= Len(isr')
        /\ pc' \in {"main", "callback", "idle"}
    <3>1. m <= n
      BY <1>0, <2>3
    <3>2. pc \in {"main", "callback", "idle"}
      BY <2>2 DEF StateInv
    <3> QED BY <2>1, <2>2, <2>4, <2>5, <3>1, <3>2
  <2> QED BY <2>2, <2>4, <2>6, <2>7, <2>8 DEF StateInv, attrs, table
<1>3. CASE PurgeEnd
  <2>1. PICK m \in Counts : isr' = SubSeq(isr, 1, m - 1)
    BY <1>3 DEF PurgeEnd
  <2>2. /\ purge.at = "shift" /\ purge' = NoPurge
        /\ UNCHANGED <<table, attrs, executing, aborted, handles, pc, running>>
    BY <1>3 DEF PurgeEnd
  <2>3. m \in 1 .. n
    <3>1. /\ purge.h \in 0 .. EventMax /\ purge.cnt \in 0 .. EventMax
          /\ purge.h < purge.cnt /\ purge.cnt <= Len(isr)
      BY <2>2 DEF StateInv, TypeOK
    <3>2. m = Len(isr) \/ m = purge.cnt
      BY DEF Counts
    <3> QED BY <1>0, <3>1, <3>2
  <2>4. /\ isr' \in Seq(Idx) /\ Len(isr') = m - 1
        /\ \A i \in 1 .. m - 1 : isr'[i] = isr[i]
    <3>1. m - 1 \in 0 .. Len(isr)
      BY <1>0, <2>3
    <3> QED BY <1>0, <2>1, <3>1, CutSequence
  <2>5. /\ purge' \in [at : {"none", "search", "shift"}, evt : Idx \cup {NoEvent},
                       h : 0 .. EventMax, cnt : 0 .. EventMax]
        /\ purge'.at = "none"
    BY <2>2 DEF NoPurge
  <2>6. \A i \in 1 .. Len(isr') : isr'[i] \in handles'
    <3> SUFFICES ASSUME NEW i \in 1 .. m - 1
                 PROVE  isr'[i] \in handles
      BY <2>2, <2>4
    <3>1. i \in 1 .. Len(isr)
      BY <1>0, <2>3
    <3>2. isr[i] \in handles
      BY <3>1 DEF StateInv
    <3> QED BY <2>4, <3>2
  <2> HIDE DEF n
  <2>7. TableInv'
    BY <2>2, SameTable DEF StateInv
  <2>8. TypeOK'
    <3>1. Len(isr') <= EventMax
      BY <1>0, <2>3, <2>4
    <3> HIDE DEF Idx
    <3> QED BY <2>2, <2>4, <2>5, <3>1 DEF StateInv, TypeOK, attrs, table
  <2> QED BY <2>2, <2>5, <2>6, <2>7, <2>8 DEF StateInv, attrs, table
<1> QED BY <1>1, <1>2, <1>3

LEMMA StateInvHolds ==
    ASSUME "stale" \notin Calls
    PROVE  Spec => []StateInv
<1>1. Init => StateInv
  BY InitStateInv
<1>2. StateInv /\ [Next]_vars => StateInv'
  <2> SUFFICES ASSUME StateInv, [Next]_vars PROVE StateInv'
    OBVIOUS
  <2>1. CASE UNCHANGED vars
    BY <2>1, SameTable
       DEF vars, StateInv, TypeOK, table, TableInv, Partition
  <2>2. CASE Client
    BY <2>2, QuietStepsKeepStateInv, TableStepsKeepStateInv DEF Client
  <2>3. CASE Purge
    BY <2>3, QuietStepsKeepStateInv, BufferStepsKeepStateInv DEF Purge
  <2>4. CASE Loop
    BY <2>4, QuietStepsKeepStateInv, TableStepsKeepStateInv DEF Loop
  <2>5. CASE \E e \in Idx : RaiseISR(e)
    BY <2>5, BufferStepsKeepStateInv
  <2> QED BY <2>1, <2>2, <2>3, <2>4, <2>5 DEF Next
<1> QED BY <1>1, <1>2, PTL DEF Spec

\* event.c: every variable of the library keeps its type, and both counts and
\* every stored index stay within the arrays.
THEOREM TypeCorrect ==
    ASSUME "stale" \notin Calls
    PROVE  Spec => []TypeOK
<1>1. StateInv => TypeOK
  BY DEF StateInv
<1> QED BY <1>1, StateInvHolds, PTL

\* event.c:52-57: the table stays a permutation of all events whose first
\* created_cnt places hold exactly the events that create handed out.
THEOREM TablePartitioned ==
    ASSUME "stale" \notin Calls
    PROVE  Spec => []Partition
<1>1. StateInv => Partition
  BY DEF StateInv, TableInv
<1> QED BY <1>1, StateInvHolds, PTL

\* event.c:240: the loop calls registered processing functions only, and no
\* delete leaves the table, as long as clients name events they created.
THEOREM NoCrash ==
    ASSUME "stale" \notin Calls
    PROVE  Spec => []NeverCrashed
<1>1. StateInv => NeverCrashed
  BY DEF StateInv, NeverCrashed
<1> QED BY <1>1, StateInvHolds, PTL
--------------------------------------------------------------------------------
(* The order of the runnable events.                                        *)

\* Sorted and HeadIsRunning depend on one another: the event on the stack
\* stays the head because a raise inserts behind what is not less urgent,
\* which the insertion finds by comparing with a sorted array.
OrderInv == Sorted /\ HeadIsRunning

\* Names for the places that a proof about the order looks at.
LEMMA TableFacts ==
    ASSUME StateInv
    PROVE  /\ subs_events \in [Idx -> Idx] /\ prio \in [Idx -> Nat]
           /\ pending_cnt \in Nat /\ created_cnt \in Nat
           /\ pending_cnt <= created_cnt /\ created_cnt < EventMax
           /\ EventMax \in Nat
           /\ \A i \in 0 .. pending_cnt - 1 : i \in Idx /\ prio[subs_events[i]] \in Nat
           /\ \A i, j \in Idx : subs_events[i] = subs_events[j] => i = j
<1>1. /\ subs_events \in [Idx -> Idx] /\ prio \in [Idx -> Nat]
      /\ pending_cnt \in Nat /\ created_cnt \in Nat
      /\ pending_cnt <= created_cnt /\ created_cnt < EventMax
      /\ EventMax \in Nat
  BY EventLoopAssumption DEF StateInv, TypeOK, TableInv, Partition
<1>2. \A i \in 0 .. pending_cnt - 1 : i \in Idx
  BY <1>1 DEF Idx
<1>3. \A i, j \in Idx : subs_events[i] = subs_events[j] => i = j
  BY DEF StateInv, TableInv, Partition
<1> QED BY <1>1, <1>2, <1>3

LEMMA RaiseKeepsOrder ==
    ASSUME StateInv, OrderInv, NEW e \in Idx, infra_evt_raise(e),
           e \in handles, prio' = prio, running' = running, executing' = executing,
           running # NoEvent => prio[e] >= prio[running]
    PROVE  OrderInv'
<1> USE TableFacts
<1>1. CASE UNCHANGED table
  BY <1>1 DEF table, OrderInv, Sorted, HeadIsRunning
<1>2. ASSUME NEW h \in RaisePlaces(e), NEW k \in 0 .. pending_cnt, InsertsAt(e, k),
             subs_events' = PlaceRaised(h, k), pending_cnt' = pending_cnt + 1
      PROVE  OrderInv'
  <2>1. h \in pending_cnt .. created_cnt /\ subs_events[h] = e
    BY DEF RaisePlaces, SearchEnd
  <2>2. \A i \in 0 .. pending_cnt :
          subs_events'[i] = IF i = k THEN e
                            ELSE IF k < i THEN subs_events[i - 1] ELSE subs_events[i]
    BY <1>2, <2>1 DEF PlaceRaised, Idx
  <2>3. /\ k # 0 => prio[subs_events[k - 1]] <= prio[e]
        /\ \A j \in k .. pending_cnt - 1 : prio[subs_events[j]] > prio[e]
    BY <1>2 DEF InsertsAt
  <2>4. \A i \in 0 .. k - 1 : prio[subs_events[i]] <= prio[e]
    <3> SUFFICES ASSUME NEW i \in 0 .. k - 1
                 PROVE  prio[subs_events[i]] <= prio[e]
      OBVIOUS
    <3>1. i = k - 1 \/ prio[subs_events[i]] <= prio[subs_events[k - 1]]
      BY DEF OrderInv, Sorted
    <3>2. k - 1 \in 0 .. pending_cnt - 1 /\ i \in 0 .. pending_cnt - 1
      OBVIOUS
    <3> QED BY <2>3, <3>1, <3>2
  <2>5. Sorted'
    <3> SUFFICES ASSUME NEW i \in 0 .. pending_cnt, NEW j \in 0 .. pending_cnt, i < j
                 PROVE  prio[subs_events'[i]] <= prio[subs_events'[j]]
      BY <1>2 DEF Sorted
    <3>1. CASE j = k
      BY <2>2, <2>4, <3>1
    <3>2. CASE i = k
      <4>1. j - 1 \in k .. pending_cnt - 1
        BY <3>2
      <4>2. prio[subs_events[j - 1]] > prio[e]
        BY <2>3, <4>1
      <4> QED BY <2>2, <3>2, <4>2, <4>1
    <3>3. CASE i < k /\ k < j
      <4>1. j - 1 \in 0 .. pending_cnt - 1 /\ i \in 0 .. pending_cnt - 1 /\ i < j - 1
        BY <3>3
      <4> QED BY <2>2, <3>3, <4>1 DEF OrderInv, Sorted
    <3>4. CASE j < k
      BY <2>2, <3>4 DEF OrderInv, Sorted
    <3>5. CASE k < i
      <4>1. j - 1 \in 0 .. pending_cnt - 1 /\ i - 1 \in 0 .. pending_cnt - 1
        BY <3>5
      <4> QED BY <2>2, <3>5, <4>1 DEF OrderInv, Sorted
    <3> QED BY <3>1, <3>2, <3>3, <3>4, <3>5
  <2>6. HeadIsRunning'
    <3> SUFFICES ASSUME running # NoEvent
                 PROVE  executing' /\ pending_cnt' > 0 /\ subs_events'[0] = running
      BY DEF HeadIsRunning
    <3>1. executing /\ pending_cnt > 0 /\ subs_events[0] = running
      BY DEF OrderInv, HeadIsRunning
    <3>2. k # 0
      <4> SUFFICES ASSUME k = 0 PROVE FALSE
        OBVIOUS
      <4>1. 0 \in k .. pending_cnt - 1
        BY <3>1
      <4>2. prio[running] > prio[e]
        BY <2>3, <3>1, <4>1
      <4>3. prio[running] \in Nat /\ prio[e] \in Nat
        BY <3>1, <4>1
      <4> QED BY <4>2, <4>3
    <3> QED BY <1>2, <2>2, <3>1, <3>2
  <2> QED BY <2>5, <2>6 DEF OrderInv
<1> QED BY <1>1, <1>2 DEF infra_evt_raise

LEMMA ClearKeepsSorted ==
    ASSUME StateInv, OrderInv, NEW h \in 0 .. pending_cnt - 1,
           subs_clear_pending(h), prio' = prio
    PROVE  Sorted'
<1> USE TableFacts
<1>1. pending_cnt' = pending_cnt - 1
  BY DEF subs_clear_pending
<1>2. \A i \in 0 .. pending_cnt - 2 :
        subs_events'[i] = IF h <= i THEN subs_events[i + 1] ELSE subs_events[i]
  BY DEF subs_clear_pending, PlaceCleared, Idx
<1> SUFFICES ASSUME NEW i \in 0 .. pending_cnt - 2, NEW j \in 0 .. pending_cnt - 2, i < j
             PROVE  prio[subs_events'[i]] <= prio[subs_events'[j]]
  BY <1>1 DEF Sorted
<1>3. /\ i + 1 \in 0 .. pending_cnt - 1 /\ j + 1 \in 0 .. pending_cnt - 1
      /\ i \in 0 .. pending_cnt - 1 /\ j \in 0 .. pending_cnt - 1
  OBVIOUS
<1> QED BY <1>2, <1>3 DEF OrderInv, Sorted

LEMMA RotationKeepsSorted ==
    ASSUME StateInv, OrderInv, subs_proc_rtn_none, prio' = prio
    PROVE  Sorted'
<1> USE TableFacts
<1>1. PICK n \in 1 .. pending_cnt :
        /\ SamePrioRun(n) /\ subs_events' = PlaceRotated(n)
        /\ pending_cnt' = pending_cnt
  BY DEF subs_proc_rtn_none
<1>2. \A i \in 0 .. pending_cnt - 1 :
        subs_events'[i] = IF i < n - 1 THEN subs_events[i + 1]
                          ELSE IF i = n - 1 THEN subs_events[0] ELSE subs_events[i]
  BY <1>1 DEF PlaceRotated
<1>3. \A i \in 0 .. n - 1 : prio[subs_events[i]] = prio[subs_events[0]]
  BY <1>1 DEF SamePrioRun
<1>4. \A i \in 0 .. pending_cnt - 1 : prio[subs_events'[i]] = prio[subs_events[i]]
  <2> SUFFICES ASSUME NEW i \in 0 .. pending_cnt - 1
               PROVE  prio[subs_events'[i]] = prio[subs_events[i]]
    OBVIOUS
  <2>1. CASE i < n - 1
    <3>1. i \in 0 .. n - 1 /\ i + 1 \in 0 .. n - 1
      BY <2>1
    <3> QED BY <1>2, <1>3, <2>1, <3>1
  <2>2. CASE i = n - 1
    BY <1>2, <1>3, <2>2
  <2>3. CASE i > n - 1
    BY <1>2, <2>3
  <2> QED BY <2>1, <2>2, <2>3
<1> QED BY <1>1, <1>4 DEF OrderInv, Sorted

LEMMA StepKeepsOrderInv ==
    ASSUME "stale" \notin Calls, "urgent" \notin Calls, "reprioritise" \notin Calls,
           StateInv, OrderInv, Next
    PROVE  OrderInv'
<1> USE TableFacts
<1>1. ASSUME UNCHANGED <<table, prio, running, executing>> PROVE OrderInv'
  BY <1>1 DEF OrderInv, Sorted, HeadIsRunning, table
<1>2. CASE Create
  <2>1. /\ created_cnt \in Idx /\ UNCHANGED <<subs_events, pending_cnt, running, executing>>
        /\ prio' = [prio EXCEPT ![subs_events[created_cnt]] = DefaultPrio]
    BY <1>2 DEF Create, Idx
  <2>2. \A i \in 0 .. pending_cnt - 1 : prio'[subs_events[i]] = prio[subs_events[i]]
    BY <2>1
  <2> QED BY <2>1, <2>2 DEF OrderInv, Sorted, HeadIsRunning
<1>3. ASSUME NEW e \in Idx, NEW p \in Prios, SetPriority(e, p) PROVE OrderInv'
  <2>1. /\ e \notin Runnable /\ UNCHANGED <<table, running, executing>>
        /\ prio' = [prio EXCEPT ![e] = p]
    BY <1>3 DEF SetPriority
  <2>2. \A i \in 0 .. pending_cnt - 1 : prio'[subs_events[i]] = prio[subs_events[i]]
    BY <2>1 DEF Runnable
  <2> QED BY <2>1, <2>2 DEF OrderInv, Sorted, HeadIsRunning, table
<1>4. ASSUME NEW e \in Idx, Raise(e) PROVE OrderInv'
  <2>1. /\ e \in handles /\ infra_evt_raise(e)
        /\ UNCHANGED <<prio, running, executing>>
        /\ running # NoEvent => prio[e] >= prio[running]
    BY <1>4 DEF Raise, Targets, attrs
  <2> QED BY <2>1, RaiseKeepsOrder
<1>5. ASSUME NEW e \in Idx, Clear(e) PROVE OrderInv'
  <2>1. PICK h \in 0 .. pending_cnt - 1 :
          (h # 0 \/ ~executing) /\ subs_clear_pending(h)
    BY <1>5 DEF Clear
  <2>2. UNCHANGED <<prio, running, executing>>
    BY <1>5 DEF Clear, attrs
  <2>3. Sorted'
    BY <2>1, <2>2, ClearKeepsSorted
  <2>4. HeadIsRunning'
    BY <2>1, <2>2 DEF OrderInv, HeadIsRunning, subs_clear_pending, PlaceCleared, Idx
  <2> QED BY <2>3, <2>4 DEF OrderInv
<1>6. CASE Drain
  <2>1. /\ isr # <<>> /\ infra_evt_raise(isr[Len(isr)]) /\ pc = "drain"
        /\ UNCHANGED <<prio, running, executing>>
    BY <1>6 DEF Drain, attrs
  <2>2. Len(isr) \in 1 .. Len(isr) /\ running = NoEvent
    BY <2>1 DEF StateInv, TypeOK
  <2>3. isr[Len(isr)] \in handles /\ isr[Len(isr)] \in Idx
    BY <2>2 DEF StateInv, TypeOK
  <2> QED BY <2>1, <2>2, <2>3, RaiseKeepsOrder
<1>7. CASE Dispatch
  <2>1. /\ pending_cnt > 0 /\ executing' = TRUE
        /\ UNCHANGED <<table, prio>>
        /\ running' = running \/ running' = subs_events[0]
    BY <1>7 DEF Dispatch, attrs
  <2>2. pc = "select" => running = NoEvent
    BY DEF StateInv
  <2> QED BY <1>7, <2>1, <2>2 DEF Dispatch, OrderInv, Sorted, HeadIsRunning, table
<1>8. ASSUME NEW status \in {"NONE", "CLEAR"}, Return(status) PROVE OrderInv'
  <2>1. /\ subs_proc_rtn(status) /\ running' = NoEvent /\ prio' = prio
        /\ pc = "callback"
    BY <1>8 DEF Return, attrs
  <2>2. 0 \in 0 .. pending_cnt - 1
    BY <2>1 DEF StateInv
  <2>3. Sorted'
    BY <2>1, <2>2, ClearKeepsSorted, RotationKeepsSorted DEF subs_proc_rtn
  <2> QED BY <2>1, <2>3 DEF OrderInv, HeadIsRunning
<1>9. CASE Idle
  <2>1. pc = "select" /\ UNCHANGED <<table, prio, running>>
    BY <1>9 DEF Idle, attrs
  <2>2. running = NoEvent
    BY <2>1 DEF StateInv
  <2> QED BY <2>1, <2>2 DEF OrderInv, Sorted, HeadIsRunning, table
<1>10. CASE \/ Abort \/ Purge \/ Execute \/ Drained \/ IdleReturn
            \/ \E e \in Idx : \/ SetCallback(e) \/ Delete(e) \/ PurgeSearch(e)
                             \/ RaiseISR(e)
  BY <1>1, <1>10
     DEF Abort, Purge, PurgeMiss, PurgeShift, PurgeEnd, Execute, Drained, IdleReturn,
         SetCallback, Delete, PurgeSearch, RaiseISR, attrs
<1> QED
  BY <1>2, <1>3, <1>4, <1>5, <1>6, <1>7, <1>8, <1>9, <1>10 DEF Next, Client, Loop

LEMMA OrderInvHolds ==
    ASSUME "stale" \notin Calls, "urgent" \notin Calls, "reprioritise" \notin Calls
    PROVE  Spec => []OrderInv
<1>1. Init => OrderInv
  BY DEF Init, OrderInv, Sorted, HeadIsRunning
<1>2. StateInv /\ OrderInv /\ [Next]_vars => OrderInv'
  <2> SUFFICES ASSUME StateInv, OrderInv, [Next]_vars PROVE OrderInv'
    OBVIOUS
  <2>1. CASE Next
    BY <2>1, StepKeepsOrderInv
  <2>2. CASE UNCHANGED vars
    BY <2>2 DEF vars, OrderInv, Sorted, HeadIsRunning
  <2> QED BY <2>1, <2>2
<1> QED BY <1>1, <1>2, StateInvHolds, PTL DEF Spec

\* event.c:53: the runnable events are sorted by priority after every call and
\* every turn of the loop, if no client changes the priority of a runnable
\* event and no processing function raises an event more urgent than its own.
THEOREM RunnableSorted ==
    ASSUME "stale" \notin Calls, "urgent" \notin Calls, "reprioritise" \notin Calls
    PROVE  Spec => []Sorted
<1>1. OrderInv => Sorted
  BY DEF OrderInv
<1> QED BY <1>1, OrderInvHolds, PTL

\* event.c:240-241: under the same discipline the status of a processing
\* function is applied to the event whose function ran.
THEOREM StatusMeetsItsEvent ==
    ASSUME "stale" \notin Calls, "urgent" \notin Calls, "reprioritise" \notin Calls
    PROVE  Spec => []HeadIsRunning
<1>1. OrderInv => HeadIsRunning
  BY DEF OrderInv
<1> QED BY <1>1, OrderInvHolds, PTL
--------------------------------------------------------------------------------
(* What the table holds before and after its three permutations.            *)

LEMMA CreatedAreHandles ==
    /\ TableInv => Created = handles
    /\ TableInv' => Created' = handles'
<1>1. ASSUME TableInv PROVE Created = handles
  <2>1. /\ \A i \in 0 .. created_cnt - 1 : subs_events[i] \in handles
        /\ \A e \in handles : \E i \in 0 .. created_cnt - 1 : subs_events[i] = e
    BY <1>1 DEF TableInv, Partition
  <2> QED BY <2>1 DEF Created
<1>2. ASSUME TableInv' PROVE Created' = handles'
  <2>1. /\ \A i \in 0 .. created_cnt' - 1 : subs_events'[i] \in handles'
        /\ \A e \in handles' : \E i \in 0 .. created_cnt' - 1 : subs_events'[i] = e
    BY <1>2 DEF TableInv, Partition
  <2> QED BY <2>1 DEF Created
<1> QED BY <1>1, <1>2

\* A raise makes its event runnable, wherever it was, and no other.
LEMMA RaiseEffect ==
    ASSUME StateInv, NEW e \in handles, infra_evt_raise(e)
    PROVE  Runnable' = Runnable \cup {e}
<1> USE TableFacts
<1>0. PICK p \in 0 .. created_cnt - 1 : subs_events[p] = e
  BY DEF StateInv, TableInv, Partition
<1>1. CASE RaisePlaces(e) = {} /\ UNCHANGED table
  <2>1. p \in 0 .. pending_cnt - 1
    BY <1>0, <1>1 DEF RaisePlaces, SearchEnd
  <2>2. e \in Runnable
    BY <1>0, <2>1 DEF Runnable
  <2> QED BY <1>1, <2>2 DEF table, Runnable
<1>2. ASSUME NEW h \in RaisePlaces(e), NEW k \in 0 .. pending_cnt,
             subs_events' = PlaceRaised(h, k), pending_cnt' = pending_cnt + 1
      PROVE  Runnable' = Runnable \cup {e}
  <2>1. h \in pending_cnt .. created_cnt /\ subs_events[h] = e
    BY DEF RaisePlaces, SearchEnd
  <2>2. \A i \in 0 .. pending_cnt :
          subs_events'[i] = IF i = k THEN e
                            ELSE IF k < i THEN subs_events[i - 1] ELSE subs_events[i]
    BY <1>2, <2>1 DEF PlaceRaised, Idx
  <2>3. Runnable' = {subs_events'[i] : i \in 0 .. pending_cnt}
    BY <1>2 DEF Runnable
  <2>4. ASSUME NEW i \in 0 .. pending_cnt
        PROVE  subs_events'[i] \in Runnable \cup {e}
    <3>1. i # k /\ k < i => i - 1 \in 0 .. pending_cnt - 1
      OBVIOUS
    <3>2. i # k /\ ~(k < i) => i \in 0 .. pending_cnt - 1
      OBVIOUS
    <3> QED BY <2>2, <3>1, <3>2 DEF Runnable
  <2>5. ASSUME NEW j \in 0 .. pending_cnt - 1
        PROVE  \E i \in 0 .. pending_cnt : subs_events'[i] = subs_events[j]
    <3>1. CASE j < k
      BY <2>2, <3>1
    <3>2. CASE k <= j
      <4>1. j + 1 \in 0 .. pending_cnt /\ j + 1 # k /\ k < j + 1 /\ (j + 1) - 1 = j
        BY <3>2
      <4> QED BY <2>2, <4>1
    <3> QED BY <3>1, <3>2
  <2>6. subs_events'[k] = e
    BY <2>2
  <2>7. Runnable' \subseteq Runnable \cup {e}
    BY <2>3, <2>4
  <2>8. ASSUME NEW f \in Runnable PROVE f \in Runnable'
    <3>1. PICK j \in 0 .. pending_cnt - 1 : f = subs_events[j]
      BY DEF Runnable
    <3> QED BY <2>3, <2>5, <3>1
  <2>9. e \in Runnable'
    BY <2>3, <2>6
  <2> QED BY <2>7, <2>8, <2>9
<1> QED BY <1>1, <1>2 DEF infra_evt_raise

\* Clearing the event at a place makes that event not runnable, and no other.
LEMMA ClearEffect ==
    ASSUME StateInv, NEW h \in 0 .. pending_cnt - 1, subs_clear_pending(h)
    PROVE  Runnable' = Runnable \ {subs_events[h]}
<1> USE TableFacts
<1>1. pending_cnt' = pending_cnt - 1
  BY DEF subs_clear_pending
<1>2. \A i \in 0 .. pending_cnt - 2 :
        subs_events'[i] = IF h <= i THEN subs_events[i + 1] ELSE subs_events[i]
  BY DEF subs_clear_pending, PlaceCleared, Idx
<1>3. Runnable' = {subs_events'[i] : i \in 0 .. pending_cnt - 2}
  BY <1>1 DEF Runnable
<1>4. ASSUME NEW i \in 0 .. pending_cnt - 2
      PROVE  subs_events'[i] \in Runnable \ {subs_events[h]}
  <2>1. i \in 0 .. pending_cnt - 1 /\ i + 1 \in 0 .. pending_cnt - 1
    OBVIOUS
  <2>2. i \in Idx /\ i + 1 \in Idx /\ h \in Idx
    BY <2>1
  <2> QED BY <1>2, <2>1, <2>2 DEF Runnable
<1>5. ASSUME NEW j \in 0 .. pending_cnt - 1, j # h
      PROVE  \E i \in 0 .. pending_cnt - 2 : subs_events'[i] = subs_events[j]
  <2>1. CASE j < h
    <3>1. j \in 0 .. pending_cnt - 2 /\ ~(h <= j)
      BY <2>1
    <3> QED BY <1>2, <3>1
  <2>2. CASE h < j
    <3>1. j - 1 \in 0 .. pending_cnt - 2 /\ h <= j - 1 /\ (j - 1) + 1 = j
      BY <2>2
    <3> QED BY <1>2, <3>1
  <2> QED BY <1>5, <2>1, <2>2
<1>6. Runnable' \subseteq Runnable \ {subs_events[h]}
  BY <1>3, <1>4
<1>7. ASSUME NEW e \in Runnable, e # subs_events[h] PROVE e \in Runnable'
  <2>1. PICK j \in 0 .. pending_cnt - 1 : e = subs_events[j]
    BY DEF Runnable
  <2> QED BY <1>3, <1>5, <1>7, <2>1
<1> QED BY <1>6, <1>7

\* The rotation after NONE changes the order only.
LEMMA RotationEffect ==
    ASSUME StateInv, subs_proc_rtn_none
    PROVE  Runnable' = Runnable
<1> USE TableFacts
<1>1. PICK n \in 1 .. pending_cnt :
        subs_events' = PlaceRotated(n) /\ pending_cnt' = pending_cnt
  BY DEF subs_proc_rtn_none
<1>2. \A i \in 0 .. pending_cnt - 1 :
        subs_events'[i] = IF i < n - 1 THEN subs_events[i + 1]
                          ELSE IF i = n - 1 THEN subs_events[0] ELSE subs_events[i]
  BY <1>1 DEF PlaceRotated
<1>3. ASSUME NEW i \in 0 .. pending_cnt - 1
      PROVE  subs_events'[i] \in Runnable
  <2>1. i < n - 1 => i + 1 \in 0 .. pending_cnt - 1
    OBVIOUS
  <2>2. 0 \in 0 .. pending_cnt - 1
    OBVIOUS
  <2> QED BY <1>2, <2>1, <2>2 DEF Runnable
<1>4. ASSUME NEW j \in 0 .. pending_cnt - 1
      PROVE  \E i \in 0 .. pending_cnt - 1 : subs_events'[i] = subs_events[j]
  <2>1. CASE j = 0
    <3>1. n - 1 \in 0 .. pending_cnt - 1
      OBVIOUS
    <3> QED BY <1>2, <2>1, <3>1
  <2>2. CASE 0 < j /\ j < n
    <3>1. j - 1 \in 0 .. pending_cnt - 1 /\ j - 1 < n - 1 /\ (j - 1) + 1 = j
      BY <2>2
    <3> QED BY <1>2, <3>1
  <2>3. CASE n <= j
    BY <1>2, <2>3
  <2> QED BY <2>1, <2>2, <2>3
<1>5. Runnable' = {subs_events'[i] : i \in 0 .. pending_cnt - 1}
  BY <1>1 DEF Runnable
<1>6. Runnable' \subseteq Runnable
  BY <1>3, <1>5
<1>7. ASSUME NEW e \in Runnable PROVE e \in Runnable'
  <2>1. PICK j \in 0 .. pending_cnt - 1 : e = subs_events[j]
    BY DEF Runnable
  <2> QED BY <1>4, <1>5, <2>1
<1> QED BY <1>6, <1>7
--------------------------------------------------------------------------------
(* The removal of posted events, when no interrupt comes during it.         *)

\* Between the steps of a removal the count that was read is the current one,
\* the place found holds the event, and after the shift the last place holds
\* the event itself or a copy of the one before it.
PurgeInv ==
    /\ purge.at # "none" => purge.cnt = Len(isr)
    /\ purge.at = "search" /\ purge.h < Len(isr) => isr[purge.h + 1] = purge.evt
    /\ purge.at = "shift" =>
         \/ isr[Len(isr)] = purge.evt
         \/ purge.h + 1 < Len(isr) /\ isr[Len(isr)] = isr[Len(isr) - 1]

\* The types of a removal's locals, and of the buffer.
LEMMA PurgeFacts ==
    ASSUME StateInv
    PROVE  /\ isr \in Seq(Idx) /\ Len(isr) \in Nat
           /\ \A i \in 1 .. Len(isr) : isr[i] \in Idx
           /\ purge.h \in Nat /\ purge.cnt \in Nat
           /\ purge.at \in {"none", "search", "shift"}
           /\ purge = [at |-> purge.at, evt |-> purge.evt, h |-> purge.h, cnt |-> purge.cnt]
<1>1. isr \in Seq(Idx) /\ Len(isr) \in Nat
  BY DEF StateInv, TypeOK
<1>2. purge \in [at : {"none", "search", "shift"}, evt : Idx \cup {NoEvent},
                 h : 0 .. EventMax, cnt : 0 .. EventMax]
  BY DEF StateInv, TypeOK
<1>3. \A i \in 1 .. Len(isr) : isr[i] \in Idx
  BY <1>1
<1> HIDE DEF Idx
<1> QED BY <1>1, <1>2, <1>3

\* What the shift of a removal does to the buffer.
LEMMA ShiftEffect ==
    ASSUME StateInv, PurgeInv, PurgeShift
    PROVE  /\ purge.at = "search" /\ purge.h < Len(isr)
           /\ isr[purge.h + 1] = purge.evt
           /\ purge' = [at |-> "shift", evt |-> purge.evt, h |-> purge.h, cnt |-> Len(isr)]
           /\ Len(isr') = Len(isr)
           /\ \A i \in 1 .. Len(isr) :
                isr'[i] = IF purge.h < i /\ i < Len(isr) THEN isr[i + 1] ELSE isr[i]
<1> USE PurgeFacts
<1>1. purge.at = "search" /\ Counts = {Len(isr)}
  BY DEF PurgeShift, PurgeInv, Counts
<1>2. /\ purge.h < Len(isr)
      /\ isr' = [i \in 1 .. Len(isr) |->
                   IF purge.h < i /\ i < Len(isr) THEN isr[i + 1] ELSE isr[i]]
      /\ purge' = [purge EXCEPT !.at = "shift", !.cnt = Len(isr)]
  <2>1. PICK n \in Counts :
          /\ purge.h < n
          /\ isr' = [i \in 1 .. Len(isr) |->
                       IF purge.h < i /\ i < n THEN isr[i + 1] ELSE isr[i]]
          /\ purge' = [purge EXCEPT !.at = "shift", !.cnt = n]
    BY DEF PurgeShift
  <2>2. n = Len(isr)
    BY <1>1
  <2> QED BY <2>1, <2>2
<1>3. Len(isr') = Len(isr)
  BY <1>2
<1>4. purge' = [at |-> "shift", evt |-> purge.evt, h |-> purge.h, cnt |-> Len(isr)]
  BY <1>2
<1> QED BY <1>1, <1>2, <1>3, <1>4 DEF PurgeInv

\* What the last step of a removal does to the buffer.
LEMMA EndEffect ==
    ASSUME StateInv, PurgeInv, PurgeEnd
    PROVE  /\ purge.at = "shift" /\ purge' = NoPurge
           /\ Len(isr) > 0 /\ Len(isr') = Len(isr) - 1
           /\ \A i \in 1 .. Len(isr) - 1 : isr'[i] = isr[i]
<1> USE PurgeFacts
<1>1. purge.at = "shift" /\ purge' = NoPurge /\ Counts = {Len(isr)}
  BY DEF PurgeEnd, PurgeInv, Counts
<1>2. isr' = SubSeq(isr, 1, Len(isr) - 1)
  BY <1>1 DEF PurgeEnd
<1>3. Len(isr) > 0
  BY <1>1 DEF StateInv
<1>4. Len(isr) - 1 \in 0 .. Len(isr)
  BY <1>3
<1> QED BY <1>1, <1>2, <1>3, <1>4, CutSequence

\* One event at the back of the buffer less.
LEMMA DrainEffect ==
    ASSUME StateInv, Drain
    PROVE  /\ purge.at = "none" /\ UNCHANGED purge
           /\ Len(isr) > 0 /\ Len(isr') = Len(isr) - 1
           /\ \A i \in 1 .. Len(isr) - 1 : isr'[i] = isr[i]
           /\ isr[Len(isr)] \in handles
           /\ infra_evt_raise(isr[Len(isr)])
<1> USE PurgeFacts
<1>1. /\ purge.at = "none" /\ UNCHANGED purge
      /\ Len(isr) > 0
      /\ isr' = SubSeq(isr, 1, Len(isr) - 1)
      /\ infra_evt_raise(isr[Len(isr)])
  BY DEF Drain, StateInv
<1>2. Len(isr) - 1 \in 0 .. Len(isr)
  BY <1>1
<1>3. isr[Len(isr)] \in handles
  BY <1>1 DEF StateInv
<1> QED BY <1>1, <1>2, <1>3, CutSequence

\* One event at the back of the buffer more, outside a removal.
LEMMA PostEffect ==
    ASSUME PurgeQuiet, StateInv, NEW e \in Idx, RaiseISR(e)
    PROVE  /\ purge.at = "none" /\ UNCHANGED purge
           /\ Len(isr') = Len(isr) + 1 /\ isr'[Len(isr) + 1] = e
           /\ \A i \in 1 .. Len(isr) : isr'[i] = isr[i]
BY PurgeFacts DEF RaiseISR

\* The steps that leave the buffer of the interrupts and the removal alone.
LEMMA NoBufferStep ==
    ASSUME Next, ~Purge, ~Drain,
           ~\E e \in Idx : PurgeSearch(e) \/ RaiseISR(e)
    PROVE  UNCHANGED <<isr, purge>>
BY DEF Next, Client, Loop, Create, Abort, SetCallback, Raise, Clear, Delete,
       SetPriority, Execute, Drained, Dispatch, Idle, IdleReturn, Return

LEMMA StepKeepsPurgeInv ==
    ASSUME PurgeQuiet, StateInv, PurgeInv, Next
    PROVE  PurgeInv'
<1> USE PurgeFacts
<1>1. ASSUME NEW e \in Idx, PurgeSearch(e) PROVE PurgeInv'
  BY <1>1 DEF PurgeSearch, PurgeInv
<1>2. CASE PurgeMiss
  BY <1>2 DEF PurgeMiss, PurgeInv, NoPurge
<1>3. CASE PurgeShift
  <2>1. /\ purge.h < Len(isr) /\ isr[purge.h + 1] = purge.evt
        /\ purge' = [at |-> "shift", evt |-> purge.evt, h |-> purge.h, cnt |-> Len(isr)]
        /\ Len(isr') = Len(isr)
        /\ \A i \in 1 .. Len(isr) :
             isr'[i] = IF purge.h < i /\ i < Len(isr) THEN isr[i + 1] ELSE isr[i]
    BY <1>3, ShiftEffect
  <2>2. Len(isr) \in 1 .. Len(isr)
    BY <2>1
  <2>3. isr'[Len(isr)] = isr[Len(isr)]
    BY <2>1, <2>2
  <2>4. CASE purge.h + 1 = Len(isr)
    BY <2>1, <2>3, <2>4 DEF PurgeInv
  <2>5. CASE purge.h + 1 < Len(isr)
    <3>1. /\ Len(isr) - 1 \in 1 .. Len(isr) /\ purge.h < Len(isr) - 1
          /\ (Len(isr) - 1) + 1 = Len(isr)
      BY <2>5
    <3>2. isr'[Len(isr) - 1] = isr[Len(isr)]
      BY <2>1, <3>1
    <3> QED BY <2>1, <2>3, <2>5, <3>2 DEF PurgeInv
  <2> QED BY <2>1, <2>4, <2>5
<1>4. CASE PurgeEnd
  BY <1>4, EndEffect DEF NoPurge, PurgeInv
<1>5. CASE Drain
  BY <1>5, DrainEffect DEF PurgeInv
<1>6. ASSUME NEW e \in Idx, RaiseISR(e) PROVE PurgeInv'
  BY <1>6, PostEffect DEF PurgeInv
<1>7. ASSUME UNCHANGED <<isr, purge>> PROVE PurgeInv'
  BY <1>7 DEF PurgeInv
<1> QED
  BY <1>1, <1>2, <1>3, <1>4, <1>5, <1>6, <1>7, NoBufferStep DEF Purge

LEMMA PurgeInvHolds ==
    ASSUME PurgeQuiet, "stale" \notin Calls
    PROVE  Spec => []PurgeInv
<1>1. Init => PurgeInv
  BY DEF Init, PurgeInv, NoPurge
<1>2. StateInv /\ PurgeInv /\ [Next]_vars => PurgeInv'
  <2> SUFFICES ASSUME StateInv, PurgeInv, [Next]_vars PROVE PurgeInv'
    OBVIOUS
  <2>1. CASE Next
    BY <2>1, StepKeepsPurgeInv
  <2>2. CASE UNCHANGED vars
    BY <2>2 DEF vars, PurgeInv
  <2> QED BY <2>1, <2>2
<1> QED BY <1>1, <1>2, StateInvHolds, PTL DEF Spec

\* A buffer cut at the back holds what was in front of the cut.
LEMMA CutBuffer ==
    ASSUME Len(isr') = Len(isr) - 1,
           \A i \in 1 .. Len(isr) - 1 : isr'[i] = isr[i]
    PROVE  InISR' = {isr[i] : i \in 1 .. Len(isr) - 1}
<1>1. InISR' = {isr'[i] : i \in 1 .. Len(isr) - 1}
  BY DEF InISR
<1> QED BY <1>1

\* What a step of a removal takes out of the buffer is a copy of the event it
\* removes.
LEMMA PurgeKeepsOthers ==
    ASSUME StateInv, PurgeInv, PurgeShift \/ PurgeEnd
    PROVE  /\ InISR' \subseteq InISR
           /\ InISR \ {purge.evt} \subseteq InISR'
<1> USE PurgeFacts
<1>1. CASE PurgeShift
  <2>1. /\ purge.h < Len(isr) /\ isr[purge.h + 1] = purge.evt
        /\ Len(isr') = Len(isr)
        /\ \A i \in 1 .. Len(isr) :
             isr'[i] = IF purge.h < i /\ i < Len(isr) THEN isr[i + 1] ELSE isr[i]
    BY <1>1, ShiftEffect
  <2>2. ASSUME NEW i \in 1 .. Len(isr) PROVE isr'[i] \in InISR
    <3>1. i < Len(isr) => i + 1 \in 1 .. Len(isr)
      OBVIOUS
    <3> QED BY <2>1, <3>1 DEF InISR
  <2>3. ASSUME NEW j \in 1 .. Len(isr), isr[j] # purge.evt
        PROVE  \E i \in 1 .. Len(isr) : isr'[i] = isr[j]
    <3>1. CASE j <= purge.h
      BY <2>1, <3>1
    <3>2. CASE purge.h + 1 < j
      <4>1. /\ j - 1 \in 1 .. Len(isr) /\ purge.h < j - 1 /\ j - 1 < Len(isr)
            /\ (j - 1) + 1 = j
        BY <3>2
      <4> QED BY <2>1, <4>1
    <3>3. j # purge.h + 1
      BY <2>1, <2>3
    <3> QED BY <3>1, <3>2, <3>3
  <2>4. InISR' = {isr'[i] : i \in 1 .. Len(isr)}
    BY <2>1 DEF InISR
  <2>5. InISR' \subseteq InISR
    BY <2>2, <2>4
  <2>6. ASSUME NEW e \in InISR, e # purge.evt PROVE e \in InISR'
    <3>1. PICK j \in 1 .. Len(isr) : e = isr[j]
      BY DEF InISR
    <3> QED BY <2>3, <2>4, <2>6, <3>1
  <2> QED BY <2>5, <2>6
<1>2. CASE PurgeEnd
  <2>1. /\ purge.at = "shift" /\ Len(isr) > 0 /\ Len(isr') = Len(isr) - 1
        /\ \A i \in 1 .. Len(isr) - 1 : isr'[i] = isr[i]
    BY <1>2, EndEffect
  <2>2. InISR' = {isr[i] : i \in 1 .. Len(isr) - 1}
    BY <2>1, CutBuffer
  <2>3. InISR' \subseteq InISR
    <3>1. \A i \in 1 .. Len(isr) - 1 : isr[i] \in InISR
      BY DEF InISR
    <3> QED BY <2>2, <3>1
  <2>4. ASSUME NEW e \in InISR, e # purge.evt PROVE e \in InISR'
    <3>1. PICK j \in 1 .. Len(isr) : e = isr[j]
      BY DEF InISR
    <3>2. CASE j # Len(isr)
      <4>1. j \in 1 .. Len(isr) - 1
        BY <3>2
      <4> QED BY <2>2, <3>1, <4>1
    <3>3. CASE j = Len(isr)
      <4>1. purge.h + 1 < Len(isr) /\ isr[Len(isr)] = isr[Len(isr) - 1]
        BY <2>1, <2>4, <3>1, <3>3 DEF PurgeInv
      <4>2. Len(isr) - 1 \in 1 .. Len(isr) - 1
        BY <4>1
      <4> QED BY <2>2, <3>1, <3>3, <4>1, <4>2
    <3> QED BY <3>2, <3>3
  <2> QED BY <2>3, <2>4
<1> QED BY <1>1, <1>2

\* A turn of the drain loop hands the event it takes out to the runnable ones.
LEMMA DrainDelivers ==
    ASSUME StateInv, Drain
    PROVE  \E e \in InISR :
             /\ e \in handles
             /\ Runnable' = Runnable \cup {e}
             /\ (InISR' = InISR) \/ (InISR' = InISR \ {e})
<1> USE PurgeFacts
<1> DEFINE e == isr[Len(isr)]
<1>1. /\ Len(isr) > 0 /\ Len(isr') = Len(isr) - 1
      /\ \A i \in 1 .. Len(isr) - 1 : isr'[i] = isr[i]
      /\ e \in handles /\ infra_evt_raise(e)
  BY DrainEffect
<1>2. e \in InISR
  BY <1>1 DEF InISR
<1>3. Runnable' = Runnable \cup {e}
  BY <1>1, RaiseEffect
<1>4. InISR' = {isr[i] : i \in 1 .. Len(isr) - 1}
  BY <1>1, CutBuffer
<1>5. InISR' \subseteq InISR
  BY <1>4 DEF InISR
<1>6. ASSUME NEW f \in InISR, f # e PROVE f \in InISR'
  <2>1. PICK j \in 1 .. Len(isr) : f = isr[j]
    BY DEF InISR
  <2>2. j \in 1 .. Len(isr) - 1
    BY <1>6, <2>1
  <2> QED BY <1>4, <2>1, <2>2
<1> HIDE DEF e
<1>7. InISR' = InISR \/ InISR' = InISR \ {e}
  BY <1>5, <1>6
<1> QED BY <1>1, <1>2, <1>3, <1>7

\* An interrupt adds its event to the posted ones.
LEMMA PostPosts ==
    ASSUME PurgeQuiet, StateInv, NEW e \in Idx, RaiseISR(e)
    PROVE  InISR' = InISR \cup {e}
<1> USE PurgeFacts
<1>1. /\ Len(isr') = Len(isr) + 1 /\ isr'[Len(isr) + 1] = e
      /\ \A i \in 1 .. Len(isr) : isr'[i] = isr[i]
  BY PostEffect
<1>2. InISR' = {isr'[i] : i \in 1 .. Len(isr) + 1}
  BY <1>1 DEF InISR
<1>3. ASSUME NEW i \in 1 .. Len(isr) + 1 PROVE isr'[i] \in InISR \cup {e}
  <2>1. i = Len(isr) + 1 \/ i \in 1 .. Len(isr)
    OBVIOUS
  <2> QED BY <1>1, <2>1 DEF InISR
<1>4. ASSUME NEW j \in 1 .. Len(isr)
      PROVE  j \in 1 .. Len(isr) + 1 /\ isr'[j] = isr[j]
  BY <1>1
<1>5. Len(isr) + 1 \in 1 .. Len(isr) + 1
  OBVIOUS
<1>6. InISR \cup {e} \subseteq InISR'
  BY <1>1, <1>2, <1>4, <1>5 DEF InISR
<1> QED BY <1>2, <1>3, <1>6

\* event.h:51-54: no posted event is lost, if no interrupt comes while
\* infra_evt_clear_ISR_pendingevent edits the buffer.  (Without that condition
\* the run loop_purge_race shows the loss.)
THEOREM PostedAreKept ==
    ASSUME PurgeQuiet, "stale" \notin Calls
    PROVE  Spec => PostedKept
<1> DEFINE Kept == \A e \in InISR \ {purge.evt} : e \in InISR' \cup Runnable'
<1>1. StateInv /\ PurgeInv /\ [Next]_vars => [Kept]_vars
  <2> SUFFICES ASSUME StateInv, PurgeInv, Next PROVE Kept
    OBVIOUS
  <2>1. CASE PurgeShift \/ PurgeEnd
    BY <2>1, PurgeKeepsOthers
  <2>2. CASE Drain
    BY <2>2, DrainDelivers
  <2>3. ASSUME NEW e \in Idx, RaiseISR(e) PROVE Kept
    BY <2>3, PostPosts
  <2>4. CASE PurgeMiss
    BY <2>4 DEF PurgeMiss, InISR
  <2>5. ASSUME NEW e \in Idx, PurgeSearch(e) PROVE Kept
    BY <2>5 DEF PurgeSearch, InISR
  <2>6. CASE UNCHANGED <<isr, purge>>
    BY <2>6 DEF InISR
  <2> HIDE DEF Kept
  <2> QED BY <2>1, <2>2, <2>3, <2>4, <2>5, <2>6, NoBufferStep DEF Purge
<1> QED BY <1>1, StateInvHolds, PurgeInvHolds, PTL DEF Spec, PostedKept

\* The places a removal has passed, when a source fires once: the buffer holds
\* no event twice, but for the copy that the shift leaves at the back, and the
\* search has passed no copy of its event.
OnceInv ==
    /\ purge.at # "shift" =>
         \A i, j \in 1 .. Len(isr) : isr[i] = isr[j] => i = j
    /\ purge.at = "search" =>
         \A i \in 1 .. Len(isr) : i <= purge.h => isr[i] # purge.evt
    /\ purge.at = "shift" =>
         /\ \A i, j \in 1 .. Len(isr) - 1 : isr[i] = isr[j] => i = j
         /\ \A i \in 1 .. Len(isr) - 1 : isr[i] # purge.evt

LEMMA StepKeepsOnceInv ==
    ASSUME Quiet, PurgeQuiet, StateInv, PurgeInv, OnceInv, Next
    PROVE  OnceInv'
<1> USE PurgeFacts
<1>1. ASSUME NEW e \in Idx, PurgeSearch(e) PROVE OnceInv'
  <2>1. PICK h \in 0 .. Len(isr) :
          /\ \A i \in 1 .. h : isr[i] # e
          /\ purge' = [at |-> "search", evt |-> e, h |-> h, cnt |-> Len(isr)]
    BY <1>1 DEF PurgeSearch
  <2>2. isr' = isr /\ purge.at = "none"
    BY <1>1 DEF PurgeSearch, ClientRuns
  <2> QED BY <2>1, <2>2 DEF OnceInv
<1>2. CASE PurgeMiss
  BY <1>2 DEF PurgeMiss, OnceInv, NoPurge
<1>3. CASE PurgeShift
  <2>1. /\ purge.at = "search" /\ purge.h < Len(isr)
        /\ isr[purge.h + 1] = purge.evt
        /\ purge' = [at |-> "shift", evt |-> purge.evt, h |-> purge.h, cnt |-> Len(isr)]
        /\ Len(isr') = Len(isr)
        /\ \A i \in 1 .. Len(isr) :
             isr'[i] = IF purge.h < i /\ i < Len(isr) THEN isr[i + 1] ELSE isr[i]
    BY <1>3, ShiftEffect
  <2>2. purge.h + 1 \in 1 .. Len(isr)
    BY <2>1
  <2> DEFINE src(i) == IF purge.h < i THEN i + 1 ELSE i
  <2>3. ASSUME NEW i \in 1 .. Len(isr) - 1
        PROVE  /\ src(i) \in 1 .. Len(isr) /\ src(i) # purge.h + 1
               /\ isr'[i] = isr[src(i)]
    BY <2>1
  <2>4. ASSUME NEW i \in 1 .. Len(isr) - 1, NEW j \in 1 .. Len(isr) - 1,
               src(i) = src(j)
        PROVE  i = j
    BY <2>4
  <2>5. /\ \A i, j \in 1 .. Len(isr) : isr[i] = isr[j] => i = j
        /\ \A i \in 1 .. Len(isr) : i # purge.h + 1 => isr[i] # purge.evt
    BY <2>1, <2>2 DEF OnceInv
  <2> HIDE DEF src
  <2> QED BY <2>1, <2>3, <2>4, <2>5 DEF OnceInv
<1>4. CASE PurgeEnd
  BY <1>4, EndEffect DEF NoPurge, OnceInv
<1>5. CASE Drain
  BY <1>5, DrainEffect DEF OnceInv
<1>6. ASSUME NEW e \in Idx, RaiseISR(e) PROVE OnceInv'
  <2>1. /\ purge.at = "none" /\ UNCHANGED purge
        /\ Len(isr') = Len(isr) + 1 /\ isr'[Len(isr) + 1] = e
        /\ \A i \in 1 .. Len(isr) : isr'[i] = isr[i]
    BY <1>6, PostEffect
  <2>2. \A i \in 1 .. Len(isr) : isr[i] # e
    BY <1>6 DEF RaiseISR, Waiting, InISR
  <2>3. \A i \in 1 .. Len(isr) + 1 : i = Len(isr) + 1 \/ i \in 1 .. Len(isr)
    OBVIOUS
  <2> QED BY <2>1, <2>2, <2>3 DEF OnceInv
<1>7. ASSUME UNCHANGED <<isr, purge>> PROVE OnceInv'
  BY <1>7 DEF OnceInv
<1> QED
  BY <1>1, <1>2, <1>3, <1>4, <1>5, <1>6, <1>7, NoBufferStep DEF Purge

LEMMA OnceInvHolds ==
    ASSUME Quiet, PurgeQuiet, "stale" \notin Calls
    PROVE  Spec => []OnceInv
<1>1. Init => OnceInv
  BY DEF Init, OnceInv, NoPurge
<1>2. StateInv /\ PurgeInv /\ OnceInv /\ [Next]_vars => OnceInv'
  <2> SUFFICES ASSUME StateInv, PurgeInv, OnceInv, [Next]_vars PROVE OnceInv'
    OBVIOUS
  <2>1. CASE Next
    BY <2>1, StepKeepsOnceInv
  <2>2. CASE UNCHANGED vars
    BY <2>2 DEF vars, OnceInv
  <2> QED BY <2>1, <2>2
<1> QED BY <1>1, <1>2, StateInvHolds, PurgeInvHolds, PTL DEF Spec

\* evt_datapath.c:571-579: infra_evt_clear_ISR_pendingevent leaves no copy of
\* its event among the posted ones, if its source fires once and no interrupt
\* comes during the call.
THEOREM PurgeComplete ==
    ASSUME Quiet, PurgeQuiet, "stale" \notin Calls
    PROVE  Spec => PurgeRemoves
<1> DEFINE Removes == purge.at # "none" /\ purge'.at = "none" => purge.evt \notin InISR'
<1>1. StateInv /\ PurgeInv /\ OnceInv /\ [Next]_vars => [Removes]_vars
  <2> USE PurgeFacts
  <2> SUFFICES ASSUME StateInv, PurgeInv, OnceInv, Next,
                      purge.at # "none", purge'.at = "none"
               PROVE  purge.evt \notin InISR'
    OBVIOUS
  <2>1. CASE PurgeMiss
    <3>1. purge.at = "search" /\ isr' = isr
      BY <2>1 DEF PurgeMiss
    <3>2. purge.h >= Len(isr)
      BY <2>1, <3>1 DEF PurgeMiss, Counts, PurgeInv
    <3> QED BY <3>1, <3>2 DEF OnceInv, InISR
  <2>2. CASE PurgeShift
    BY <2>2, ShiftEffect
  <2>3. CASE PurgeEnd
    BY <2>3, EndEffect DEF OnceInv, InISR
  <2>4. CASE Drain
    BY <2>4, DrainEffect
  <2>5. ASSUME NEW e \in Idx, RaiseISR(e) PROVE FALSE
    BY <2>5, PostEffect
  <2>6. ASSUME NEW e \in Idx, PurgeSearch(e) PROVE FALSE
    BY <2>6 DEF PurgeSearch
  <2>7. CASE UNCHANGED <<isr, purge>>
    BY <2>7
  <2> QED BY <2>1, <2>2, <2>3, <2>4, <2>5, <2>6, <2>7, NoBufferStep DEF Purge
<1> QED BY <1>1, StateInvHolds, PurgeInvHolds, OnceInvHolds, PTL DEF Spec, PurgeRemoves
--------------------------------------------------------------------------------
(* EventLoop implements EventSpec.                                          *)

LEMMA InitImplements == Init => Promise!SInit
<1> SUFFICES ASSUME Init PROVE Promise!SInit
  OBVIOUS
<1>1. Created = {} /\ Runnable = {} /\ InISR = {}
  BY DEF Init, Created, Runnable, InISR
<1>2. prio \in [Idx -> Prios]
  BY EventLoopAssumption DEF Init
<1> QED BY <1>1, <1>2 DEF Init, NoPurge, Promise!SInit

\* Calls of the main thread.
LEMMA CallImplements ==
    ASSUME "stale" \notin Calls, "reprioritise" \notin Calls,
           StateInv, OrderInv, StateInv', Client
    PROVE  [Promise!SNext]_(Promise!svars)
<1> USE TableFacts
<1>0. Created = handles /\ Created' = handles'
  BY CreatedAreHandles DEF StateInv
<1>1. CASE Create
  <2> DEFINE idx == subs_events[created_cnt]
  <2>1. created_cnt \in Idx /\ idx \in Idx
    BY <1>1, EventLoopAssumption DEF Create, Idx
  <2>2. /\ prio' = [prio EXCEPT ![idx] = DefaultPrio]
        /\ handles' = handles \cup {idx}
        /\ UNCHANGED <<subs_events, pending_cnt, isr, running, purge>>
    BY <1>1 DEF Create
  <2>3. idx \notin Created
    <3> SUFFICES ASSUME NEW i \in 0 .. created_cnt - 1, subs_events[i] = idx PROVE FALSE
      BY DEF Created
    <3>1. i \in Idx /\ i # created_cnt
      BY <2>1 DEF Idx
    <3> QED BY <2>1, <3>1
  <2>4. Runnable' = Runnable /\ InISR' = InISR /\ purge'.evt = purge.evt
    BY <2>2 DEF Runnable, InISR
  <2> HIDE DEF idx
  <2>5. Promise!SCreate(idx)
    BY <1>0, <2>2, <2>3, <2>4 DEF Promise!SCreate
  <2> QED BY <2>1, <2>5 DEF Promise!SNext
<1>2. ASSUME NEW e \in Idx, NEW p \in Prios, SetPriority(e, p)
      PROVE  Promise!SNext
  <2>1. /\ prio' = [prio EXCEPT ![e] = p]
        /\ UNCHANGED <<table, handles, isr, running, purge>>
    BY <1>2 DEF SetPriority
  <2>2. Runnable' = Runnable /\ InISR' = InISR /\ purge'.evt = purge.evt
    BY <2>1 DEF Runnable, InISR, table
  <2>3. Promise!SSetPriority(e, p)
    BY <1>0, <2>1, <2>2 DEF Promise!SSetPriority
  <2> QED BY <2>3 DEF Promise!SNext
<1>3. ASSUME NEW e \in Idx, Raise(e) PROVE Promise!SNext
  <2>1. /\ e \in handles /\ infra_evt_raise(e)
        /\ UNCHANGED <<prio, handles, isr, running, purge>>
    BY <1>3 DEF Raise, Targets, attrs
  <2>2. Runnable' = Runnable \cup {e} /\ InISR' = InISR /\ purge'.evt = purge.evt
    BY <2>1, RaiseEffect DEF InISR
  <2>3. Promise!SRaise(e)
    BY <1>0, <2>1, <2>2 DEF Promise!SRaise
  <2> QED BY <2>3 DEF Promise!SNext
<1>4. ASSUME NEW e \in Idx, Clear(e) PROVE Promise!SNext
  <2>1. PICK h \in 0 .. pending_cnt - 1 :
          subs_events[h] = e /\ (h # 0 \/ ~executing) /\ subs_clear_pending(h)
    BY <1>4 DEF Clear
  <2>2. UNCHANGED <<prio, handles, isr, running, purge>>
    BY <1>4 DEF Clear, attrs
  <2>3. Runnable' = Runnable \ {e} /\ InISR' = InISR /\ purge'.evt = purge.evt
    BY <2>1, <2>2, ClearEffect DEF InISR
  <2>4. e # running
    <3> SUFFICES ASSUME e = running PROVE FALSE
      OBVIOUS
    <3>1. executing /\ subs_events[0] = e
      BY DEF OrderInv, HeadIsRunning, NoEvent, Idx
    <3>2. h \in Idx /\ 0 \in Idx /\ h # 0
      BY <2>1, <3>1 DEF Idx
    <3> QED BY <2>1, <3>1, <3>2
  <2>5. Promise!SClear(e)
    BY <1>0, <2>2, <2>3, <2>4 DEF Promise!SClear
  <2> QED BY <2>5 DEF Promise!SNext
<1>5. ASSUME NEW e \in Idx, PurgeSearch(e) PROVE Promise!SNext
  <2>1. /\ purge'.evt = e
        /\ UNCHANGED <<table, prio, handles, isr, running>>
    BY <1>5 DEF PurgeSearch, attrs
  <2>2. Runnable' = Runnable /\ InISR' = InISR
    BY <2>1 DEF Runnable, InISR, table
  <2>3. Promise!SPurge
    BY <1>0, <2>1, <2>2 DEF Promise!SPurge
  <2> QED BY <2>3 DEF Promise!SNext
<1>6. CASE Abort \/ \E e \in Idx : SetCallback(e) \/ Delete(e)
  <2>1. UNCHANGED <<table, prio, handles, isr, running, purge>>
    BY <1>6 DEF Abort, SetCallback, Delete, attrs
  <2> QED BY <1>0, <2>1 DEF Promise!svars, Runnable, InISR, table
<1> QED BY <1>1, <1>2, <1>3, <1>4, <1>5, <1>6 DEF Client

\* Interrupts, and the steps of a removal.
LEMMA BufferImplements ==
    ASSUME PurgeQuiet, StateInv, PurgeInv, StateInv',
           Purge \/ \E e \in Idx : RaiseISR(e)
    PROVE  [Promise!SNext]_(Promise!svars)
<1> USE PurgeFacts
<1>0. Created = handles /\ Created' = handles'
  BY CreatedAreHandles DEF StateInv
<1>1. UNCHANGED <<table, prio, handles, running>>
  BY DEF Purge, PurgeMiss, PurgeShift, PurgeEnd, RaiseISR, attrs
<1>2. Runnable' = Runnable
  BY <1>1 DEF Runnable, table
<1>3. ASSUME NEW e \in Idx, RaiseISR(e) PROVE Promise!SNext
  <2>1. InISR' = InISR \cup {e} /\ purge' = purge
    BY <1>3, PostPosts, PostEffect
  <2>2. Promise!SPost(e)
    BY <1>0, <1>1, <1>2, <2>1 DEF Promise!SPost
  <2> QED BY <2>2 DEF Promise!SNext
<1>4. CASE Purge
  <2>1. purge'.evt \in Idx \cup {NoEvent}
    BY DEF StateInv, TypeOK
  <2>2. InISR' = InISR \/ InISR' = InISR \ {purge.evt}
    <3>1. CASE PurgeMiss
      BY <3>1 DEF PurgeMiss, InISR
    <3>2. CASE PurgeShift \/ PurgeEnd
      BY <3>2, PurgeKeepsOthers
    <3> QED BY <1>4, <3>1, <3>2 DEF Purge
  <2>3. Promise!SPurge
    BY <1>0, <1>1, <1>2, <2>1, <2>2 DEF Promise!SPurge
  <2> QED BY <2>3 DEF Promise!SNext
<1> QED BY <1>3, <1>4

\* The loop.
LEMMA LoopImplements ==
    ASSUME StateInv, OrderInv, StateInv', Loop
    PROVE  [Promise!SNext]_(Promise!svars)
<1> USE TableFacts
<1>0. Created = handles /\ Created' = handles'
  BY CreatedAreHandles DEF StateInv
<1>1. CASE Drain
  <2>1. PICK e \in InISR : /\ e \in handles
                           /\ Runnable' = Runnable \cup {e}
                           /\ (InISR' = InISR) \/ (InISR' = InISR \ {e})
    BY <1>1, DrainDelivers
  <2>2. UNCHANGED <<prio, handles, running, purge>>
    BY <1>1 DEF Drain, attrs
  <2>3. e \in Idx
    BY <2>1 DEF StateInv, TypeOK
  <2>4. Promise!SDeliver(e)
    BY <1>0, <2>1, <2>2 DEF Promise!SDeliver
  <2> QED BY <2>3, <2>4 DEF Promise!SNext
<1>2. CASE Dispatch
  <2>1. 0 \in 0 .. pending_cnt - 1
    BY <1>2 DEF Dispatch
  <2> DEFINE e == subs_events[0]
  <2>2. e \in Runnable /\ e \in Idx
    BY <2>1 DEF Runnable
  <2>3. /\ running = NoEvent /\ running' = e
        /\ UNCHANGED <<table, prio, handles, isr, purge>>
    <3>1. pc' # "crashed" /\ pc = "select"
      BY <1>2 DEF Dispatch, StateInv
    <3> QED BY <1>2, <3>1 DEF Dispatch, StateInv, attrs
  <2>4. \A f \in Runnable : prio[e] <= prio[f]
    <3> SUFFICES ASSUME NEW i \in 0 .. pending_cnt - 1
                 PROVE  prio[e] <= prio[subs_events[i]]
      BY DEF Runnable
    <3>1. CASE i = 0
      BY <2>1, <3>1
    <3>2. CASE i # 0
      BY <2>1, <3>2 DEF OrderInv, Sorted
    <3> QED BY <3>1, <3>2
  <2>5. Runnable' = Runnable /\ InISR' = InISR
    BY <2>3 DEF Runnable, InISR, table
  <2> HIDE DEF e
  <2>6. Promise!SStart(e)
    BY <1>0, <2>2, <2>3, <2>4, <2>5 DEF Promise!SStart
  <2> QED BY <2>2, <2>6 DEF Promise!SNext
<1>3. ASSUME NEW status \in {"NONE", "CLEAR"}, Return(status) PROVE Promise!SNext
  <2>1. /\ pc = "callback" /\ subs_proc_rtn(status) /\ running' = NoEvent
        /\ UNCHANGED <<prio, handles, isr, purge>>
    BY <1>3 DEF Return, attrs
  <2>2. /\ running # NoEvent /\ subs_events[0] = running
        /\ 0 \in 0 .. pending_cnt - 1
    BY <2>1 DEF StateInv, OrderInv, HeadIsRunning
  <2>3. Runnable' = IF status = "CLEAR" THEN Runnable \ {running} ELSE Runnable
    BY <2>1, <2>2, ClearEffect, RotationEffect DEF subs_proc_rtn
  <2>4. InISR' = InISR
    BY <2>1 DEF InISR
  <2>5. Promise!SFinish(status)
    BY <1>0, <2>1, <2>2, <2>3, <2>4 DEF Promise!SFinish
  <2> QED BY <2>5 DEF Promise!SNext
<1>4. CASE Execute \/ Drained \/ Idle \/ IdleReturn
  <2>1. UNCHANGED <<table, prio, handles, isr, running, purge>>
    BY <1>4 DEF Execute, Drained, Idle, IdleReturn, attrs
  <2> QED BY <1>0, <2>1 DEF Promise!svars, Runnable, InISR, table
<1> QED BY <1>1, <1>2, <1>3, <1>4 DEF Loop

\* event.h as a whole: every step of event.c is a step of EventSpec or changes
\* nothing that a client sees, if clients name events they created, do not
\* change the priority of a runnable event, raise nothing more urgent than what
\* runs, and no interrupt comes while clear_ISR_pendingevent edits the buffer.
THEOREM KeepsItsPromise ==
    ASSUME "stale" \notin Calls, "urgent" \notin Calls, "reprioritise" \notin Calls,
           PurgeQuiet
    PROVE  Spec => ImplementsEventSpec
<1>1. Init => Promise!SInit
  BY InitImplements
<1>2. /\ StateInv /\ OrderInv /\ PurgeInv /\ StateInv' /\ [Next]_vars
      => [Promise!SNext]_(Promise!svars)
  <2> SUFFICES ASSUME StateInv, OrderInv, PurgeInv, StateInv', [Next]_vars
               PROVE  [Promise!SNext]_(Promise!svars)
    OBVIOUS
  <2>1. CASE Client
    BY <2>1, CallImplements
  <2>2. CASE Purge \/ \E e \in Idx : RaiseISR(e)
    BY <2>2, BufferImplements
  <2>3. CASE Loop
    BY <2>3, LoopImplements
  <2>4. CASE UNCHANGED vars
    BY <2>4 DEF vars, Promise!svars, Created, Runnable, InISR
  <2> QED BY <2>1, <2>2, <2>3, <2>4 DEF Next
<1> QED
  BY <1>1, <1>2, StateInvHolds, OrderInvHolds, PurgeInvHolds, PTL
     DEF Spec, ImplementsEventSpec, Promise!SSpec
--------------------------------------------------------------------------------
\* event.h:81-83: CLEAR makes the event whose function ran not runnable, unless
\* a processing function raises an event more urgent than its own (the run
\* loop_urgent_raise) or a client changes the priority of a runnable one.
THEOREM ClearsWhatRan ==
    ASSUME "stale" \notin Calls, "urgent" \notin Calls, "reprioritise" \notin Calls
    PROVE  Spec => ClearAfterExecution
<1> DEFINE Cleared == Return("CLEAR") => running \notin Runnable'
<1>1. StateInv /\ OrderInv /\ [Next]_vars => [Cleared]_vars
  <2> SUFFICES ASSUME StateInv, OrderInv, Return("CLEAR")
               PROVE  running \notin Runnable'
    OBVIOUS
  <2>1. subs_clear_pending(0) /\ pc = "callback"
    BY DEF Return, subs_proc_rtn
  <2>2. 0 \in 0 .. pending_cnt - 1 /\ subs_events[0] = running
    BY <2>1, TableFacts DEF StateInv, OrderInv, HeadIsRunning
  <2> QED BY <2>1, <2>2, ClearEffect
<1> QED BY <1>1, StateInvHolds, OrderInvHolds, PTL DEF Spec, ClearAfterExecution
--------------------------------------------------------------------------------
(* Fairness among events of one priority.                                   *)

\* Of two runnable events of one priority, the one in front has not been
\* started while the other waited, but for the one that runs: to be started
\* again an event has to come to the head, and it was queued behind all its
\* equals when its status was applied or it was raised again.
OvertakenInv ==
    /\ \A i, j \in 0 .. pending_cnt - 1 :
          /\ i < j
          /\ prio[subs_events[i]] = prio[subs_events[j]]
          /\ subs_events[i] \in overtaken[subs_events[j]]
          => subs_events[i] = running
    /\ running # NoEvent => overtaken[running] = {}

\* What the history gains in a step that starts nothing.
LEMMA NothingStarted ==
    ASSUME Observe, Started = {}, NEW e \in Idx, NEW f \in overtaken'[e]
    PROVE  e \in Runnable /\ f \in overtaken[e]
BY DEF Observe

\* Only Dispatch starts an event.
LEMMA OnlyDispatchStarts ==
    ASSUME Next, ~Dispatch
    PROVE  Started = {}
BY DEF Started, Next, Client, Purge, Loop, Create, Abort, SetCallback, Raise, Clear,
       Delete, SetPriority, PurgeSearch, PurgeMiss, PurgeShift, PurgeEnd, RaiseISR,
       Execute, Drain, Drained, Idle, IdleReturn, Return

\* The history of the event on the stack stays empty.
LEMMA NothingOvertakesRunning ==
    ASSUME StateInv, OvertakenInv, Observe, Started = {}, running' = running
    PROVE  running' # NoEvent => overtaken'[running'] = {}
<1> SUFFICES ASSUME running # NoEvent PROVE overtaken'[running] = {}
  OBVIOUS
<1>1. running \in Idx /\ overtaken[running] = {}
  BY DEF StateInv, TypeOK, OvertakenInv
<1> QED BY <1>1, NothingStarted

LEMMA RaiseKeepsOvertaken ==
    ASSUME StateInv, OvertakenInv, Observe, Started = {},
           NEW e \in Idx, infra_evt_raise(e), prio' = prio, running' = running
    PROVE  OvertakenInv'
<1> USE TableFacts
<1> SUFFICES ASSUME NEW i \in 0 .. pending_cnt' - 1, NEW j \in 0 .. pending_cnt' - 1,
                    i < j, prio[subs_events'[i]] = prio[subs_events'[j]],
                    subs_events'[i] \in overtaken'[subs_events'[j]]
             PROVE  subs_events'[i] = running
  BY NothingOvertakesRunning DEF OvertakenInv
<1>1. CASE UNCHANGED table
  <2>1. i \in 0 .. pending_cnt - 1 /\ j \in 0 .. pending_cnt - 1
        /\ subs_events' = subs_events
    BY <1>1 DEF table
  <2>2. subs_events[i] \in overtaken[subs_events[j]]
    BY <2>1, NothingStarted
  <2> QED BY <2>1, <2>2 DEF OvertakenInv
<1>2. ASSUME NEW h \in RaisePlaces(e), NEW k \in 0 .. pending_cnt, InsertsAt(e, k),
             subs_events' = PlaceRaised(h, k), pending_cnt' = pending_cnt + 1
      PROVE  subs_events'[i] = running
  <2>1. h \in pending_cnt .. created_cnt /\ subs_events[h] = e /\ h \in Idx
    BY DEF RaisePlaces, SearchEnd, Idx
  <2>2. \A m \in 0 .. pending_cnt :
          subs_events'[m] = IF m = k THEN e
                            ELSE IF k < m THEN subs_events[m - 1] ELSE subs_events[m]
    BY <1>2, <2>1 DEF PlaceRaised, Idx
  <2>3. \A m \in k .. pending_cnt - 1 : prio[subs_events[m]] > prio[e]
    BY <1>2 DEF InsertsAt
  <2>4. i \in 0 .. pending_cnt /\ j \in 0 .. pending_cnt
    BY <1>2
  <2> DEFINE old(m) == IF k < m THEN m - 1 ELSE m
  <2>5. \A m \in 0 .. pending_cnt : m # k => /\ old(m) \in 0 .. pending_cnt - 1
                                             /\ subs_events'[m] = subs_events[old(m)]
    BY <2>2
  <2>6. subs_events'[j] \in Idx
    BY <2>2, <2>4, <2>5, <2>1
  <2>7. /\ subs_events'[j] \in Runnable
        /\ subs_events'[i] \in overtaken[subs_events'[j]]
    BY <2>6, NothingStarted
  <2>8. j # k
    <3> SUFFICES ASSUME j = k PROVE FALSE
      OBVIOUS
    <3>1. e \in Runnable
      BY <2>2, <2>4, <2>7
    <3>2. PICK m \in 0 .. pending_cnt - 1 : subs_events[m] = e
      BY <3>1 DEF Runnable
    <3> QED BY <2>1, <3>2
  <2>9. i # k
    <3> SUFFICES ASSUME i = k PROVE FALSE
      OBVIOUS
    <3>1. j - 1 \in k .. pending_cnt - 1 /\ subs_events'[j] = subs_events[j - 1]
          /\ j - 1 \in 0 .. pending_cnt - 1
      BY <2>2, <2>4
    <3>2. prio[subs_events[j - 1]] > prio[e] /\ prio[subs_events[j - 1]] \in Nat
      BY <2>3, <3>1
    <3>3. prio[subs_events[j - 1]] = prio[e]
      BY <2>2, <2>4, <3>1
    <3> QED BY <3>2, <3>3
  <2>10. old(i) < old(j)
    BY <2>4, <2>8, <2>9
  <2> HIDE DEF old
  <2> QED BY <2>4, <2>5, <2>7, <2>8, <2>9, <2>10 DEF OvertakenInv
<1> QED BY <1>1, <1>2 DEF infra_evt_raise

\* Clearing keeps the order of the other events.
LEMMA ClearKeepsOvertaken ==
    ASSUME StateInv, OvertakenInv, Observe, Started = {},
           NEW h \in 0 .. pending_cnt - 1, subs_clear_pending(h), prio' = prio,
           \/ running' = running
           \/ running' = NoEvent /\ running = subs_events[h]
    PROVE  OvertakenInv'
<1> USE TableFacts
<1>1. pending_cnt' = pending_cnt - 1
  BY DEF subs_clear_pending
<1> DEFINE old(m) == IF h <= m THEN m + 1 ELSE m
<1>2. \A m \in 0 .. pending_cnt - 2 : /\ old(m) \in 0 .. pending_cnt - 1 /\ old(m) # h
                                      /\ subs_events'[m] = subs_events[old(m)]
  BY DEF subs_clear_pending, PlaceCleared, Idx
<1> SUFFICES ASSUME NEW i \in 0 .. pending_cnt - 2, NEW j \in 0 .. pending_cnt - 2,
                    i < j, prio[subs_events'[i]] = prio[subs_events'[j]],
                    subs_events'[i] \in overtaken'[subs_events'[j]]
             PROVE  subs_events'[i] = running'
  BY <1>1, NothingOvertakesRunning DEF OvertakenInv
<1>3. old(i) < old(j)
  OBVIOUS
<1> HIDE DEF old
<1>4. subs_events'[j] \in Idx
  BY <1>2
<1>5. subs_events'[i] \in overtaken[subs_events'[j]]
  BY <1>4, NothingStarted
<1>6. subs_events'[i] = running
  BY <1>2, <1>3, <1>5 DEF OvertakenInv
<1>7. subs_events'[i] # subs_events[h]
  BY <1>2
<1> QED BY <1>6, <1>7

\* NONE puts the event that ran behind all its equals.
LEMMA RotationKeepsOvertaken ==
    ASSUME StateInv, OrderInv, OvertakenInv, Observe, Started = {},
           subs_proc_rtn_none, prio' = prio,
           running = subs_events[0], running' = NoEvent
    PROVE  OvertakenInv'
<1> USE TableFacts
<1>1. PICK n \in 1 .. pending_cnt :
        /\ SamePrioRun(n) /\ subs_events' = PlaceRotated(n)
        /\ pending_cnt' = pending_cnt
  BY DEF subs_proc_rtn_none
<1>2. \A m \in 0 .. pending_cnt - 1 :
        subs_events'[m] = IF m < n - 1 THEN subs_events[m + 1]
                          ELSE IF m = n - 1 THEN subs_events[0] ELSE subs_events[m]
  BY <1>1 DEF PlaceRotated
<1> DEFINE old(m) == IF m < n - 1 THEN m + 1 ELSE m
<1>3. \A m \in 0 .. pending_cnt - 1 :
        m # n - 1 => /\ old(m) \in 1 .. pending_cnt - 1
                     /\ subs_events'[m] = subs_events[old(m)]
  BY <1>2
<1> SUFFICES ASSUME NEW i \in 0 .. pending_cnt - 1, NEW j \in 0 .. pending_cnt - 1,
                    i < j, prio[subs_events'[i]] = prio[subs_events'[j]],
                    subs_events'[i] \in overtaken'[subs_events'[j]]
             PROVE  FALSE
  BY <1>1 DEF OvertakenInv
<1>4. 0 \in 0 .. pending_cnt - 1
  OBVIOUS
<1>5. i # n - 1
  <2> SUFFICES ASSUME i = n - 1 PROVE FALSE
    OBVIOUS
  <2>1. /\ subs_events'[i] = subs_events[0] /\ subs_events'[j] = subs_events[j]
        /\ n \in 0 .. pending_cnt - 1 /\ n <= j
    BY <1>2
  <2>2. prio[subs_events[n]] # prio[subs_events[0]]
    BY <1>1, <2>1 DEF SamePrioRun
  <2>3. /\ prio[subs_events[0]] <= prio[subs_events[n]]
        /\ prio[subs_events[n]] <= prio[subs_events[j]]
    BY <1>4, <2>1 DEF OrderInv, Sorted
  <2> QED BY <1>4, <2>1, <2>2, <2>3
<1>6. subs_events'[j] \in Idx
  BY <1>2, <1>3, <1>4
<1>7. subs_events'[i] \in overtaken[subs_events'[j]]
  BY <1>6, NothingStarted
<1>8. CASE j = n - 1
  <2>1. subs_events'[j] = running
    BY <1>2, <1>8
  <2>2. running # NoEvent
    BY <1>6, <2>1 DEF Idx, NoEvent
  <2> QED BY <1>7, <2>1, <2>2 DEF OvertakenInv
<1>9. CASE j # n - 1
  <2>1. old(i) < old(j)
    BY <1>5, <1>9
  <2> HIDE DEF old
  <2>2. subs_events[old(i)] = subs_events[0]
    BY <1>3, <1>5, <1>7, <1>9, <2>1 DEF OvertakenInv
  <2> QED BY <1>3, <1>4, <1>5, <2>2
<1> QED BY <1>8, <1>9

\* Dispatch starts the head, one of the most urgent events.
LEMMA DispatchStarts ==
    ASSUME StateInv, StateInv', Dispatch
    PROVE  /\ pending_cnt > 0 /\ running = NoEvent /\ running' = subs_events[0]
           /\ Started = {running'}
           /\ UNCHANGED <<table, prio>>
<1> USE TableFacts
<1>1. pc' # "crashed" /\ pc = "select"
  BY DEF Dispatch, StateInv
<1>2. /\ pending_cnt > 0 /\ running = NoEvent /\ running' = subs_events[0]
      /\ UNCHANGED <<table, prio>>
  BY <1>1 DEF Dispatch, StateInv, attrs
<1>3. 0 \in 0 .. pending_cnt - 1
  BY <1>2
<1>4. running' \in Idx
  BY <1>2, <1>3
<1>5. running' # NoEvent
  BY <1>4 DEF Idx, NoEvent
<1> QED BY <1>2, <1>5 DEF Started

LEMMA StepKeepsOvertakenInv ==
    ASSUME "stale" \notin Calls, "reprioritise" \notin Calls,
           StateInv, StateInv', OrderInv, OvertakenInv, Next, Observe
    PROVE  OvertakenInv'
<1> USE TableFacts
<1>1. CASE Dispatch
  <2>1. /\ pending_cnt > 0 /\ running = NoEvent /\ running' = subs_events[0]
        /\ Started = {running'}
        /\ UNCHANGED <<table, prio>>
    BY <1>1, DispatchStarts
  <2>2. 0 \in 0 .. pending_cnt - 1
    BY <2>1
  <2>3. overtaken'[running'] = {}
    BY <2>1, <2>2 DEF Observe
  <2>4. ASSUME NEW i \in 0 .. pending_cnt - 1, NEW j \in 0 .. pending_cnt - 1, i < j,
               prio[subs_events[i]] = prio[subs_events[j]],
               subs_events[i] \in overtaken'[subs_events[j]]
        PROVE  subs_events[i] = running'
    <3>1. subs_events[i] \in Idx /\ subs_events[j] \in Idx
      OBVIOUS
    <3>2. subs_events[i] \in overtaken[subs_events[j]] \cup {running'}
      BY <2>1, <2>4, <3>1 DEF Observe
    <3>3. CASE subs_events[i] \in overtaken[subs_events[j]]
      <4>1. subs_events[i] = NoEvent
        BY <2>1, <2>4, <3>3 DEF OvertakenInv
      <4> QED BY <3>1, <4>1 DEF Idx, NoEvent
    <3> QED BY <3>2, <3>3
  <2> QED BY <2>1, <2>3, <2>4 DEF OvertakenInv, table
<1>2. ASSUME UNCHANGED <<subs_events, pending_cnt, running>>,
             \A i \in 0 .. pending_cnt - 1 : prio'[subs_events[i]] = prio[subs_events[i]]
      PROVE  OvertakenInv'
  <2>1. Started = {}
    BY <1>2 DEF Started
  <2>2. ASSUME NEW i \in 0 .. pending_cnt - 1, NEW j \in 0 .. pending_cnt - 1, i < j,
               prio'[subs_events[i]] = prio'[subs_events[j]],
               subs_events[i] \in overtaken'[subs_events[j]]
        PROVE  subs_events[i] = running
    <3>1. subs_events[j] \in Idx
      OBVIOUS
    <3>2. subs_events[i] \in overtaken[subs_events[j]]
      BY <2>1, <2>2, <3>1, NothingStarted
    <3> QED BY <1>2, <2>2, <3>2 DEF OvertakenInv
  <2> QED BY <1>2, <2>1, <2>2, NothingOvertakesRunning DEF OvertakenInv
<1>3. CASE Create
  <2>1. /\ created_cnt \in Idx /\ UNCHANGED <<subs_events, pending_cnt, running>>
        /\ prio' = [prio EXCEPT ![subs_events[created_cnt]] = DefaultPrio]
    BY <1>3 DEF Create, Idx
  <2>2. \A i \in 0 .. pending_cnt - 1 : prio'[subs_events[i]] = prio[subs_events[i]]
    BY <2>1
  <2> QED BY <1>2, <2>1, <2>2
<1>4. ASSUME NEW e \in Idx, NEW p \in Prios, SetPriority(e, p) PROVE OvertakenInv'
  <2>1. /\ e \notin Runnable /\ UNCHANGED <<subs_events, pending_cnt, running>>
        /\ prio' = [prio EXCEPT ![e] = p]
    BY <1>4 DEF SetPriority, table
  <2>2. \A i \in 0 .. pending_cnt - 1 : prio'[subs_events[i]] = prio[subs_events[i]]
    BY <2>1 DEF Runnable
  <2> QED BY <1>2, <2>1, <2>2
<1>5. ASSUME NEW e \in Idx, Raise(e) PROVE OvertakenInv'
  <2>1. infra_evt_raise(e) /\ UNCHANGED <<prio, running>>
    BY <1>5 DEF Raise, attrs
  <2>2. Started = {}
    BY <2>1 DEF Started
  <2> QED BY <2>1, <2>2, RaiseKeepsOvertaken
<1>6. ASSUME NEW e \in Idx, Clear(e) PROVE OvertakenInv'
  <2>1. PICK h \in 0 .. pending_cnt - 1 : subs_clear_pending(h)
    BY <1>6 DEF Clear
  <2>2. UNCHANGED <<prio, running>>
    BY <1>6 DEF Clear, attrs
  <2>3. Started = {}
    BY <2>2 DEF Started
  <2> QED BY <2>1, <2>2, <2>3, ClearKeepsOvertaken
<1>7. CASE Drain
  <2>1. Len(isr) > 0 /\ infra_evt_raise(isr[Len(isr)]) /\ UNCHANGED <<prio, running>>
    BY <1>7, DrainEffect DEF Drain, attrs
  <2>2. isr[Len(isr)] \in Idx
    BY <2>1, PurgeFacts
  <2>3. Started = {}
    BY <2>1 DEF Started
  <2> QED BY <2>1, <2>2, <2>3, RaiseKeepsOvertaken
<1>8. ASSUME NEW status \in {"NONE", "CLEAR"}, Return(status) PROVE OvertakenInv'
  <2>1. /\ pc = "callback" /\ subs_proc_rtn(status) /\ running' = NoEvent
        /\ prio' = prio
    BY <1>8 DEF Return, attrs
  <2>2. /\ running # NoEvent /\ subs_events[0] = running
        /\ 0 \in 0 .. pending_cnt - 1
    BY <2>1 DEF StateInv, OrderInv, HeadIsRunning
  <2>3. Started = {}
    BY <2>1 DEF Started
  <2>4. CASE status = "CLEAR"
    BY <2>1, <2>2, <2>3, <2>4, ClearKeepsOvertaken DEF subs_proc_rtn
  <2>5. CASE status = "NONE"
    BY <2>1, <2>2, <2>3, <2>5, RotationKeepsOvertaken DEF subs_proc_rtn
  <2> QED BY <2>4, <2>5
<1>9. CASE \/ Abort \/ Purge \/ Execute \/ Drained \/ Idle \/ IdleReturn
           \/ \E e \in Idx : \/ SetCallback(e) \/ Delete(e) \/ PurgeSearch(e)
                            \/ RaiseISR(e)
  <2>1. UNCHANGED <<subs_events, pending_cnt, running, prio>>
    BY <1>9 DEF Abort, Purge, PurgeMiss, PurgeShift, PurgeEnd, Execute, Drained, Idle,
                IdleReturn, SetCallback, Delete, PurgeSearch, RaiseISR, attrs, table
  <2> QED BY <1>2, <2>1
<1> QED
  BY <1>1, <1>3, <1>4, <1>5, <1>6, <1>7, <1>8, <1>9 DEF Next, Client, Loop

\* The history watches the loop and does not steer it.
LEMMA HistoryOnly == MCSpec => Spec
<1>1. MCInit => Init
  BY DEF MCInit
<1>2. [MCNext]_mcvars => [Next]_vars
  BY DEF MCNext, mcvars
<1> QED BY <1>1, <1>2, PTL DEF MCSpec, Spec

LEMMA OvertakenInvHolds ==
    ASSUME "stale" \notin Calls, "urgent" \notin Calls, "reprioritise" \notin Calls
    PROVE  MCSpec => []OvertakenInv
<1>1. MCInit => OvertakenInv
  BY DEF MCInit, Init, OvertakenInv
<1>2. StateInv /\ StateInv' /\ OrderInv /\ OvertakenInv /\ [MCNext]_mcvars
      => OvertakenInv'
  <2> SUFFICES ASSUME StateInv, StateInv', OrderInv, OvertakenInv, [MCNext]_mcvars
               PROVE  OvertakenInv'
    OBVIOUS
  <2>1. CASE MCNext
    BY <2>1, StepKeepsOvertakenInv DEF MCNext
  <2>2. CASE UNCHANGED mcvars
    BY <2>2 DEF mcvars, vars, OvertakenInv
  <2> QED BY <2>1, <2>2
<1> QED BY <1>1, <1>2, HistoryOnly, StateInvHolds, OrderInvHolds, PTL DEF MCSpec

\* event.h:71-72: while an event waits, no other event of its priority runs
\* twice and none that is less urgent runs at all, for every number of events
\* and priorities, under the discipline of StatusMeetsItsEvent.
THEOREM OvertakingIsBounded ==
    ASSUME "stale" \notin Calls, "urgent" \notin Calls, "reprioritise" \notin Calls
    PROVE  MCSpec => BoundedOvertaking
<1> DEFINE Bounded ==
      \A f \in Started, e \in Runnable :
          f # e => /\ prio[f] <= prio[e]
                   /\ prio[f] = prio[e] => f \notin overtaken[e]
<1>1. StateInv /\ StateInv' /\ OrderInv /\ OvertakenInv /\ [MCNext]_mcvars
      => [Bounded]_mcvars
  <2> USE TableFacts
  <2> SUFFICES ASSUME StateInv, StateInv', OrderInv, OvertakenInv, Next,
                      NEW f \in Started, NEW j \in 0 .. pending_cnt - 1,
                      f # subs_events[j]
               PROVE  /\ prio[f] <= prio[subs_events[j]]
                      /\ prio[f] = prio[subs_events[j]] => f \notin overtaken[subs_events[j]]
    BY DEF MCNext, Runnable
  <2>1. Dispatch
    BY OnlyDispatchStarts
  <2>2. running = NoEvent /\ f = subs_events[0]
    BY <2>1, DispatchStarts
  <2>3. 0 \in 0 .. pending_cnt - 1 /\ 0 < j
    BY <2>2
  <2>4. prio[f] <= prio[subs_events[j]]
    BY <2>2, <2>3 DEF OrderInv, Sorted
  <2>5. f \in Idx
    BY <2>2, <2>3
  <2>6. f # NoEvent
    BY <2>5 DEF Idx, NoEvent
  <2> QED BY <2>2, <2>3, <2>4, <2>6 DEF OvertakenInv
<1> QED
  BY <1>1, HistoryOnly, StateInvHolds, OrderInvHolds, OvertakenInvHolds, PTL
     DEF MCSpec, BoundedOvertaking
--------------------------------------------------------------------------------
(* The runnable events of one priority are a queue, whatever a client does  *)
(* with priorities: what EventHandler takes from the loop.                  *)

Before(e, f) ==
    \E i, j \in 0 .. pending_cnt - 1 :
        i < j /\ subs_events[i] = e /\ subs_events[j] = f

\* Of two equals that stay runnable the first remains the first, and an event
\* that becomes runnable comes behind its equals.  Only the head, when its
\* function returns NONE, gives up its place.
KeepsItsTurn ==
    [][\A e \in Runnable \cap Runnable', f \in Runnable' :
         /\ e # f /\ prio[e] = prio[f] /\ ~Before(f, e)
         /\ ~(Return("NONE") /\ e = subs_events[0])
         => Before(e, f)']_vars

\* Two runnable events are one before the other.
LEMMA OneIsFirst ==
    ASSUME NEW e \in Runnable, NEW f \in Runnable, e # f, ~Before(f, e), StateInv
    PROVE  \E i, j \in 0 .. pending_cnt - 1 :
             i < j /\ subs_events[i] = e /\ subs_events[j] = f
<1>1. PICK i \in 0 .. pending_cnt - 1 : subs_events[i] = e
  BY DEF Runnable
<1>2. PICK j \in 0 .. pending_cnt - 1 : subs_events[j] = f
  BY DEF Runnable
<1>3. ~(j < i) /\ i # j
  BY <1>1, <1>2 DEF Before
<1> QED BY <1>1, <1>2, <1>3, TableFacts

LEMMA RaiseKeepsTurns ==
    ASSUME StateInv, NEW g \in handles, infra_evt_raise(g),
           NEW e \in Runnable, NEW f \in Runnable',
           e # f, prio[e] = prio[f], ~Before(f, e)
    PROVE  Before(e, f)'
<1> USE TableFacts
<1>1. Runnable' = Runnable \cup {g}
  BY RaiseEffect
<1>2. CASE UNCHANGED table
  <2>1. f \in Runnable
    BY <1>2 DEF table, Runnable
  <2>2. Before(e, f)
    BY <2>1, OneIsFirst DEF Before
  <2> QED BY <1>2, <2>2 DEF table, Before
<1>3. ASSUME NEW h \in RaisePlaces(g), NEW k \in 0 .. pending_cnt, InsertsAt(g, k),
             subs_events' = PlaceRaised(h, k), pending_cnt' = pending_cnt + 1
      PROVE  Before(e, f)'
  <2> DEFINE new(m) == IF m < k THEN m ELSE m + 1
  <2>1. h \in pending_cnt .. created_cnt /\ subs_events[h] = g
    BY DEF RaisePlaces, SearchEnd
  <2>2. /\ subs_events'[k] = g
        /\ \A m \in 0 .. pending_cnt - 1 :
             new(m) \in 0 .. pending_cnt /\ subs_events'[new(m)] = subs_events[m]
    BY <1>3, <2>1 DEF PlaceRaised, Idx
  <2>3. CASE f \in Runnable
    <3>1. PICK i, j \in 0 .. pending_cnt - 1 :
            i < j /\ subs_events[i] = e /\ subs_events[j] = f
      BY <2>3, OneIsFirst
    <3>2. new(i) < new(j)
      BY <3>1
    <3> HIDE DEF new
    <3> QED BY <1>3, <2>2, <3>1, <3>2 DEF Before
  <2>4. CASE f \notin Runnable
    <3>1. f = g
      BY <1>1, <2>4
    <3>2. PICK i \in 0 .. pending_cnt - 1 : subs_events[i] = e
      BY DEF Runnable
    <3>3. i < k
      BY <1>3, <3>1, <3>2 DEF InsertsAt
    <3>4. /\ new(i) < k /\ subs_events'[new(i)] = e
          /\ new(i) \in 0 .. pending_cnt
      BY <2>2, <3>2, <3>3
    <3> HIDE DEF new
    <3>5. k \in 0 .. pending_cnt' - 1 /\ new(i) \in 0 .. pending_cnt' - 1
      BY <1>3, <3>4
    <3> QED BY <2>2, <3>1, <3>4, <3>5 DEF Before
  <2> QED BY <2>3, <2>4
<1> QED BY <1>2, <1>3 DEF infra_evt_raise

LEMMA ClearKeepsTurns ==
    ASSUME StateInv, NEW h \in 0 .. pending_cnt - 1, subs_clear_pending(h),
           NEW e \in Runnable', NEW f \in Runnable', e # f, ~Before(f, e)
    PROVE  Before(e, f)'
<1> USE TableFacts
<1>1. e \in Runnable /\ f \in Runnable /\ subs_events[h] \notin {e, f}
  BY ClearEffect
<1>2. PICK i, j \in 0 .. pending_cnt - 1 :
        i < j /\ subs_events[i] = e /\ subs_events[j] = f
  BY <1>1, OneIsFirst
<1> DEFINE new(m) == IF m < h THEN m ELSE m - 1
<1>3. /\ pending_cnt' = pending_cnt - 1
      /\ \A m \in 0 .. pending_cnt - 1 :
           m # h => /\ new(m) \in 0 .. pending_cnt - 2
                    /\ subs_events'[new(m)] = subs_events[m]
  BY DEF subs_clear_pending, PlaceCleared, Idx
<1>4. i # h /\ j # h
  BY <1>1, <1>2
<1>5. new(i) < new(j)
  BY <1>2, <1>4
<1> HIDE DEF new
<1> QED BY <1>2, <1>3, <1>4, <1>5 DEF Before

LEMMA RotationKeepsTurns ==
    ASSUME StateInv, subs_proc_rtn_none,
           NEW e \in Runnable, NEW f \in Runnable', e # f, ~Before(f, e),
           e # subs_events[0]
    PROVE  Before(e, f)'
<1> USE TableFacts
<1>1. f \in Runnable
  BY RotationEffect
<1>2. PICK i, j \in 0 .. pending_cnt - 1 :
        i < j /\ subs_events[i] = e /\ subs_events[j] = f
  BY <1>1, OneIsFirst
<1>3. PICK n \in 1 .. pending_cnt :
        subs_events' = PlaceRotated(n) /\ pending_cnt' = pending_cnt
  BY DEF subs_proc_rtn_none
<1> DEFINE new(m) == IF m < n THEN m - 1 ELSE m
<1>4. \A m \in 1 .. pending_cnt - 1 :
        new(m) \in 0 .. pending_cnt - 1 /\ subs_events'[new(m)] = subs_events[m]
  BY <1>3 DEF PlaceRotated, Idx
<1>5. i \in 1 .. pending_cnt - 1 /\ j \in 1 .. pending_cnt - 1
  BY <1>2
<1>6. new(i) < new(j)
  BY <1>2
<1> HIDE DEF new
<1> QED BY <1>2, <1>3, <1>4, <1>5, <1>6 DEF Before

\* event.h:71-72: events of one priority run first come, first served.
THEOREM EqualsKeepTheirTurn ==
    ASSUME "stale" \notin Calls
    PROVE  Spec => KeepsItsTurn
<1> DEFINE Turns ==
      \A e \in Runnable \cap Runnable', f \in Runnable' :
         /\ e # f /\ prio[e] = prio[f] /\ ~Before(f, e)
         /\ ~(Return("NONE") /\ e = subs_events[0])
         => Before(e, f)'
<1>1. StateInv /\ [Next]_vars => [Turns]_vars
  <2> SUFFICES ASSUME StateInv, Next, NEW e \in Runnable \cap Runnable',
                      NEW f \in Runnable', e # f, prio[e] = prio[f], ~Before(f, e),
                      ~(Return("NONE") /\ e = subs_events[0])
               PROVE  Before(e, f)'
    OBVIOUS
  <2>1. CASE UNCHANGED <<subs_events, pending_cnt>>
    <3>1. f \in Runnable
      BY <2>1 DEF Runnable
    <3>2. Before(e, f)
      BY <3>1, OneIsFirst DEF Before
    <3> QED BY <2>1, <3>2 DEF Before
  <2>2. ASSUME NEW g \in Idx, Raise(g) PROVE Before(e, f)'
    BY <2>2, RaiseKeepsTurns DEF Raise, Targets
  <2>3. CASE Drain
    BY <2>3, DrainEffect, RaiseKeepsTurns
  <2>4. ASSUME NEW g \in Idx, Clear(g) PROVE Before(e, f)'
    BY <2>4, ClearKeepsTurns DEF Clear
  <2>5. CASE Return("CLEAR")
    <3>1. subs_clear_pending(0) /\ 0 \in 0 .. pending_cnt - 1
      BY <2>5, TableFacts DEF Return, subs_proc_rtn, StateInv
    <3> QED BY <3>1, ClearKeepsTurns
  <2>6. CASE Return("NONE")
    <3>1. subs_proc_rtn_none /\ e # subs_events[0]
      BY <2>6 DEF Return, subs_proc_rtn
    <3> QED BY <3>1, RotationKeepsTurns
  <2>7. CASE \/ Create \/ Abort \/ Purge \/ Execute \/ Drained \/ Dispatch
             \/ Idle \/ IdleReturn
             \/ \E g \in Idx : \/ SetCallback(g) \/ Delete(g) \/ PurgeSearch(g)
                              \/ RaiseISR(g)
                              \/ \E p \in Prios : SetPriority(g, p)
    <3>1. UNCHANGED <<subs_events, pending_cnt>>
      BY <2>7 DEF Create, Abort, Purge, PurgeMiss, PurgeShift, PurgeEnd, Execute,
                  Drained, Dispatch, Idle, IdleReturn, SetCallback, Delete,
                  PurgeSearch, RaiseISR, SetPriority, table
    <3> QED BY <2>1, <3>1
  <2> QED
    BY <2>2, <2>3, <2>4, <2>5, <2>6, <2>7 DEF Next, Client, Loop
<1> QED BY <1>1, StateInvHolds, PTL DEF Spec, KeepsItsTurn
================================================================================

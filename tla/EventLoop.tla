------------------------------- MODULE EventLoop -------------------------------
(****************************************************************************)
(* library/event/event.c: the run-to-completion event loop that every       *)
(* component of the firmware hangs its interrupts on.                       *)
(*                                                                          *)
(* Two contexts execute: the main thread (start-up code, the loop, and the  *)
(* processing functions the loop calls) and the interrupt handlers, whose   *)
(* only access is infra_evt_raise_ISR.  A step of the main thread is one    *)
(* call of the library, which touches arrays no interrupt handler touches;  *)
(* infra_evt_clear_ISR_pendingevent is the exception, it edits the buffer   *)
(* of the interrupt handlers with interrupts enabled, and takes three.      *)
(****************************************************************************)
EXTENDS Naturals, Sequences

CONSTANTS
    EventMax,     \* INFRA_EVT_MAX, 64 in the program
    Creates,      \* bound: number of infra_evt_create calls of the clients
    Prios,        \* priority numbers the clients use
    DefaultPrio,  \* INFRA_EVT_PRIO_DEFAULT
    Calls,        \* what the clients may do, see below
    Quiet,        \* TRUE: an interrupt source whose event waits does not fire
    PurgeQuiet    \* TRUE: no interrupt comes during clear_ISR_pendingevent

\* Library calls, then the liberties a client may take with them:
\*   "none"          a processing function may return INFRA_EVT_RTN_NONE
\*   "stale"         calls name any index, not only events that were created
\*   "reprioritise"  set_priority of an event that is already runnable
\*   "urgent"        a processing function raises a more urgent event
\*   "after_abort"   calls after infra_evts_abort has stopped the loop
CallNames == {"raise", "clear", "clear_ISR", "delete", "abort", "none", "stale",
              "reprioritise", "urgent", "after_abort"}

\* event_handler_init makes at most 49 create calls for 64 places, so the
\* table is never full and no search of infra_evt_raise leaves the array.
ASSUME EventLoopAssumption ==
    /\ EventMax \in Nat
    /\ Creates \in Nat
    /\ Creates < EventMax
    /\ Prios \subseteq Nat
    /\ DefaultPrio \in Prios
    /\ Calls \subseteq CallNames
    /\ Quiet \in BOOLEAN
    /\ PurgeQuiet \in BOOLEAN

Idx     == 0 .. EventMax - 1
NoEvent == EventMax

VARIABLES
    subs_events,  \* runnable events, then blocked ones, then free ones
    pending_cnt,  \* subs_events[0..pending_cnt) are runnable
    created_cnt,  \* subs_events[pending_cnt..created_cnt) are blocked
    prio,         \* subs_event_list[].prio
    func,         \* subs_event_list[].func: "null", "default" or "client"
    isr,          \* subs_raised_events_ISR[0..subs_raised_events_ISR_cnt)
    executing,    \* subs_events_executing
    aborted,      \* subs_events_aborted
    handles,      \* what create returned to the clients (their g_event[])
    pc,           \* where the main thread is
    running,      \* event whose processing function is on the stack
    purge         \* locals of a clear_ISR_pendingevent that has not returned

table == <<subs_events, pending_cnt, created_cnt>>
attrs == <<prio, func>>
vars  == <<subs_events, pending_cnt, created_cnt, prio, func, isr, executing,
           aborted, handles, pc, running, purge>>

NoPurge == [at |-> "none", evt |-> NoEvent, h |-> 0, cnt |-> 0]

TypeOK ==
    /\ subs_events \in [Idx -> Idx]
    /\ pending_cnt \in 0 .. EventMax
    /\ created_cnt \in 0 .. EventMax
    /\ prio \in [Idx -> Nat]
    /\ func \in [Idx -> {"null", "default", "client"}]
    /\ isr \in Seq(Idx)
    /\ Len(isr) <= EventMax
    /\ executing \in BOOLEAN
    /\ aborted \in BOOLEAN
    /\ handles \subseteq Idx
    /\ pc \in {"main", "drain", "select", "callback", "idle", "crashed"}
    /\ running \in Idx \cup {NoEvent}
    /\ purge \in [at : {"none", "search", "shift"}, evt : Idx \cup {NoEvent},
                  h : 0 .. EventMax, cnt : 0 .. EventMax]

Runnable == {subs_events[i] : i \in 0 .. pending_cnt - 1}
Created  == {subs_events[i] : i \in 0 .. created_cnt - 1}
InISR    == {isr[i] : i \in 1 .. Len(isr)}
Waiting  == Runnable \cup InISR

\* The state infra_evts_init leaves; the rest is zero-initialised storage.
Init ==
    /\ subs_events = [i \in Idx |-> i]
    /\ pending_cnt = 0
    /\ created_cnt = 0
    /\ prio = [i \in Idx |-> DefaultPrio]
    /\ func = [i \in Idx |-> "null"]
    /\ isr = <<>>
    /\ executing = FALSE
    /\ aborted = FALSE
    /\ handles = {}
    /\ pc = "main"
    /\ running = NoEvent
    /\ purge = NoPurge
--------------------------------------------------------------------------------
(* Changes of the table *)

\* FAULT: the event at the first blocked place is not saved by the swap.
PlaceRaisedNoSwap(h, k) ==
    [i \in Idx |-> IF i = k THEN subs_events[h]
                   ELSE IF k < i /\ i <= pending_cnt THEN subs_events[i - 1]
                   ELSE subs_events[i]]

\* Raise the event at place h: swap it with the first blocked place, then
\* insert it at k, behind every runnable event it does not precede.  The scan
\* goes from the back and stops at the first event that is not less urgent.
PlaceRaised(h, k) ==
    [i \in Idx |-> IF i = k THEN subs_events[h]
                   ELSE IF k < i /\ i <= pending_cnt THEN subs_events[i - 1]
                   ELSE IF i = h THEN subs_events[pending_cnt]
                   ELSE subs_events[i]]

\* FAULT: ">=" in the insertion, a raised event overtakes its equals.
InsertsBeforeEquals(e, k) ==
    /\ k # 0 => prio[subs_events[k - 1]] < prio[e]
    /\ \A j \in k .. pending_cnt - 1 : prio[subs_events[j]] >= prio[e]

InsertsAt(e, k) ==
    /\ k # 0 => prio[subs_events[k - 1]] <= prio[e]
    /\ \A j \in k .. pending_cnt - 1 : prio[subs_events[j]] > prio[e]

\* The search ends at created_cnt, and the event found there is accepted too,
\* which is a free event.  Once that has made pending_cnt the larger one the
\* search no longer meets its end and goes through the rest of the array.
SearchEnd == IF pending_cnt <= created_cnt THEN created_cnt ELSE EventMax - 1
RaisePlaces(e) == {h \in pending_cnt .. SearchEnd : subs_events[h] = e}

infra_evt_raise(e) ==
    \/ \E h \in RaisePlaces(e), k \in 0 .. pending_cnt :
        /\ InsertsAt(e, k)
        /\ subs_events' = PlaceRaised(h, k)
        /\ pending_cnt' = pending_cnt + 1
        /\ created_cnt' = created_cnt
    \/ /\ RaisePlaces(e) = {}
       /\ UNCHANGED table

\* Make the runnable event at place h the first blocked one.
PlaceCleared(h) ==
    [i \in Idx |-> IF h <= i /\ i < pending_cnt - 1 THEN subs_events[i + 1]
                   ELSE IF i = pending_cnt - 1 THEN subs_events[h]
                   ELSE subs_events[i]]

subs_clear_pending(h) ==
    /\ subs_events' = PlaceCleared(h)
    /\ pending_cnt' = pending_cnt - 1
    /\ created_cnt' = created_cnt

\* Move the head behind the n - 1 events that follow it with its priority.
PlaceRotated(n) ==
    [i \in Idx |-> IF i < n - 1 THEN subs_events[i + 1]
                   ELSE IF i = n - 1 THEN subs_events[0]
                   ELSE subs_events[i]]

\* FAULT: the rotation does not stop at the next priority.
WholeRun(n) == n = pending_cnt

SamePrioRun(n) ==
    /\ \A j \in 1 .. n - 1 : prio[subs_events[j]] = prio[subs_events[0]]
    /\ n < pending_cnt => prio[subs_events[n]] # prio[subs_events[0]]

\* FAULT: NONE leaves the event at the head.
NoRotation == UNCHANGED table

subs_proc_rtn_none ==
    \E n \in 1 .. pending_cnt :
        /\ SamePrioRun(n)
        /\ subs_events' = PlaceRotated(n)
        /\ UNCHANGED <<pending_cnt, created_cnt>>

subs_proc_rtn(status) ==
    IF status = "CLEAR" THEN subs_clear_pending(0) ELSE subs_proc_rtn_none
--------------------------------------------------------------------------------
(* Calls of the main thread: from start-up code, a processing function that *)
(* a client registered, or the idle callback.                               *)

ClientRuns ==
    /\ purge.at = "none"
    /\ \/ pc = "main" /\ (aborted => "after_abort" \in Calls)
       \/ pc = "callback" /\ func[running] = "client"
       \/ pc = "idle"

Targets == IF "stale" \in Calls THEN Idx ELSE handles

\* FAULT: create hands out an event without a default processing function.
CreateNoDefault ==
    /\ ClientRuns
    /\ created_cnt < Creates
    /\ prio' = [prio EXCEPT ![subs_events[created_cnt]] = DefaultPrio]
    /\ handles' = handles \cup {subs_events[created_cnt]}
    /\ created_cnt' = created_cnt + 1
    /\ UNCHANGED <<subs_events, pending_cnt, func, isr, executing, aborted, pc,
                   running, purge>>

Create ==
    /\ ClientRuns
    /\ created_cnt < Creates
    /\ LET idx == subs_events[created_cnt]
       IN  /\ prio' = [prio EXCEPT ![idx] = DefaultPrio]
           /\ func' = [func EXCEPT ![idx] = "default"]
           /\ handles' = handles \cup {idx}
    /\ created_cnt' = created_cnt + 1
    /\ UNCHANGED <<subs_events, pending_cnt, isr, executing, aborted, pc,
                   running, purge>>

SetCallback(e) ==
    /\ ClientRuns
    /\ e \in handles
    /\ func' = [func EXCEPT ![e] = "client"]
    /\ UNCHANGED <<table, prio, isr, executing, aborted, handles, pc, running,
                   purge>>

SetPriority(e, p) ==
    /\ ClientRuns
    /\ e \in handles
    /\ e \in Runnable => "reprioritise" \in Calls
    /\ prio' = [prio EXCEPT ![e] = p]
    /\ UNCHANGED <<table, func, isr, executing, aborted, handles, pc, running,
                   purge>>

Raise(e) ==
    /\ ClientRuns
    /\ "raise" \in Calls
    /\ e \in Targets
    /\ running # NoEvent /\ "urgent" \notin Calls => prio[e] >= prio[running]
    /\ infra_evt_raise(e)
    /\ UNCHANGED <<attrs, isr, executing, aborted, handles, pc, running, purge>>

\* FAULT: clear does not spare the executing event.
ClearRunning(e) ==
    /\ ClientRuns
    /\ "clear" \in Calls
    /\ e \in Targets
    /\ \E h \in 0 .. pending_cnt - 1 :
        subs_events[h] = e /\ subs_clear_pending(h)
    /\ UNCHANGED <<attrs, isr, executing, aborted, handles, pc, running, purge>>

\* The head is taken for the executing event as long as the flag is set.
Clear(e) ==
    /\ ClientRuns
    /\ "clear" \in Calls
    /\ e \in Targets
    /\ \E h \in 0 .. pending_cnt - 1 :
        /\ subs_events[h] = e
        /\ h # 0 \/ ~executing
        /\ subs_clear_pending(h)
    /\ UNCHANGED <<attrs, isr, executing, aborted, handles, pc, running, purge>>

\* The guard admits only events that were not created, and for those the
\* shift runs upwards past the end of the array.
Delete(e) ==
    /\ ClientRuns
    /\ "delete" \in Calls
    /\ e \in Targets
    /\ \E h \in Idx :
        /\ subs_events[h] = e
        /\ pc' = IF (h # 0 \/ ~executing) /\ h >= created_cnt
                 THEN "crashed" ELSE pc
    /\ UNCHANGED <<table, attrs, isr, executing, aborted, handles, running,
                   purge>>

Abort ==
    /\ ClientRuns
    /\ "abort" \in Calls
    /\ aborted' = TRUE
    /\ UNCHANGED <<table, attrs, isr, executing, handles, pc, running, purge>>
--------------------------------------------------------------------------------
(* infra_evt_clear_ISR_pendingevent.  subs_raised_events_ISR_cnt is not     *)
(* volatile: wherever the code reads it again the build may use the value   *)
(* it read before (purge.cnt) or the current one.                           *)

Counts == {Len(isr), purge.cnt}

PurgeSearch(e) ==
    /\ ClientRuns
    /\ "clear_ISR" \in Calls
    /\ e \in Targets
    /\ \E h \in 0 .. Len(isr) :
        /\ \A i \in 1 .. h : isr[i] # e
        /\ h < Len(isr) => isr[h + 1] = e
        /\ purge' = [at |-> "search", evt |-> e, h |-> h, cnt |-> Len(isr)]
    /\ UNCHANGED <<table, attrs, isr, executing, aborted, handles, pc, running>>

PurgeMiss ==
    /\ purge.at = "search"
    /\ \E n \in Counts : purge.h >= n
    /\ purge' = NoPurge
    /\ UNCHANGED <<table, attrs, isr, executing, aborted, handles, pc, running>>

PurgeShift ==
    /\ purge.at = "search"
    /\ \E n \in Counts :
        /\ purge.h < n
        /\ isr' = [i \in 1 .. Len(isr) |->
                     IF purge.h < i /\ i < n THEN isr[i + 1] ELSE isr[i]]
        /\ purge' = [purge EXCEPT !.at = "shift", !.cnt = n]
    /\ UNCHANGED <<table, attrs, executing, aborted, handles, pc, running>>

\* FAULT: the shift is done but the count keeps its value.
PurgeNoDecrement ==
    /\ purge.at = "shift"
    /\ purge' = NoPurge
    /\ UNCHANGED <<table, attrs, isr, executing, aborted, handles, pc, running>>

PurgeEnd ==
    /\ purge.at = "shift"
    /\ \E n \in Counts : isr' = SubSeq(isr, 1, n - 1)
    /\ purge' = NoPurge
    /\ UNCHANGED <<table, attrs, executing, aborted, handles, pc, running>>
--------------------------------------------------------------------------------
(* Interrupt handlers *)

\* FAULT: raise_ISR does not look at the room left.
RaiseISRUnbounded(e) ==
    /\ pc # "crashed"
    /\ e \in Targets
    /\ Len(isr) <= EventMax
    /\ PurgeQuiet => purge.at = "none"
    /\ isr' = Append(isr, e)
    /\ UNCHANGED <<table, attrs, executing, aborted, handles, pc, running, purge>>

RaiseISR(e) ==
    /\ pc # "crashed"
    /\ e \in Targets
    /\ Quiet => e \notin Waiting
    /\ PurgeQuiet => purge.at = "none"
    /\ Len(isr) < EventMax
    /\ isr' = Append(isr, e)
    /\ UNCHANGED <<table, attrs, executing, aborted, handles, pc, running, purge>>
--------------------------------------------------------------------------------
(* infra_evts_execute *)

Execute ==
    /\ pc = "main"
    /\ purge.at = "none"
    /\ aborted' = FALSE
    /\ pc' = "drain"
    /\ UNCHANGED <<table, attrs, isr, executing, handles, running, purge>>

\* One turn of the drain loop, under arc_lock_save: the last event in is the
\* first one out.
Drain ==
    /\ pc = "drain"
    /\ isr # <<>>
    /\ infra_evt_raise(isr[Len(isr)])
    /\ isr' = SubSeq(isr, 1, Len(isr) - 1)
    /\ UNCHANGED <<attrs, executing, aborted, handles, pc, running, purge>>

Drained ==
    /\ pc = "drain"
    /\ isr = <<>>
    /\ pc' = "select"
    /\ UNCHANGED <<table, attrs, isr, executing, aborted, handles, running, purge>>

Dispatch ==
    /\ pc = "select"
    /\ pending_cnt > 0
    /\ executing' = TRUE
    /\ IF func[subs_events[0]] = "null"
       THEN pc' = "crashed" /\ UNCHANGED running
       ELSE pc' = "callback" /\ running' = subs_events[0]
    /\ UNCHANGED <<table, attrs, isr, aborted, handles, purge>>

NextTurn == IF aborted THEN "main" ELSE "drain"

\* The processing function returns and its status is applied to whichever
\* event is now at the head.
Return(status) ==
    /\ pc = "callback"
    /\ purge.at = "none"
    /\ func[running] = "default" => status = "CLEAR"
    /\ status = "NONE" => "none" \in Calls
    /\ subs_proc_rtn(status)
    /\ running' = NoEvent
    /\ pc' = NextTurn
    /\ UNCHANGED <<attrs, isr, executing, aborted, handles, purge>>

Idle ==
    /\ pc = "select"
    /\ pending_cnt = 0
    /\ executing' = FALSE
    /\ pc' = "idle"
    /\ UNCHANGED <<table, attrs, isr, aborted, handles, running, purge>>

IdleReturn ==
    /\ pc = "idle"
    /\ purge.at = "none"
    /\ pc' = NextTurn
    /\ UNCHANGED <<table, attrs, isr, executing, aborted, handles, running, purge>>
--------------------------------------------------------------------------------
Client ==
    \/ Create
    \/ Abort
    \/ \E e \in Idx :
        \/ SetCallback(e) \/ Raise(e) \/ Clear(e) \/ Delete(e) \/ PurgeSearch(e)
        \/ \E p \in Prios : SetPriority(e, p)

Purge == PurgeMiss \/ PurgeShift \/ PurgeEnd

Loop ==
    \/ Execute \/ Drain \/ Drained \/ Dispatch \/ Idle \/ IdleReturn
    \/ \E status \in {"NONE", "CLEAR"} : Return(status)

Next == Client \/ Purge \/ Loop \/ \E e \in Idx : RaiseISR(e)

Spec == Init /\ [][Next]_vars

\* The main thread is never blocked, and a processing function makes finitely
\* many calls before it returns: the loop takes its next step, whatever the
\* interrupts do.
FairSpec == Spec /\ SF_vars(Loop) /\ WF_vars(Purge)
--------------------------------------------------------------------------------
(* Properties *)

\* event.c:52-57: the table is a permutation of all events, split in runnable,
\* blocked and free ones, and the events that create handed out are exactly
\* the runnable and the blocked ones, whatever the interleaving of raises,
\* clears and rotations.
Partition ==
    /\ pending_cnt <= created_cnt
    /\ \A i, j \in Idx : subs_events[i] = subs_events[j] => i = j
    /\ \A i \in 0 .. created_cnt - 1 : subs_events[i] \in handles
    /\ \A e \in handles : \E i \in 0 .. created_cnt - 1 : subs_events[i] = e

\* event.c:53: runnable events are sorted by priority.
Sorted ==
    \A i, j \in 0 .. pending_cnt - 1 :
        i < j => prio[subs_events[i]] <= prio[subs_events[j]]

\* event.c:53: while a processing function is on the stack its event is the
\* head, so that its status (subs_proc_rtn) and the refusal to clear it apply
\* to the event that ran.
HeadIsRunning ==
    running # NoEvent =>
        executing /\ pending_cnt > 0 /\ subs_events[0] = running

\* The loop never calls a processing function that was not registered, and no
\* call runs off the table.
NeverCrashed == pc # "crashed"

\* event.h:51-54: an event an interrupt raised reaches the runnable ones.  No
\* step loses it on the way, but the removal of that very event.
PostedKept ==
    [][\A e \in InISR \ {purge.evt} : e \in InISR' \cup Runnable']_vars

\* evt_datapath.c:571-579 clears the datapath events so that nothing of the old
\* stream reaches a callback: once clear_ISR_pendingevent has returned, its
\* event is not among the posted ones, if its source fires once.
PurgeRemoves ==
    [][purge.at # "none" /\ purge'.at = "none" => purge.evt \notin InISR']_vars

\* event.h:81-83: CLEAR makes the event whose function ran not runnable.
ClearAfterExecution ==
    [][Return("CLEAR") => running \notin Runnable']_vars

\* event.h as a whole: the table, the buffer of the interrupts and the flags
\* of event.c implement the sets of EventSpec.
Promise == INSTANCE EventSpec WITH
    Event     <- Idx,
    allocated <- Created,
    urgency   <- prio,
    posted    <- InISR,
    runnable  <- Runnable,
    purging   <- purge.evt

ImplementsEventSpec == Promise!SSpec
================================================================================

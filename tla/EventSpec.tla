------------------------------- MODULE EventSpec -------------------------------
(****************************************************************************)
(* What library/event/event.h promises a client, without the arrays that    *)
(* event.c keeps.  An event that an interrupt raises is posted; the loop    *)
(* delivers it, and it is runnable until its processing function has        *)
(* returned CLEAR or a client clears it.  One processing function runs at a *)
(* time, to completion, and it is one of the most urgent runnable events.   *)
(****************************************************************************)
EXTENDS Naturals

CONSTANTS
    Event,    \* every event the mechanism can allocate
    NoEvent,  \* "no processing function is executing", not an event
    Prios,    \* priority numbers, the lower the more urgent
    DefaultPrio

VARIABLES
    allocated,  \* events handed out by create
    urgency,    \* priority number of every event
    posted,     \* raised from an interrupt, not yet seen by the loop
    runnable,   \* raised, processing function due
    running,    \* event whose processing function is executing
    purging     \* event a client is removing from the posted ones

svars == <<allocated, urgency, posted, runnable, running, purging>>

SInit ==
    /\ allocated = {}
    /\ urgency \in [Event -> Prios]
    /\ posted = {}
    /\ runnable = {}
    /\ running = NoEvent
    /\ purging = NoEvent

SCreate(e) ==
    /\ e \notin allocated
    /\ allocated' = allocated \cup {e}
    /\ urgency' = [urgency EXCEPT ![e] = DefaultPrio]
    /\ UNCHANGED <<posted, runnable, running, purging>>

SSetPriority(e, p) ==
    /\ urgency' = [urgency EXCEPT ![e] = p]
    /\ UNCHANGED <<allocated, posted, runnable, running, purging>>

\* event.h:51-57: a raise has an effect on an allocated event only.
SRaise(e) ==
    /\ e \in allocated
    /\ runnable' = runnable \cup {e}
    /\ UNCHANGED <<allocated, urgency, posted, running, purging>>

SPost(e) ==
    /\ posted' = posted \cup {e}
    /\ UNCHANGED <<allocated, urgency, runnable, running, purging>>

\* An event posted twice may be delivered twice.
SDeliver(e) ==
    /\ e \in posted \cap allocated
    /\ posted' \in {posted, posted \ {e}}
    /\ runnable' = runnable \cup {e}
    /\ UNCHANGED <<allocated, urgency, running, purging>>

\* event.h:68-73, 93-96: the lower priority number is executed first.
SStart(e) ==
    /\ running = NoEvent
    /\ e \in runnable
    /\ \A f \in runnable : urgency[e] <= urgency[f]
    /\ running' = e
    /\ UNCHANGED <<allocated, urgency, posted, runnable, purging>>

\* event.h:79-84: CLEAR makes exactly the executed event not runnable, NONE
\* keeps it runnable.  An interrupt that posted it meanwhile is not undone.
SFinish(status) ==
    /\ running # NoEvent
    /\ runnable' = IF status = "CLEAR" THEN runnable \ {running} ELSE runnable
    /\ running' = NoEvent
    /\ UNCHANGED <<allocated, urgency, posted, purging>>

\* event.h:61-66: the executing event cannot be cleared.
SClear(e) ==
    /\ e # running
    /\ runnable' = runnable \ {e}
    /\ UNCHANGED <<allocated, urgency, posted, running, purging>>

\* Removing an event from the posted ones takes several steps, none of which
\* may touch another event.
SPurge ==
    /\ purging' \in Event \cup {NoEvent}
    /\ posted' \in {posted, posted \ {purging}}
    /\ UNCHANGED <<allocated, urgency, runnable, running>>

SNext ==
    \/ \E e \in Event :
        \/ SCreate(e) \/ SRaise(e) \/ SPost(e) \/ SDeliver(e)
        \/ SStart(e) \/ SClear(e)
        \/ \E p \in Prios : SSetPriority(e, p)
    \/ \E status \in {"NONE", "CLEAR"} : SFinish(status)
    \/ SPurge

SSpec == SInit /\ [][SNext]_svars
================================================================================

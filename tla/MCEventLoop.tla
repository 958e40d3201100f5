----------------------------- MODULE MCEventLoop -----------------------------
(****************************************************************************)
(* EventLoop with the history that the fairness bound speaks about; what    *)
(* the runs check.                                                          *)
(****************************************************************************)
EXTENDS EventLoop

\* overtaken[e]: events the loop started since e became runnable or was itself
\* started last
VARIABLE overtaken

mcvars == <<vars, overtaken>>

MCInit == Init /\ overtaken = [e \in Idx |-> {}]

Started == IF running = NoEvent /\ running' # NoEvent THEN {running'} ELSE {}

Observe ==
    overtaken' = [e \in Idx |->
        IF e \in Runnable /\ e \in Runnable' /\ e \notin Started
        THEN overtaken[e] \cup Started ELSE {}]

MCNext == Next /\ Observe

MCSpec == MCInit /\ [][MCNext]_mcvars

MCFairSpec == MCSpec /\ SF_mcvars(Loop /\ Observe) /\ WF_mcvars(Purge /\ Observe)

\* event.h:71-72, "the event scheduler guarantees fairness": while an event
\* waits, no other event of its priority is executed twice, and none that is
\* less urgent is executed at all.
BoundedOvertaking ==
    [][\A f \in Started, e \in Runnable :
          f # e => /\ prio[f] <= prio[e]
                   /\ prio[f] = prio[e] => f \notin overtaken[e]]_mcvars

\* Every event of the most urgent priority that an interrupt or a client has
\* raised is executed, or cleared by a client, if the sources wait for their
\* event to be handled; less urgent events have no such promise.
\* event_handler_init gives all events one priority, so for them it holds.
MostUrgent(e) == \A p \in Prios : prio[e] <= p

UrgentEventHandled ==
    \A e \in Idx : (e \in Waiting /\ MostUrgent(e))
                    ~> (running = e \/ e \notin Waiting \/ ~MostUrgent(e))
=============================================================================

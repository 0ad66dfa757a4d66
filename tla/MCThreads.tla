------------------------------ MODULE MCThreads ------------------------------
(***************************************************************************)
(* Workers and their pipes, Atomics.wait and notify, and the poll loop,    *)
(* checked one beside the other: area says which one a behaviour is about, *)
(* the others stand still.  The loop has two timers, a descriptor and a    *)
(* signal, or one timer and two signals.                                   *)
(***************************************************************************)
EXTENDS Workers, OsLoop

CONSTANTS i2, g2        \* the second timer and the second signal

VARIABLE area
threadsVars == <<area, workerVars, waitVars, osVars>>

MCInit == /\ WorkersInit /\ WaitInit /\ OsInit
          /\ area \in {"workers", "atomics", "timers", "signals"}

InWorkers(A) == area = "workers" /\ A /\ UNCHANGED <<area, waitVars, osVars>>
InAtomics(A) == area = "atomics" /\ A /\ UNCHANGED <<area, workerVars, osVars>>
TimersArea == area = "timers" /\ ~In(g2, sigs')
SignalsArea == area = "signals" /\ ~timer'[i2].used /\ rw' = <<>> /\ ready' = {}
InLoop(A) == A /\ (TimersArea \/ SignalsArea) /\ UNCHANGED <<area, workerVars, waitVars>>

MCNext == InWorkers(WorkersNext) \/ InAtomics(WaitNext) \/ InLoop(OsNext)

(* The fairness of WorkersSpec and OsSpec.                                 *)
MCSpec ==
    /\ MCInit /\ [][MCNext]_threadsVars
    /\ \A t \in Threads : WF_threadsVars(InWorkers(Engine(t)))
    /\ WF_threadsVars(InLoop(EndCallback))
    /\ WF_threadsVars(InLoop(Poll))
    /\ WF_threadsVars(InLoop(Tick))

(* Messages, the wake byte of a pipe, counts and handlers are exact.       *)
DeliveriesExact ==
    WakeByteExact /\ DeliveredInOrder /\ PipeCountsExact /\ SabCountsExact /\ HandlersExact

(* The list of waiters is exact, and nobody sleeps on a value that was     *)
(* replaced and notified.                                                  *)
WaitsExact == WaitersExact /\ NobodySleepsOnOldValue

(* Messages, timers and signals reach their handlers in the end.           *)
EventsHandled == MessagesHandled /\ TimersFire /\ SignalsHandled
====

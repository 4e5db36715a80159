-------------------------------- MODULE MCNode --------------------------------
(***************************************************************************)
(* A node at run time: the ABCI state machine with an application that     *)
(* does not fail, on a store from before; the threads and how they stop;   *)
(* and state sync.  A behaviour is one of the component that which names,  *)
(* and the others stay as they were.                                       *)
(***************************************************************************)
EXTENDS MCAbci, Shutdown, StateSync

VARIABLE which

ASSUME ShutdownAssumption /\ StateSyncAssumption

\* A component that is not chosen starts in one of its initial states.
MCInit ==
    /\ which \in {"machine", "threads", "sync"}
    /\ Init /\ ThreadsInit
    /\ SyncInit /\ (which # "sync" => phase = "sync")

MCNext ==
    \/ which = "machine" /\ Next /\ UNCHANGED <<which, thread_vars, sync_vars>>
    \/ which = "threads" /\ ThreadsNext /\ UNCHANGED <<which, vars, sync_vars>>
    \/ which = "sync" /\ SyncNext /\ UNCHANGED <<which, vars, thread_vars>>

\* The Fairness of each component, while it is the one that takes steps.
MCFairness ==
    /\ WF_vars(which = "machine" /\ DecideBlock) /\ WF_vars(which = "machine" /\ Info)
    /\ WF_vars(which = "machine" /\ Consensus) /\ WF_vars(which = "machine" /\ Restart)
    /\ WF_thread_vars(which = "threads" /\ Server)
    /\ \A w \in Worker : WF_thread_vars(which = "threads" /\ WorkerStep(w))
    /\ WF_thread_vars(which = "threads" /\ (KillTendermint \/ KillFails))
    /\ WF_thread_vars(which = "threads" /\ KillReturn)
    /\ WF_thread_vars(which = "threads" /\ wait)
    /\ WF_sync_vars(which = "sync" /\ Handler) /\ WF_sync_vars(which = "sync" /\ SyncRestart)
    /\ WF_sync_vars(which = "sync" /\ Offer) /\ SF_sync_vars(which = "sync" /\ Fetch)

MCSpec == MCInit /\ [][MCNext]_<<which, vars, thread_vars, sync_vars>> /\ MCFairness
===============================================================================

------------------------------- MODULE Shutdown -------------------------------
(***************************************************************************)
(* The threads of a node and how they stop: the ABCI server's thread       *)
(* (ABCIStateMachine::listen in the thread Node::run spawns), a worker per *)
(* connection, Child::kill and Child::wait in the caller, and Tendermint   *)
(* on the other side of the connections.  Requests and responses are       *)
(* handed over on channels without a buffer.                               *)
(***************************************************************************)
EXTENDS Naturals, FiniteSets

CONSTANTS Worker,    \* one for each connection of Tendermint (4 in the code)
          Outcomes,  \* how a request may end: see RunRequest
          None       \* no request is being served

ShutdownAssumption ==
    /\ IsFiniteSet(Worker) /\ Worker # {}
    /\ Outcomes \subseteq {"ok", "stop", "err", "panic"}
    /\ None \notin Worker

VARIABLES server,     \* where the server's thread is
          serving,    \* the worker whose request it runs
          worker,     \* where each worker is
          shutdown,   \* the shutdown handle holds an error
          notified,   \* the shutdown notifier
          killer,     \* where Child::kill is
          waiter,     \* where Child::wait is
          tendermint  \* the Tendermint process is running

thread_vars == <<server, serving, worker, shutdown, notified, killer, waiter, tendermint>>
others == <<killer, waiter, tendermint>>

\* The server has dropped the store and its end of the request channel.
Ended == {"returned", "exited", "panicked"}

\* The server takes no more requests.
Stopped == Ended \cup {"leaving", "stopping"}

At(w, from, to) == worker[w] = from /\ worker' = [worker EXCEPT ![w] = to]

\* The process as a whole ends with the server's exit.
Alive == server # "exited"

-----------------------------------------------------------------------------
(* The server's thread. *)

Accept(w) ==
    /\ server = "accept" /\ tendermint
    /\ At(w, "none", "check")
    /\ server' = IF \A v \in Worker \ {w} : worker[v] # "none" THEN "check" ELSE "accept"
    /\ UNCHANGED <<serving, shutdown, notified, others>>

\* listen sets the notifier on its way out.
StopServer(to) == server' = to /\ notified' = TRUE

\* The loop of listen looks for a shutdown, then waits a second for a request.
Check ==
    /\ server = "check"
    /\ IF shutdown THEN StopServer("leaving")
                   ELSE server' = "receive" /\ UNCHANGED notified
    /\ UNCHANGED <<serving, worker, shutdown, others>>

Receive(w) ==
    /\ server = "receive"
    /\ At(w, "send", "recv")
    /\ server' = "run" /\ serving' = w
    /\ UNCHANGED <<shutdown, notified, others>>

Timeout ==
    /\ server = "receive"
    /\ server' = "check"
    /\ UNCHANGED <<serving, worker, shutdown, notified, others>>

\* "err" is any other Err than the two that also end the process, a new
\* version and the stop height; a panic unwinds past handle and notifier.
RunRequest(outcome) ==
    /\ server = "run"
    /\ \/ outcome = "ok" /\ server' = "reply" /\ UNCHANGED <<serving, shutdown, notified>>
       \/ outcome = "err" /\ StopServer("leaving") /\ shutdown' = TRUE /\ serving' = None
       \/ outcome = "stop" /\ StopServer("stopping") /\ shutdown' = TRUE /\ serving' = None
       \/ outcome = "panic" /\ server' = "panicked" /\ serving' = None
                            /\ UNCHANGED <<shutdown, notified>>
    /\ UNCHANGED <<worker, others>>

\* After the Commit of the stop height the server stops, having answered.
Reply ==
    /\ server = "reply"
    /\ At(serving, "recv", "write")
    /\ \/ server' = "check" /\ UNCHANGED notified
       \/ "stop" \in Outcomes /\ StopServer("stopping")
    /\ serving' = None
    /\ UNCHANGED <<shutdown, others>>

\* listen drops the state machine, and the thread records its result.
Leave ==
    /\ \/ server = "leaving" /\ server' = "returned"
       \/ server = "stopping" /\ server' = "exited"
    /\ shutdown' = TRUE
    /\ UNCHANGED <<serving, worker, notified, others>>

-----------------------------------------------------------------------------
(* A worker. *)

WorkerCheck(w) ==
    /\ Alive
    /\ At(w, "check", IF shutdown THEN "ended" ELSE "read")
    /\ UNCHANGED <<server, serving, shutdown, notified, others>>

\* A request arrives, or the connection is closed.
WorkerRead(w) ==
    /\ Alive
    /\ \/ tendermint /\ At(w, "read", "send") /\ UNCHANGED shutdown
       \/ ~tendermint /\ At(w, "read", "ended") /\ shutdown' = TRUE
    /\ UNCHANGED <<server, serving, notified, others>>

\* The channel is closed.
WorkerSendFails_Waits(w) == FALSE /\ At(w, "send", "ended") /\ UNCHANGED thread_vars
WorkerSendFails(w) ==
    /\ Alive
    /\ server \in Ended
    /\ At(w, "send", "ended")
    /\ UNCHANGED <<server, serving, shutdown, notified, others>>

\* Writing to a connection that Tendermint closed may panic.
WorkerWrite(w) ==
    /\ Alive
    /\ \/ At(w, "write", "check")
       \/ ~tendermint /\ At(w, "write", "ended")
    /\ UNCHANGED <<server, serving, shutdown, notified, others>>

-----------------------------------------------------------------------------
(* The caller, and Tendermint. *)

kill ==
    /\ killer = "idle" /\ Alive
    /\ killer' = "signalled"
    /\ shutdown' = TRUE
    /\ UNCHANGED <<server, serving, worker, notified, waiter, tendermint>>

KillTendermint ==
    /\ killer = "signalled" /\ Alive
    /\ killer' = "waiting"
    /\ tendermint' = FALSE
    /\ UNCHANGED <<server, serving, worker, shutdown, notified, waiter>>

\* The operating system refuses: kill returns its error.
KillFails ==
    /\ killer = "signalled" /\ Alive
    /\ killer' = "failed"
    /\ UNCHANGED <<server, serving, worker, shutdown, notified, waiter, tendermint>>

KillReturn_Signalled ==
    /\ killer = "waiting" /\ Alive
    /\ shutdown
    /\ killer' = "done"
    /\ UNCHANGED <<server, serving, worker, shutdown, notified, waiter, tendermint>>
KillReturn ==
    /\ killer = "waiting" /\ Alive
    /\ notified
    /\ killer' = "done"
    /\ UNCHANGED <<server, serving, worker, shutdown, notified, waiter, tendermint>>

wait ==
    /\ waiter = "waiting" /\ Alive
    /\ shutdown
    /\ waiter' = "done"
    /\ UNCHANGED <<server, serving, worker, shutdown, notified, killer, tendermint>>

\* Tendermint ends by itself (external).
TendermintExit ==
    /\ tendermint /\ Alive
    /\ tendermint' = FALSE
    /\ UNCHANGED <<server, serving, worker, shutdown, notified, killer, waiter>>

ThreadsInit ==
    /\ server = "accept" /\ serving = None
    /\ worker = [w \in Worker |-> "none"]
    /\ shutdown = FALSE /\ notified = FALSE
    /\ killer = "idle" /\ waiter = "waiting"
    /\ tendermint = TRUE

Server == Check \/ Timeout \/ Reply \/ Leave \/ (\E w \in Worker : Receive(w))
                \/ \E outcome \in Outcomes : RunRequest(outcome)

WorkerStep(w) == WorkerCheck(w) \/ WorkerRead(w) \/ WorkerSendFails(w) \/ WorkerWrite(w)

ThreadsNext ==
    \/ Server
    \/ \E w \in Worker : Accept(w) \/ WorkerStep(w)
    \/ kill \/ KillTendermint \/ KillFails \/ KillReturn \/ wait
    \/ TendermintExit

(***************************************************************************)
(* Threads that can take a step do.  Neither a call of kill, nor an exit   *)
(* of Tendermint, nor that it connects is assumed to happen.               *)
(***************************************************************************)
ThreadsFairness ==
    /\ WF_thread_vars(Server)
    /\ \A w \in Worker : WF_thread_vars(WorkerStep(w))
    /\ WF_thread_vars(KillTendermint \/ KillFails) /\ WF_thread_vars(KillReturn) /\ WF_thread_vars(wait)

ThreadsSpec == ThreadsInit /\ [][ThreadsNext]_thread_vars /\ ThreadsFairness

-----------------------------------------------------------------------------
(***************************************************************************)
(* Once Child::kill has returned without an error no request runs, and     *)
(* none will.  (The store may still be open for a moment: the notifier is  *)
(* set before listen drops it.)                                            *)
(***************************************************************************)
NothingRunsAfterKill == killer = "done" => server \in Stopped

(***************************************************************************)
(* Child::kill "Shut down the ABCI server and Tendermint process": its     *)
(* loop over the notifier ends, unless the process does or a request       *)
(* panics, once Tendermint has made all its connections: the server does   *)
(* not look for a shutdown before.                                         *)
(***************************************************************************)
KillReturns ==
    (killer # "idle" /\ server # "accept")
        ~> (killer \in {"done", "failed"} \/ ~Alive \/ server = "panicked")

(***************************************************************************)
(* Child::wait learns that the node no longer runs: that the server ended, *)
(* by kill or by a failed request, and that Tendermint did while a worker  *)
(* was reading from it.                                                    *)
(***************************************************************************)
WaitReturns ==
    (server \in Stopped \ {"panicked"} \/ (~tendermint /\ \E w \in Worker : worker[w] = "read"))
        ~> (waiter = "done" \/ ~Alive)

(***************************************************************************)
(* After a kill no worker is left behind holding its connection, not on a  *)
(* request that nobody takes either: all but the one whose request ended   *)
(* the server, which waits for its response for good.                      *)
(***************************************************************************)
WorkersEnd ==
    LET left == {w \in Worker : worker[w] # "ended"} IN
    (killer # "idle" /\ ~tendermint /\ server # "accept")
        ~> (~Alive \/ /\ server \in Ended /\ Cardinality(left) <= 1
                      /\ \A w \in left : worker[w] = "recv")

(***************************************************************************)
(* A node that is to stop does: Child::kill returns, Child::wait learns of *)
(* the end and no worker stays behind, whatever requests were under way.   *)
(***************************************************************************)
ShutdownCompletes == KillReturns /\ WaitReturns /\ WorkersEnd
=============================================================================

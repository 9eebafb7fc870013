------------------------------ MODULE WorkerPool ------------------------------
(****************************************************************************)
(* The queue manager's loop and the worker constraints of                   *)
(* queue_manager_args_t.  Around each dispatch it checks a worker in and    *)
(* out again, itself; the thread it starts is detached and touches neither  *)
(* active_worker nor cond_worker.                                           *)
(****************************************************************************)
EXTENDS Integers

CONSTANTS MAX_THREADS,  \* 128 in the code
          MaxRunning    \* bound: workers that run at a time

ASSUME PoolAssumption == /\ MAX_THREADS \in Nat \ {0}
                         /\ MaxRunning \in Nat

VARIABLES manager,        \* where the queue manager is in its loop
          active_worker,
          running         \* how many workers run

poolVars == <<manager, active_worker, running>>

ManagerPc == {"pop", "checkin", "asleep", "spawn", "checkout"}

PoolTypeOK == /\ manager \in ManagerPc
              /\ active_worker \in Nat
              /\ running \in 0 .. MaxRunning

PoolInit == manager = "pop" /\ active_worker = 0 /\ running = 0

-----------------------------------------------------------------------------
\* q_pop has returned and command_handler has parsed: TaskQueue has the details.
PopCommand ==
  /\ manager = "pop"
  /\ manager' = "checkin"
  /\ UNCHANGED <<active_worker, running>>

WorkerThreadCheckin ==
  /\ manager = "checkin"
  /\ \/ /\ active_worker >= MAX_THREADS
        /\ manager' = "asleep"
        /\ UNCHANGED active_worker
     \/ /\ active_worker < MAX_THREADS
        /\ active_worker' = active_worker + 1
        /\ manager' = "spawn"
  /\ UNCHANGED running

\* spawn_execute_command_threads: a thread for the command, none for retping$.
Spawn ==
  /\ manager = "spawn"
  /\ running' \in {running, running + 1} \cap 0 .. MaxRunning
  /\ manager' = "checkout"
  /\ UNCHANGED active_worker

\* Its signal finds nobody: the manager is the only one to wait on cond_worker.
WorkerThreadCheckout_KeepsCount ==
  /\ manager = "checkout"
  /\ manager' = "pop"
  /\ UNCHANGED <<active_worker, running>>
WorkerThreadCheckout ==
  /\ manager = "checkout"
  /\ active_worker' = active_worker - 1
  /\ manager' = "pop"
  /\ UNCHANGED running

\* A worker's handler returns.
Finish ==
  /\ running > 0
  /\ running' = running - 1
  /\ UNCHANGED <<manager, active_worker>>

PoolNext == PopCommand \/ WorkerThreadCheckin \/ Spawn \/ WorkerThreadCheckout \/ Finish

PoolSpec == PoolInit /\ [][PoolNext]_poolVars

=============================================================================

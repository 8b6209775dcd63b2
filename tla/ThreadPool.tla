----------------------------- MODULE ThreadPool -----------------------------
(***************************************************************************)
(* NrThreadPool of runtime/nathra_rt.h: NumWorkers threads that receive     *)
(* tasks from one channel and run them, nr_pool_submit, which mallocs a     *)
(* task and sends it, and nr_pool_shutdown, which closes the channel, joins *)
(* every worker and frees everything.                                       *)
(*                                                                          *)
(* The channel is the one of Channel, step by step.  A task is the message  *)
(* that stands for its malloc'ed _MpTask.  A task may submit tasks of its   *)
(* own while it runs (Children).  The threads that submit from outside are  *)
(* done submitting when the owner calls nr_pool_shutdown, as the function   *)
(* frees the pool: that is the caller's side of the contract.               *)
(***************************************************************************)
EXTENDS Channel

CONSTANTS
  NumWorkers,  \* num_threads of nr_pool_new
  Owner,       \* the thread that calls nr_pool_shutdown, and submits
  Submitters,  \* the other threads that submit from outside
  Children     \* the tasks each task submits when it runs

Workers == 1..NumWorkers
Roots   == Messages \ UNION {Children[m] : m \in Messages}

ASSUME WorkersAssumption == NumWorkers \in Nat \ {0}
ASSUME ChildrenAssumption == Children \in [Messages -> SUBSET Messages]
ASSUME RolesAssumption ==
  /\ Consumers = Workers /\ Closers = {Owner}
  /\ Producers = Workers \cup Submitters \cup {Owner}
  /\ Workers \cap (Submitters \cup {Owner}) = {}  \* a worker cannot join itself
  /\ Owner \notin Submitters
  /\ ConsumerCalls = {"recv"}

VARIABLES
  worker,  \* where each worker is in _nr_pool_worker: "loop", "recv", "run", "exit"
  task,    \* the task it received
  heap,    \* the tasks malloc'ed and not freed
  runs,    \* history: how many times each task was run
  stage,   \* nr_pool_shutdown: "open", "close", "join", "freed"
  joined   \* how many workers it has joined

poolvars == <<worker, task, heap, runs, stage, joined>>
vars     == <<chvars, poolvars>>

PoolInit ==
  /\ Init
  /\ worker = [w \in Workers |-> "loop"]
  /\ task   = [w \in Workers |-> NoMessage]
  /\ heap   = {}
  /\ runs   = [m \in Messages |-> 0]
  /\ stage  = "open"
  /\ joined = 0

-----------------------------------------------------------------------------
(* nr_pool_submit: malloc a task and send it.  The answer of send is not     *)
(* looked at.                                                               *)

PoolSubmit(t, m) ==
  /\ StartSend(t, m)
  /\ heap' = heap \cup {m}
  /\ UNCHANGED <<worker, task, runs, stage, joined>>

OutsideSubmit(t, m) ==
  /\ stage = "open"
  /\ m \in Roots
  /\ PoolSubmit(t, m)

TaskSubmit(w, m) ==
  /\ worker[w] = "run"
  /\ m \in Children[task[w]]
  /\ PoolSubmit(w, m)

-----------------------------------------------------------------------------
(* _nr_pool_worker.                                                         *)

WorkerRecv(w) ==
  /\ worker[w] = "loop"
  /\ StartRecv(w, "recv")
  /\ worker' = [worker EXCEPT ![w] = "recv"]
  /\ UNCHANGED <<task, heap, runs, stage, joined>>

\* Seeded bug: the task is freed before it is run.
WorkerGotTaskFreed(w) ==
  /\ worker[w] = "recv" /\ pc[w] = "idle" /\ ok[w]
  /\ worker' = [worker EXCEPT ![w] = "run"]
  /\ task'   = [task EXCEPT ![w] = out[w]]
  /\ heap'   = heap \ {out[w]}
  /\ UNCHANGED <<chvars, runs, stage, joined>>

WorkerGotTask(w) ==
  /\ worker[w] = "recv" /\ pc[w] = "idle" /\ ok[w]
  /\ worker' = [worker EXCEPT ![w] = "run"]
  /\ task'   = [task EXCEPT ![w] = out[w]]
  /\ UNCHANGED <<chvars, heap, runs, stage, joined>>

WorkerExit(w) ==
  /\ worker[w] = "recv" /\ pc[w] = "idle" /\ ~ok[w]
  /\ worker' = [worker EXCEPT ![w] = "exit"]
  /\ UNCHANGED <<chvars, task, heap, runs, stage, joined>>

\* func(arg) returns once it has submitted all its tasks; then free(task).
WorkerDone(w) ==
  /\ worker[w] = "run" /\ pc[w] = "idle"
  /\ Children[task[w]] \subseteq offered
  /\ runs'   = [runs EXCEPT ![task[w]] = @ + 1]
  /\ heap'   = heap \ {task[w]}
  /\ worker' = [worker EXCEPT ![w] = "loop"]
  /\ UNCHANGED <<chvars, task, stage, joined>>

-----------------------------------------------------------------------------
(* nr_pool_shutdown.                                                        *)

ShutdownClose ==
  /\ stage = "open"
  /\ \A t \in Submitters : pc[t] = "idle"
  /\ StartClose(Owner)
  /\ stage' = "close"
  /\ UNCHANGED <<worker, task, heap, runs, joined>>

ShutdownClosed ==
  /\ stage = "close" /\ pc[Owner] = "idle"
  /\ stage' = "join"
  /\ UNCHANGED <<chvars, worker, task, heap, runs, joined>>

\* Seeded bug: the loop waits for the first worker only to have left recv.
JoinNextEarly ==
  /\ stage = "join" /\ joined < NumWorkers
  /\ worker[joined + 1] \in {"recv", "exit"}
  /\ joined' = joined + 1
  /\ UNCHANGED <<chvars, worker, task, heap, runs, stage>>

\* nr_thread_join(pool->threads[joined]) returns once that worker has returned.
JoinNext ==
  /\ stage = "join" /\ joined < NumWorkers
  /\ worker[joined + 1] = "exit"
  /\ joined' = joined + 1
  /\ UNCHANGED <<chvars, worker, task, heap, runs, stage>>

FreePool ==
  /\ stage = "join" /\ joined = NumWorkers
  /\ stage' = "freed"
  /\ UNCHANGED <<chvars, worker, task, heap, runs, joined>>

\* The program goes on without the pool: the only state where this model may stop.
PoolGone == stage = "freed" /\ UNCHANGED vars

-----------------------------------------------------------------------------
ChannelStep(t) == (Acquire(t) \/ Step(t) \/ SpuriousWakeup(t)) /\ UNCHANGED poolvars

WorkerStep(w) ==
  \/ WorkerRecv(w) \/ WorkerGotTask(w) \/ WorkerExit(w) \/ WorkerDone(w)
  \/ \E m \in Messages : TaskSubmit(w, m)

PoolNext ==
  \/ \E t \in Submitters \cup {Owner}, m \in Messages : OutsideSubmit(t, m)
  \/ \E w \in Workers : WorkerStep(w)
  \/ ShutdownClose \/ ShutdownClosed \/ JoinNext \/ FreePool
  \/ \E t \in Threads : ChannelStep(t)
  \/ PoolGone

PoolSpec == PoolInit /\ [][PoolNext]_vars

\* Threads that are scheduled run on, the mutex is not withheld from one thread
\* for ever, tasks return.  Nobody has to submit or to shut down; a shutdown
\* once begun goes on.
PoolFairness ==
  /\ \A t \in Threads :
       /\ WF_vars(Step(t) /\ UNCHANGED poolvars)
       /\ SF_vars(Acquire(t) /\ UNCHANGED poolvars)
  /\ \A w \in Workers : WF_vars(WorkerStep(w))
  /\ WF_vars(ShutdownClosed \/ JoinNext \/ FreePool)
FairPoolSpec == PoolSpec /\ PoolFairness

-----------------------------------------------------------------------------
(* Properties.                                                              *)

Accepted == {sent[i] : i \in 1..Len(sent)}

\* A worker runs a task that is still allocated, and no two workers run the
\* same one: free(task) is neither early nor repeated.
TaskOwnership ==
  \A w \in Workers : worker[w] = "run" =>
    /\ task[w] \in heap
    /\ runs[task[w]] = 0
    /\ \A v \in Workers \ {w} : worker[v] = "run" => task[v] # task[w]

\* When nr_pool_shutdown frees the channel nobody is inside one of its
\* functions, asleep or not, and no worker will come back to it.
QuiescentWhenFreed ==
  stage = "freed" =>
    /\ \A w \in Workers : worker[w] = "exit"
    /\ \A t \in Threads : pc[t] = "idle"
    /\ lock = NoThread /\ notEmpty = {} /\ notFull = {}

\* Every task that got into the channel, from outside or from another task, has
\* been run once and freed when the shutdown is over, however full the queue was.
AcceptedTasksRun ==
  stage = "freed" => \A m \in Accepted : runs[m] = 1 /\ m \notin heap

\* A shutdown that was begun comes to its end, even when workers are asleep in
\* nr_pool_submit on a full queue.
ShutdownCompletes == (stage = "close") ~> (stage = "freed")

\* Every worker waits in nr_pool_submit, called by the task it runs: a spurious
\* wakeup may let it look again at the full queue.
WorkersBlocked ==
  count = Cap /\ \A w \in Workers : op[w] = "send" /\ pc[w] \in {"lock", "test", "wait"}

\* A submitted task is run in the end, or the pool is shut down: the only other
\* thing that can stop it is that every worker waits in nr_pool_submit for room.
SubmittedTasksRun ==
  \A m \in Messages : (m \in offered) ~> (runs[m] = 1 \/ closed \/ WorkersBlocked)
=============================================================================

----------------------------- MODULE Scheduler ------------------------------
(***************************************************************************)
(* The background scheduler and the serial task runner on top of it        *)
(* (scheduler.cpp), with the validation callbacks as its tasks.  Service   *)
(* threads sleep on newTaskScheduled and take the first task of a queue    *)
(* ordered by time; ProcessQueue tasks run one callback each; a periodic   *)
(* task (scheduleEvery) shares the queue.  Clients insert callbacks.  Main *)
(* stops the scheduler, joins its threads, adds a last callback and runs   *)
(* what is left itself (Shutdown in init.cpp).                             *)
(*                                                                         *)
(* What happens under one lock is one step.  Condition variables are as in *)
(* CheckQueue; a thread that timed out may find another one ahead of it.   *)
(***************************************************************************)
EXTENDS Integers, Sequences, FiniteSets

CONSTANTS
  Servers,        \* threads in serviceQueue
  Clients,        \* threads that insert callbacks
  Main,           \* the thread that shuts the node down
  Period,         \* the delta of the periodic task
  MaxCallbacks,   \* bound: callbacks of the clients
  MaxTime         \* bound: the clock stops there

ASSUME SchedulerAssumption ==
  /\ IsFiniteSet(Servers)
  /\ Servers \cap Clients = {} /\ Main \notin Servers \cup Clients
  /\ Period \in Nat \ {0} /\ MaxCallbacks \in Nat /\ MaxTime \in Nat

Threads == Servers \cup Clients \cup {Main}

VARIABLES
  taskQueue,       \* sequence of [time, task], by time and then by age
  stopRequested,
  nThreads,        \* nThreadsServicingQueue
  clock,
  until,           \* until[s]: what s passed to wait_until
  pending,         \* m_callbacks_pending
  running,         \* m_are_callbacks_running
  callback,        \* callback[t]: the callback that t runs
  pc,
  inserted,        \* callbacks inserted so far
  returned         \* callbacks that have returned

queues == <<taskQueue, stopRequested, nThreads, clock, until>>
runner == <<pending, running, callback>>
history == <<inserted, returned>>
vars == <<queues, runner, pc, history>>

\* The new task comes after all that are not later (std::multimap::insert).
InsertByTime(q, time, task) ==
  LET before == SelectSeq(q, LAMBDA e : e.time <= time)
      after == SelectSeq(q, LAMBDA e : e.time > time)
  IN before \o <<[time |-> time, task |-> task]>> \o after

Init ==
  /\ taskQueue = <<[time |-> Period, task |-> "repeat"]>>
  /\ stopRequested = FALSE /\ nThreads = 0 /\ clock = 0
  /\ until = [s \in Servers |-> 0]
  /\ pending = <<>> /\ running = FALSE
  /\ callback = [t \in Threads |-> 0]
  /\ pc = [t \in Threads |-> IF t \in Servers THEN "start" ELSE IF t = Main THEN "up" ELSE "client"]
  /\ inserted = 0 /\ returned = 0

Tick ==
  /\ clock < MaxTime
  /\ clock' = clock + 1
  /\ UNCHANGED <<taskQueue, stopRequested, nThreads, until, runner, pc, history>>

-----------------------------------------------------------------------------
(* newTaskScheduled *)

Waiting == {s \in Servers : pc[s] \in {"wait", "until"}}

\* p is pc with the caller moved on.
NotifyOne(p) ==
  pc' \in IF Waiting = {} THEN {p} ELSE {[p EXCEPT ![s] = "loop"] : s \in Waiting}
NotifyAll(p) == pc' = [t \in Threads |-> IF t \in Waiting THEN "loop" ELSE p[t]]

SpuriousWakeup(s) ==
  /\ s \in Waiting
  /\ pc' = [pc EXCEPT ![s] = "loop"]
  /\ UNCHANGED <<queues, runner, history>>

Timeout(s) ==
  /\ pc[s] = "until" /\ clock >= until[s]
  /\ pc' = [pc EXCEPT ![s] = "timeout"]
  /\ UNCHANGED <<queues, runner, history>>

-----------------------------------------------------------------------------
(* serviceQueue *)

StartThread(s) ==
  /\ pc[s] = "start"
  /\ nThreads' = nThreads + 1
  /\ pc' = [pc EXCEPT ![s] = "loop"]
  /\ UNCHANGED <<taskQueue, stopRequested, clock, until, runner, history>>

\* From the top of the loop, or from a wait that ended without a timeout, to the next wait
\* or to the exit
Service(s) ==
  /\ \/ stopRequested
        /\ nThreads' = nThreads - 1
        /\ pc' = [pc EXCEPT ![s] = "exit"]
        /\ UNCHANGED until
     \/ ~stopRequested /\ taskQueue = <<>>
        /\ pc' = [pc EXCEPT ![s] = "wait"]
        /\ UNCHANGED <<nThreads, until>>
     \/ ~stopRequested /\ taskQueue # <<>>
        /\ until' = [until EXCEPT ![s] = Head(taskQueue).time]
        /\ pc' = [pc EXCEPT ![s] = "until"]
        /\ UNCHANGED nThreads
  /\ UNCHANGED <<taskQueue, stopRequested, clock, runner, history>>

Loop(s) == pc[s] = "loop" /\ Service(s)

\* The time of the first task is reached; meanwhile another thread may have taken it.
TakeTask(s) ==
  /\ pc[s] = "timeout"
  /\ IF stopRequested \/ taskQueue = <<>> THEN Service(s)
     ELSE /\ taskQueue' = Tail(taskQueue)
          /\ pc' = [pc EXCEPT ![s] = IF Head(taskQueue).task = "repeat" THEN "repeat" ELSE "process"]
          /\ UNCHANGED <<stopRequested, nThreads, clock, until, runner, history>>

ExitNotifies(s) ==
  /\ pc[s] = "exit"
  /\ NotifyOne([pc EXCEPT ![s] = "exited"])
  /\ UNCHANGED <<queues, runner, history>>

\* Repeat: the periodic function, then scheduleFromNow
Repeat(s) ==
  /\ pc[s] = "repeat"
  /\ taskQueue' = InsertByTime(taskQueue, clock + Period, "repeat")
  /\ pc' = [pc EXCEPT ![s] = "notify"]
  /\ UNCHANGED <<stopRequested, nThreads, clock, until, runner, history>>

-----------------------------------------------------------------------------
(* SerialTaskRunner, on any thread *)

\* Where the caller goes on
Caller(t) == IF t \in Servers THEN "loop" ELSE IF t = Main THEN "flush" ELSE "client"

\* Mutant: two callbacks may run at once.
BeginAnyway(t) == pending # <<>>

\* The early returns of ProcessQueue
MayBegin(t) == ~running /\ pending # <<>>

ProcessQueue(t) ==
  /\ pc[t] = "process"
  /\ IF MayBegin(t)
     THEN /\ running' = TRUE
          /\ callback' = [callback EXCEPT ![t] = Head(pending)]
          /\ pending' = Tail(pending)
          /\ pc' = [pc EXCEPT ![t] = "callback"]
     ELSE /\ pc' = [pc EXCEPT ![t] = Caller(t)]
          /\ UNCHANGED runner
  /\ UNCHANGED <<queues, history>>

\* Mutant: what was inserted meanwhile is left to the next insert.
ReturnsForGood(t) ==
  /\ pc[t] = "callback"
  /\ running' = FALSE
  /\ callback' = [callback EXCEPT ![t] = 0]
  /\ returned' = returned + 1
  /\ pc' = [pc EXCEPT ![t] = Caller(t)]
  /\ UNCHANGED <<queues, pending, inserted>>

\* The callback returns: RAIICallbacksRunning
CallbackReturns(t) ==
  /\ pc[t] = "callback"
  /\ running' = FALSE
  /\ callback' = [callback EXCEPT ![t] = 0]
  /\ returned' = returned + 1
  /\ pc' = [pc EXCEPT ![t] = "maybe"]
  /\ UNCHANGED <<queues, pending, inserted>>

MaybeScheduleProcessQueue(t) ==
  /\ pc[t] = "maybe"
  /\ pc' = [pc EXCEPT ![t] = IF running \/ pending = <<>> THEN Caller(t) ELSE "schedule"]
  /\ UNCHANGED <<queues, runner, history>>

Schedule(t) ==
  /\ pc[t] = "schedule"
  /\ taskQueue' = InsertByTime(taskQueue, clock, "process")
  /\ pc' = [pc EXCEPT ![t] = "notify"]
  /\ UNCHANGED <<stopRequested, nThreads, clock, until, runner, history>>

ScheduleNotifies(t) ==
  /\ pc[t] = "notify"
  /\ NotifyOne([pc EXCEPT ![t] = Caller(t)])
  /\ UNCHANGED <<queues, runner, history>>

\* insert, up to MaybeScheduleProcessQueue
Insert(t) ==
  /\ inserted' = inserted + 1
  /\ pending' = Append(pending, inserted')
  /\ pc' = [pc EXCEPT ![t] = "maybe"]
  /\ UNCHANGED <<queues, running, callback, returned>>

ClientInserts(c) == pc[c] = "client" /\ pc[Main] = "up" /\ inserted < MaxCallbacks /\ Insert(c)

-----------------------------------------------------------------------------
(* Shutdown *)

\* The network and the RPC server have been stopped.  stop(), the part under the lock
Stop ==
  /\ pc[Main] = "up" /\ \A c \in Clients : pc[c] = "client"
  /\ stopRequested' = TRUE
  /\ pc' = [pc EXCEPT ![Main] = "stopping"]
  /\ UNCHANGED <<taskQueue, nThreads, clock, until, runner, history>>

\* Mutant: the waiting threads are not told.
StopSilently ==
  /\ pc[Main] = "stopping"
  /\ pc' = [pc EXCEPT ![Main] = "join"]
  /\ UNCHANGED <<queues, runner, history>>

StopNotifies ==
  /\ pc[Main] = "stopping"
  /\ NotifyAll([pc EXCEPT ![Main] = "join"])
  /\ UNCHANGED <<queues, runner, history>>

\* Mutant: the service threads are not waited for.
NotJoined == pc[Main] = "join" /\ Insert(Main)

\* join, and ForceFlushStateToDisk, which inserts ChainStateFlushed
Joined ==
  /\ pc[Main] = "join" /\ \A s \in Servers : pc[s] = "exited"
  /\ Insert(Main)

\* The loop of flush.  Its first ProcessQueue is unconditional, but finds the callback that
\* Main has just inserted.
Flush ==
  /\ pc[Main] = "flush"
  /\ pc' = [pc EXCEPT ![Main] = IF pending # <<>> THEN "process" ELSE "down"]
  /\ UNCHANGED <<queues, runner, history>>

-----------------------------------------------------------------------------

RunnerStep(t) ==
  ProcessQueue(t) \/ CallbackReturns(t) \/ MaybeScheduleProcessQueue(t) \/ Schedule(t) \/ ScheduleNotifies(t)

ServerStep(s) ==
  StartThread(s) \/ Loop(s) \/ Timeout(s) \/ TakeTask(s) \/ ExitNotifies(s) \/ Repeat(s) \/ RunnerStep(s)

ShutdownStep == StopNotifies \/ Joined \/ Flush \/ RunnerStep(Main)

Next ==
  \/ Tick
  \/ \E s \in Servers : ServerStep(s) \/ SpuriousWakeup(s)
  \/ \E c \in Clients : ClientInserts(c) \/ RunnerStep(c)
  \/ Stop
  \/ ShutdownStep

Spec == Init /\ [][Next]_vars

\* Every thread that can go on does; nobody has to insert anything or to stop the node.
\* Spurious wakeups do not keep a thread from its timeout for ever.
FairSpec ==
  /\ Spec
  /\ \A s \in Servers : WF_vars(ServerStep(s)) /\ SF_vars(Timeout(s))
  /\ \A c \in Clients : WF_vars(RunnerStep(c))
  /\ WF_vars(ShutdownStep)

-----------------------------------------------------------------------------
(* Properties *)

Serial == INSTANCE SerialQueue WITH
  Callbacks <- 1 .. MaxCallbacks + 1,
  running <- {callback[t] : t \in Threads} \ {0}

\* "No two jobs will be executed at the same time", and they run in the order in which they
\* were inserted, although several service threads, stale ProcessQueue tasks and, at the end,
\* the flush of the shutdown thread run them.
ImplementsSerialQueue == Serial!Spec

\* Every inserted callback runs, also one inserted while another is about to return or while
\* the scheduler is being stopped.
EveryCallbackRuns ==
  \A n \in 1 .. MaxCallbacks + 1 : inserted >= n ~> returned >= n

\* The shutdown gets through: stop() reaches every service thread, and flush ends.
ShutdownCompletes == stopRequested ~> pc[Main] = "down"

\* flush's assertion: no service thread is left when the shutdown thread runs callbacks.
FlushAlone ==
  pc[Main] \in {"flush", "process", "callback", "down"} =>
    /\ nThreads = 0
    /\ \A s \in Servers : pc[s] = "exited"
=============================================================================

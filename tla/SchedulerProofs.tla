-------------------------- MODULE SchedulerProofs ---------------------------
(***************************************************************************)
(* For any finite number of service threads, any number of clients and     *)
(* callbacks: the serial task runner is a serial queue, and the shutdown   *)
(* thread is alone when it runs what is left.                              *)
(***************************************************************************)
EXTENDS Scheduler, FiniteSetTheorems, TLAPS

PCs == {"start", "loop", "wait", "until", "timeout", "exit", "exited", "repeat", "process",
        "callback", "maybe", "schedule", "notify", "client", "up", "stopping", "join", "flush", "down"}

TypeOK ==
  /\ pc \in [Threads -> PCs]
  /\ callback \in [Threads -> Nat]
  /\ pending \in Seq(Nat \ {0})
  /\ running \in BOOLEAN
  /\ inserted \in Nat

\* m_are_callbacks_running guards the one callback that runs.
RunningGuards ==
  /\ \A t \in Threads : pc[t] = "callback" <=> callback[t] # 0
  /\ \A t \in Threads : pc[t] = "callback" => running
  /\ \A t, u \in Threads : pc[t] = "callback" /\ pc[u] = "callback" => t = u

BeforeJoin == {"up", "stopping", "join"}

\* Only Main inserts after the join, and only once; then all service threads are gone.
JoinSplits ==
  /\ inserted <= MaxCallbacks + 1
  /\ pc[Main] \in BeforeJoin => inserted <= MaxCallbacks
  /\ pc[Main] \notin BeforeJoin => \A s \in Servers : pc[s] = "exited"

Active == {s \in Servers : pc[s] \notin {"start", "exit", "exited"}}

\* nThreadsServicingQueue counts the threads inside serviceQueue's loop.
CountExact == nThreads = Cardinality(Active)

IInv == TypeOK /\ RunningGuards /\ JoinSplits /\ CountExact

-----------------------------------------------------------------------------

LEMMA ThreadKinds ==
  /\ Servers \subseteq Threads /\ Clients \subseteq Threads /\ Main \in Threads
  /\ \A c \in Clients : c \notin Servers
  /\ Main \notin Servers /\ Main \notin Clients
BY SchedulerAssumption DEF Threads

LEMMA ActiveFinite == IsFiniteSet(Active) /\ Cardinality(Active) \in Nat
<1>1. Active \subseteq Servers
  BY DEF Active
<1> QED
  BY <1>1, SchedulerAssumption, FS_Subset, FS_CardinalityType

LEMMA InitOK == Init => IInv
<1> SUFFICES ASSUME Init PROVE IInv
  OBVIOUS
<1>1. TypeOK
  <2>1. pc \in [Threads -> PCs]
    BY DEF Init, PCs
  <2>2. callback \in [Threads -> Nat]
    BY DEF Init
  <2>3. pending \in Seq(Nat \ {0})
    BY DEF Init
  <2> QED
    BY <2>1, <2>2, <2>3, Zenon DEF Init, TypeOK
<1>2. RunningGuards /\ JoinSplits
  BY ThreadKinds, SchedulerAssumption DEF Init, RunningGuards, JoinSplits, BeforeJoin
<1>3. Active = {}
  BY ThreadKinds DEF Init, Active
<1>4. CountExact
  BY <1>3, FS_EmptySet DEF Init, CountExact
<1> QED
  BY <1>1, <1>2, <1>4 DEF IInv

\* A notification moves the caller on, and at most waiting service threads to the top of their loop.
LEMMA NotifyMoves ==
  ASSUME TypeOK, NEW t \in Threads, NEW next \in PCs,
         NotifyOne([pc EXCEPT ![t] = next]) \/ NotifyAll([pc EXCEPT ![t] = next]),
         t \notin Waiting
  PROVE  /\ pc' \in [Threads -> PCs]
         /\ pc'[t] = next
         /\ \A u \in Threads \ {t} : pc'[u] = pc[u] \/ (u \in Waiting /\ pc'[u] = "loop")
BY ThreadKinds DEF NotifyOne, NotifyAll, Waiting, TypeOK, PCs

\* A step that moves nobody in or out of the loop of serviceQueue keeps the count.
LEMMA CountKept ==
  ASSUME CountExact, UNCHANGED nThreads,
         \A s \in Servers : pc[s] \in {"start", "exit", "exited"} <=> pc'[s] \in {"start", "exit", "exited"}
  PROVE  CountExact'
<1>1. Active' = Active
  BY DEF Active
<1> QED
  BY <1>1 DEF CountExact

\* A step that leaves the serial task runner and the insertions alone, moves one thread
\* between places outside "callback", and wakes waiting threads
Moves(t) ==
  /\ UNCHANGED <<runner, inserted>>
  /\ pc' \in [Threads -> PCs]
  /\ pc[t] # "callback" /\ pc'[t] # "callback" /\ pc[t] # "exited"
  /\ t = Main => (pc[Main] \in BeforeJoin <=> pc'[Main] \in BeforeJoin)
  /\ \A u \in Threads \ {t} : pc'[u] = pc[u] \/ (u \in Waiting /\ pc'[u] = "loop")

LEMMA MovesKeep ==
  ASSUME IInv, NEW t \in Threads, Moves(t),
         t \in Servers => pc[Main] \in BeforeJoin
  PROVE  TypeOK' /\ RunningGuards' /\ JoinSplits'
<1> USE ThreadKinds
<1>1. TypeOK'
  BY DEF IInv, TypeOK, Moves, runner
<1>2. RunningGuards'
  BY Zenon DEF IInv, RunningGuards, TypeOK, Moves, runner, Waiting
<1>3. JoinSplits'
  <2>1. pc[Main] \in BeforeJoin <=> pc'[Main] \in BeforeJoin
    BY DEF Moves, Waiting
  <2>2. CASE pc[Main] \in BeforeJoin
    BY <2>1, <2>2 DEF IInv, JoinSplits, Moves, runner
  <2>3. CASE pc[Main] \notin BeforeJoin
    <3>1. \A s \in Servers : pc'[s] = "exited"
      BY <2>3 DEF IInv, JoinSplits, Moves, Waiting
    <3> QED
      BY <2>1, <2>3, <3>1 DEF IInv, JoinSplits, Moves, runner
  <2> QED
    BY <2>2, <2>3
<1> QED
  BY <1>1, <1>2, <1>3

\* A thread that is not gone can only be there before the join.
LEMMA LiveServer ==
  ASSUME IInv, NEW s \in Servers, pc[s] # "exited"
  PROVE  pc[Main] \in BeforeJoin
BY DEF IInv, JoinSplits

LEMMA ServeOK ==
  ASSUME IInv, NEW s \in Servers, pc[s] \in {"loop", "timeout"}, Service(s)
  PROVE  IInv'
<1> USE ThreadKinds
<1>1. pc' \in [Threads -> PCs] /\ pc'[s] \in {"exit", "wait", "until"}
      /\ \A u \in Threads \ {s} : pc'[u] = pc[u]
  BY Zenon DEF IInv, TypeOK, PCs, Service
<1>2. Moves(s)
  BY <1>1 DEF Moves, Service, runner, history
<1>3. TypeOK' /\ RunningGuards' /\ JoinSplits'
  BY <1>2, LiveServer, MovesKeep
<1>4. CountExact'
  <2>1. CASE stopRequested
    <3>1. s \in Active /\ Active' = Active \ {s} /\ nThreads' = nThreads - 1
      BY <1>1, <2>1 DEF Active, Service, IInv, TypeOK
    <3> QED
      BY <3>1, ActiveFinite, FS_RemoveElement, Zenon DEF IInv, CountExact
  <2>2. CASE ~stopRequested
    BY <1>1, <2>2, CountKept DEF Service, IInv
  <2> QED
    BY <2>1, <2>2
<1> QED
  BY <1>3, <1>4 DEF IInv

\* The steps of a service thread outside the task runner
LEMMA ServerOK ==
  ASSUME IInv, NEW s \in Servers,
         \/ StartThread(s) \/ Loop(s) \/ Timeout(s) \/ TakeTask(s) \/ ExitNotifies(s) \/ Repeat(s)
         \/ SpuriousWakeup(s)
  PROVE  IInv'
<1> USE ThreadKinds
<1>1. CASE StartThread(s)
  <2>1. Moves(s)
    BY <1>1 DEF StartThread, Moves, runner, history, IInv, TypeOK, PCs
  <2>2. TypeOK' /\ RunningGuards' /\ JoinSplits'
    BY <1>1, <2>1, LiveServer, MovesKeep DEF StartThread
  <2>3. s \notin Active /\ Active' = Active \cup {s} /\ nThreads' = nThreads + 1
    BY <1>1 DEF StartThread, Active, IInv, TypeOK
  <2> QED
    BY <2>2, <2>3, ActiveFinite, FS_AddElement, Zenon DEF IInv, CountExact
<1>2. CASE Loop(s)
  BY <1>2, ServeOK DEF Loop
<1>3. CASE Timeout(s) \/ Repeat(s) \/ SpuriousWakeup(s)
  <2>1. Moves(s)
    BY <1>3, Zenon DEF Timeout, Repeat, SpuriousWakeup, Waiting, Moves, runner, history, IInv, TypeOK, PCs
  <2>2. TypeOK' /\ RunningGuards' /\ JoinSplits'
    BY <1>3, <2>1, LiveServer, MovesKeep DEF Timeout, Repeat, SpuriousWakeup, Waiting
  <2>3. CountExact'
    BY <1>3, CountKept DEF Timeout, Repeat, SpuriousWakeup, Waiting, IInv, TypeOK, queues
  <2> QED
    BY <2>2, <2>3 DEF IInv
<1>4. CASE TakeTask(s)
  <2>1. CASE stopRequested \/ taskQueue = <<>>
    BY <1>4, <2>1, ServeOK DEF TakeTask
  <2>2. CASE ~(stopRequested \/ taskQueue = <<>>)
    <3>1. Moves(s)
      BY <1>4, <2>2, Zenon DEF TakeTask, Moves, runner, history, IInv, TypeOK, PCs
    <3>2. TypeOK' /\ RunningGuards' /\ JoinSplits'
      BY <1>4, <3>1, LiveServer, MovesKeep DEF TakeTask
    <3>3. CountExact'
      BY <1>4, <2>2, CountKept DEF TakeTask, IInv, TypeOK
    <3> QED
      BY <3>2, <3>3 DEF IInv
  <2> QED
    BY <2>1, <2>2
<1>5. CASE ExitNotifies(s)
  <2>1. /\ pc' \in [Threads -> PCs] /\ pc'[s] = "exited"
        /\ \A u \in Threads \ {s} : pc'[u] = pc[u] \/ (u \in Waiting /\ pc'[u] = "loop")
    BY <1>5, NotifyMoves, Zenon DEF ExitNotifies, Waiting, PCs, IInv
  <2>2. Moves(s)
    BY <1>5, <2>1 DEF ExitNotifies, Moves, runner, history
  <2>3. TypeOK' /\ RunningGuards' /\ JoinSplits'
    BY <1>5, <2>2, LiveServer, MovesKeep DEF ExitNotifies
  <2>4. CountExact'
    BY <1>5, <2>1, CountKept DEF ExitNotifies, Waiting, IInv, queues
  <2> QED
    BY <2>3, <2>4 DEF IInv
<1> QED
  BY <1>1, <1>2, <1>3, <1>4, <1>5

\* A thread in the task runner is past "start" and has not left; Main is there only after the join.
LEMMA RunnerKind ==
  ASSUME IInv, NEW t \in Threads, pc[t] \in {"process", "callback", "maybe", "schedule", "notify"}
  PROVE  /\ t \in Servers => pc[Main] \in BeforeJoin
         /\ Caller(t) \in {"loop", "flush", "client"}
         /\ t = Main => Caller(t) \notin BeforeJoin
BY ThreadKinds DEF IInv, JoinSplits, Caller, BeforeJoin

LEMMA RunnerOK ==
  ASSUME IInv, NEW t \in Threads, RunnerStep(t)
  PROVE  IInv'
<1> USE ThreadKinds
<1>1. CASE pc[t] # "callback" /\ pc'[t] # "callback"
  <2>1. /\ pc' \in [Threads -> PCs]
        /\ pc'[t] \notin {"start", "exit", "exited"}
        /\ t = Main => pc'[t] \notin BeforeJoin
        /\ \A u \in Threads \ {t} : pc'[u] = pc[u] \/ (u \in Waiting /\ pc'[u] = "loop")
    <3>1. CASE ScheduleNotifies(t)
      <4>1. Caller(t) \in PCs /\ t \notin Waiting /\ NotifyOne([pc EXCEPT ![t] = Caller(t)])
        BY <3>1, RunnerKind DEF ScheduleNotifies, Waiting, PCs
      <4> QED
        BY <3>1, <4>1, NotifyMoves, RunnerKind DEF ScheduleNotifies, IInv
    <3>2. CASE ProcessQueue(t) \/ MaybeScheduleProcessQueue(t) \/ Schedule(t)
      BY <1>1, <3>2, RunnerKind, SMTT(30)
        DEF ProcessQueue, MaybeScheduleProcessQueue, Schedule, IInv, TypeOK, PCs, BeforeJoin
    <3> QED
      BY <1>1, <3>1, <3>2 DEF RunnerStep, CallbackReturns
  <2>2. pc[t] \in {"process", "maybe", "schedule", "notify"} /\ UNCHANGED <<runner, inserted, nThreads>>
    <3>1. CASE ProcessQueue(t)
      BY <1>1, <3>1 DEF ProcessQueue, IInv, TypeOK, queues, history
    <3>2. CASE MaybeScheduleProcessQueue(t) \/ Schedule(t) \/ ScheduleNotifies(t)
      BY <3>2 DEF MaybeScheduleProcessQueue, Schedule, ScheduleNotifies, queues, history
    <3> QED
      BY <1>1, <3>1, <3>2 DEF RunnerStep, CallbackReturns
  <2>3. Moves(t)
    BY <1>1, <2>1, <2>2 DEF Moves, BeforeJoin
  <2>4. TypeOK' /\ RunningGuards' /\ JoinSplits'
    BY <2>2, <2>3, MovesKeep, RunnerKind
  <2>5. CountExact'
    BY <2>1, <2>2, CountKept DEF Waiting, IInv
  <2> QED
    BY <2>4, <2>5 DEF IInv
<1>2. CASE pc[t] # "callback" /\ pc'[t] = "callback"
  <2>1. ProcessQueue(t) /\ MayBegin(t)
    <3>1. CASE ProcessQueue(t)
      <4>1. pc'[t] = IF MayBegin(t) THEN "callback" ELSE Caller(t)
        BY <3>1 DEF ProcessQueue, IInv, TypeOK
      <4>2. Caller(t) # "callback"
        BY <3>1, RunnerKind DEF ProcessQueue
      <4> QED
        BY <1>2, <3>1, <4>1, <4>2
    <3>2. ~MaybeScheduleProcessQueue(t) /\ ~Schedule(t)
      BY <1>2, RunnerKind DEF MaybeScheduleProcessQueue, Schedule, IInv, TypeOK
    <3>3. ~ScheduleNotifies(t)
      <4> SUFFICES ASSUME ScheduleNotifies(t) PROVE FALSE
        OBVIOUS
      <4>1. Caller(t) \in PCs /\ t \notin Waiting /\ Caller(t) # "callback"
        BY RunnerKind DEF ScheduleNotifies, Waiting, PCs
      <4> QED
        BY <1>2, <4>1, NotifyMoves DEF ScheduleNotifies, IInv
    <3> QED
      BY <1>2, <3>1, <3>2, <3>3 DEF RunnerStep, CallbackReturns
  <2>2. Head(pending) \in Nat \ {0} /\ Tail(pending) \in Seq(Nat \ {0})
    BY <2>1 DEF MayBegin, IInv, TypeOK
  <2>3. TypeOK'
    BY <2>1, <2>2, Zenon DEF ProcessQueue, IInv, TypeOK, PCs, history
  <2>4. RunningGuards'
    BY <2>1, <2>2 DEF ProcessQueue, MayBegin, IInv, TypeOK, RunningGuards
  <2>5. JoinSplits'
    BY <2>1, RunnerKind DEF ProcessQueue, MayBegin, IInv, TypeOK, JoinSplits, BeforeJoin, history
  <2>6. CountExact'
    BY <2>1, CountKept DEF ProcessQueue, MayBegin, IInv, TypeOK, queues
  <2> QED
    BY <2>3, <2>4, <2>5, <2>6 DEF IInv
<1>3. CASE pc[t] = "callback"
  <2>1. CallbackReturns(t)
    BY <1>3 DEF RunnerStep, ProcessQueue, MaybeScheduleProcessQueue, Schedule, ScheduleNotifies
  <2>2. TypeOK'
    BY <2>1, Zenon DEF CallbackReturns, IInv, TypeOK, PCs
  <2>3. RunningGuards'
    BY <2>1 DEF CallbackReturns, IInv, TypeOK, RunningGuards
  <2>4. JoinSplits'
    BY <2>1, RunnerKind DEF CallbackReturns, IInv, TypeOK, JoinSplits, BeforeJoin
  <2>5. CountExact'
    BY <2>1, CountKept DEF CallbackReturns, IInv, TypeOK, queues
  <2> QED
    BY <2>2, <2>3, <2>4, <2>5 DEF IInv
<1> QED
  BY <1>1, <1>2, <1>3

\* A client inserts while the node is up, Main when all service threads have been joined.
LEMMA InsertOK ==
  ASSUME IInv, NEW t \in Threads, Insert(t),
         \/ t \in Clients /\ pc[t] = "client" /\ pc[Main] = "up" /\ inserted < MaxCallbacks
         \/ t = Main /\ pc[Main] = "join" /\ \A s \in Servers : pc[s] = "exited"
  PROVE  IInv'
<1> USE ThreadKinds
<1>1. TypeOK'
  <2>1. inserted' \in Nat \ {0}
    BY DEF Insert, IInv, TypeOK
  <2> QED
    BY <2>1 DEF Insert, IInv, TypeOK, PCs
<1>2. RunningGuards'
  BY DEF Insert, IInv, TypeOK, RunningGuards
<1>3. JoinSplits'
  BY SchedulerAssumption DEF Insert, IInv, TypeOK, JoinSplits, BeforeJoin
<1>4. CountExact'
  BY CountKept DEF Insert, IInv, TypeOK, queues
<1> QED
  BY <1>1, <1>2, <1>3, <1>4 DEF IInv

LEMMA MainOK ==
  ASSUME IInv, Stop \/ StopNotifies \/ Flush
  PROVE  IInv'
<1> USE ThreadKinds
<1>1. /\ pc' \in [Threads -> PCs]
      /\ pc'[Main] \in {"stopping", "join", "process", "down"}
      /\ pc[Main] \in {"up", "stopping", "flush"}
      /\ pc[Main] \in BeforeJoin <=> pc'[Main] \in BeforeJoin
      /\ \A u \in Threads \ {Main} : pc'[u] = pc[u] \/ (u \in Waiting /\ pc'[u] = "loop")
  <2>1. CASE StopNotifies
    <3>1. "join" \in PCs /\ Main \notin Waiting
      BY DEF PCs, Waiting
    <3> QED
      BY <2>1, <3>1, NotifyMoves DEF StopNotifies, IInv, BeforeJoin
  <2>2. CASE Stop \/ Flush
    BY <2>2, Zenon DEF Stop, Flush, IInv, TypeOK, PCs, BeforeJoin
  <2> QED
    BY <2>1, <2>2
<1>2. UNCHANGED <<runner, inserted, nThreads>>
  BY DEF Stop, StopNotifies, Flush, queues, history
<1>3. Moves(Main)
  BY <1>1, <1>2 DEF Moves
<1>4. CountExact'
  BY <1>1, <1>2, CountKept DEF Waiting, IInv
<1> QED
  BY <1>3, <1>4, MovesKeep DEF IInv

LEMMA NextOK == IInv /\ [Next]_vars => IInv'
<1> USE ThreadKinds
<1> SUFFICES ASSUME IInv, [Next]_vars PROVE IInv'
  OBVIOUS
<1>1. CASE Tick \/ UNCHANGED vars
  BY <1>1, Zenon DEF Tick, vars, queues, runner, history, IInv, TypeOK, RunningGuards, JoinSplits, CountExact, Active
<1>2. CASE \E s \in Servers : ServerStep(s) \/ SpuriousWakeup(s)
  BY <1>2, ServerOK, RunnerOK DEF ServerStep
<1>3. CASE \E c \in Clients : ClientInserts(c) \/ RunnerStep(c)
  BY <1>3, InsertOK, RunnerOK DEF ClientInserts
<1>4. CASE Stop \/ ShutdownStep
  BY <1>4, MainOK, InsertOK, RunnerOK DEF ShutdownStep, Joined
<1> QED
  BY <1>1, <1>2, <1>3, <1>4 DEF Next

LEMMA InvariantHolds == Spec => []IInv
BY InitOK, NextOK, PTL DEF Spec

\* The shutdown thread runs the remaining callbacks when every service thread has left
\* serviceQueue (the assertion in SerialTaskRunner::flush).
THEOREM FlushAlwaysAlone == Spec => []FlushAlone
<1>1. IInv => FlushAlone
  <2> SUFFICES ASSUME IInv, pc[Main] \in {"flush", "process", "callback", "down"}
               PROVE  nThreads = 0 /\ \A s \in Servers : pc[s] = "exited"
    BY DEF FlushAlone
  <2>1. \A s \in Servers : pc[s] = "exited"
    BY DEF IInv, JoinSplits, BeforeJoin
  <2>2. Active = {}
    BY <2>1 DEF Active
  <2> QED
    BY <2>1, <2>2, FS_EmptySet DEF IInv, CountExact
<1> QED
  BY <1>1, InvariantHolds, PTL

-----------------------------------------------------------------------------
(* The refinement *)

InExecution == {callback[t] : t \in Threads} \ {0}

LEMMA ExecutionKept ==
  ASSUME UNCHANGED <<pending, callback>>
  PROVE  UNCHANGED Serial!vars
BY DEF Serial!vars

LEMMA InsertMaps ==
  ASSUME IInv, NEW t \in Threads, Insert(t), inserted <= MaxCallbacks
  PROVE  Serial!Next
<1>1. inserted' \in 1 .. MaxCallbacks + 1
  BY SchedulerAssumption DEF Insert, IInv, TypeOK
<1>2. Serial!Insert(inserted')
  BY DEF Serial!Insert, Insert
<1> QED
  BY <1>1, <1>2 DEF Serial!Next

LEMMA RunnerMaps ==
  ASSUME IInv, NEW t \in Threads, RunnerStep(t)
  PROVE  Serial!Next \/ UNCHANGED Serial!vars
<1>1. CASE ProcessQueue(t) /\ MayBegin(t)
  <2>1. \A u \in Threads : callback[u] = 0
    BY <1>1 DEF MayBegin, IInv, TypeOK, RunningGuards
  <2>2. InExecution = {} /\ InExecution' = {Head(pending)}
    <3>1. Head(pending) \in Nat \ {0}
      BY <1>1 DEF MayBegin, IInv, TypeOK
    <3>2. /\ callback'[t] = Head(pending)
          /\ \A u \in Threads \ {t} : callback'[u] = 0
      BY <1>1, <2>1 DEF ProcessQueue, IInv, TypeOK
    <3> QED
      BY <2>1, <3>1, <3>2 DEF InExecution
  <2>3. Serial!Begin
    BY <1>1, <2>2, Zenon DEF Serial!Begin, InExecution, ProcessQueue, MayBegin
  <2> QED
    BY <2>3 DEF Serial!Next
<1>2. CASE CallbackReturns(t)
  <2>1. callback[t] # 0 /\ \A u \in Threads \ {t} : callback[u] = 0
    BY <1>2 DEF CallbackReturns, IInv, TypeOK, RunningGuards
  <2>2. InExecution # {} /\ InExecution' = {}
    <3>1. \A u \in Threads : callback'[u] = 0
      BY <1>2, <2>1 DEF CallbackReturns, IInv, TypeOK
    <3> QED
      BY <2>1, <3>1 DEF InExecution
  <2>3. Serial!Return
    BY <1>2, <2>2 DEF Serial!Return, InExecution, CallbackReturns
  <2> QED
    BY <2>3 DEF Serial!Next
<1>3. CASE ~(ProcessQueue(t) /\ MayBegin(t)) /\ ~CallbackReturns(t)
  BY <1>3, ExecutionKept
    DEF RunnerStep, ProcessQueue, MaybeScheduleProcessQueue, Schedule, ScheduleNotifies, runner
<1> QED
  BY <1>1, <1>2, <1>3

LEMMA StepMaps == IInv /\ [Next]_vars => [Serial!Next]_Serial!vars
<1> USE ThreadKinds
<1> SUFFICES ASSUME IInv, [Next]_vars PROVE Serial!Next \/ UNCHANGED Serial!vars
  OBVIOUS
<1>1. CASE Tick \/ UNCHANGED vars
  BY <1>1, ExecutionKept DEF Tick, vars, runner
<1>2. CASE \E s \in Servers : ServerStep(s) \/ SpuriousWakeup(s)
  <2>1. PICK s \in Servers : ServerStep(s) \/ SpuriousWakeup(s)
    BY <1>2
  <2>2. CASE RunnerStep(s)
    BY <2>2, RunnerMaps
  <2>3. CASE ~RunnerStep(s)
    <3>1. UNCHANGED <<pending, callback>>
      BY <2>1, <2>3 DEF ServerStep, StartThread, Loop, Service, Timeout, TakeTask, ExitNotifies, Repeat,
                        SpuriousWakeup, runner
    <3> QED
      BY <3>1, ExecutionKept
  <2> QED
    BY <2>2, <2>3
<1>3. CASE \E c \in Clients : ClientInserts(c) \/ RunnerStep(c)
  BY <1>3, SchedulerAssumption, InsertMaps, RunnerMaps DEF ClientInserts, IInv, TypeOK
<1>4. CASE Joined
  BY <1>4, InsertMaps DEF Joined, IInv, JoinSplits, BeforeJoin
<1>5. CASE RunnerStep(Main)
  BY <1>5, RunnerMaps
<1>6. CASE Stop \/ StopNotifies \/ Flush
  BY <1>6, ExecutionKept DEF Stop, StopNotifies, Flush, runner
<1> QED
  BY <1>1, <1>2, <1>3, <1>4, <1>5, <1>6 DEF Next, ShutdownStep

\* SerialTaskRunner runs its callbacks one at a time and in the order of their insertion,
\* whatever the number of service threads (the refinement that the run checks for two).
THEOREM TaskRunnerIsSerial == Spec => ImplementsSerialQueue
<1>1. Init => Serial!Init
  BY DEF Init, Serial!Init
<1> QED
  BY <1>1, InvariantHolds, StepMaps, PTL DEF Spec, Serial!Spec, ImplementsSerialQueue
=============================================================================

----------------------------- MODULE CheckQueue -----------------------------
(***************************************************************************)
(* The script verification pool (checkqueue.h).  The master adds the checks *)
(* of one block, joins the workers in Loop until all are done, and takes    *)
(* the result with it; then comes the next block.  m_mutex is held from the *)
(* top of the loop to a wait, a return or the start of a batch, so that     *)
(* stretch is one step.  Condition variables are wait sets; a waiter may    *)
(* also wake for no reason.                                                 *)
(*                                                                          *)
(* A check is 0 when it passes and otherwise the error that it returns: the *)
(* number of its block, so that a result tells which block it came from.    *)
(***************************************************************************)
EXTENDS Integers, Sequences, FiniteSets, FiniteSetsExt

CONSTANTS
  Workers, Master,
  BatchSize,   \* nBatchSize
  AddSizes,    \* the numbers of checks in one call of Add
  Load         \* bound: the most checks of the first block, of the second...

ASSUME PoolAssumption ==
  /\ IsFiniteSet(Workers) /\ Workers # {} /\ Master \notin Workers
  /\ BatchSize \in Nat \ {0} /\ AddSizes \subseteq Nat \ {0} /\ Load \in Seq(Nat)

Rounds == Len(Load)
MaxTodo == Max({Load[i] : i \in DOMAIN Load} \cup {0})

Threads == Workers \cup {Master}

VARIABLES
  queue,    \* used from the back
  nTodo,
  nIdle,
  nTotal,
  result,   \* m_result, 0 for nullopt
  stop,     \* m_request_stop
  pc,
  vChecks,  \* the batch of each thread; nNow is its length
  local,    \* local_result of each thread
  doWork,   \* do_work of each thread
  round,    \* the block being checked
  added,    \* checks added for it, in order
  ret       \* what Complete returned last

shared == <<queue, nTodo, nIdle, nTotal, result, stop>>
locals == <<vChecks, local, doWork>>
history == <<round, added, ret>>
vars == <<shared, pc, locals, history>>

Init ==
  /\ queue = <<>> /\ nTodo = 0 /\ nIdle = 0 /\ nTotal = 0 /\ result = 0 /\ stop = FALSE
  /\ pc = [t \in Threads |-> IF t = Master THEN "add" ELSE "loop"]
  /\ vChecks = [t \in Threads |-> <<>>]
  /\ local = [t \in Threads |-> 0]
  /\ doWork = [t \in Threads |-> FALSE]
  /\ round = 1 /\ added = <<>> /\ ret = 0

-----------------------------------------------------------------------------
(* Condition variables *)

WaitingWorkers == {w \in Workers : pc[w] = "wait"}

\* notify_one and notify_all on m_worker_cv; p is pc with the caller moved on
NotifyOne(p) ==
  pc' \in IF WaitingWorkers = {} THEN {p}
          ELSE {[p EXCEPT ![w] = "woken"] : w \in WaitingWorkers}
NotifyAll(p) == pc' = [t \in Threads |-> IF t \in WaitingWorkers THEN "woken" ELSE p[t]]

SpuriousWakeup(t) ==
  /\ pc[t] = "wait"
  /\ pc' = [pc EXCEPT ![t] = "woken"]
  /\ UNCHANGED <<shared, locals, history>>

-----------------------------------------------------------------------------
(* Add *)

\* The part under m_mutex
Add(checks) ==
  /\ pc[Master] = "add" /\ round <= Rounds
  /\ Len(added) + Len(checks) <= Load[round]
  /\ queue' = queue \o checks
  /\ nTodo' = nTodo + Len(checks)
  /\ added' = added \o checks
  /\ pc' = [pc EXCEPT ![Master] = IF Len(checks) = 1 THEN "notify_one" ELSE "notify_all"]
  /\ UNCHANGED <<nIdle, nTotal, result, stop, locals, round, ret>>

AddNotifies ==
  /\ pc[Master] \in {"notify_one", "notify_all"}
  /\ LET p == [pc EXCEPT ![Master] = "add"]
     IN IF pc[Master] = "notify_one" THEN NotifyOne(p) ELSE NotifyAll(p)
  /\ UNCHANGED <<shared, locals, history>>

\* Complete, or the destructor of a CCheckQueueControl that was given up
Complete ==
  /\ pc[Master] = "add" /\ round <= Rounds
  /\ pc' = [pc EXCEPT ![Master] = "loop"]
  /\ vChecks' = [vChecks EXCEPT ![Master] = <<>>]
  /\ local' = [local EXCEPT ![Master] = 0]
  /\ UNCHANGED <<shared, doWork, history>>

-----------------------------------------------------------------------------
(* Loop *)

\* nNow, with `total' threads in the loop, `idle' of them waiting
BatchLength(total, idle) == Max({1, Min({BatchSize, Len(queue) \div (total + idle + 1)})})

\* The thread leaves the critical section with a batch.
Take(t, total, idle, res) ==
  LET n == BatchLength(total, idle)
  IN /\ vChecks' = [vChecks EXCEPT ![t] = SubSeq(queue, Len(queue) - n + 1, Len(queue))]
     /\ queue' = SubSeq(queue, 1, Len(queue) - n)
     /\ doWork' = [doWork EXCEPT ![t] = res = 0]

\* Mutant: the master leaves as soon as the queue is empty.
MasterLeavesEarly(t, todo) == t = Master

\* if (fMaster && nTodo == 0)
MasterMayReturn(t, todo) == t = Master /\ todo = 0

\* From the inner while loop on: return, wait, exit or take a batch.  The arguments are
\* the values after the clean-up; p is pc after its notification.
Decide(t, todo, res, total, idle, p) ==
  \/ /\ queue = <<>> /\ ~stop /\ MasterMayReturn(t, todo)
     /\ nTotal' = total - 1
     /\ ret' = res /\ result' = 0
     /\ nIdle' = idle
     /\ pc' = [p EXCEPT ![t] = "returned"]
     /\ UNCHANGED <<queue, vChecks, doWork>>
  \/ /\ queue = <<>> /\ ~stop /\ ~MasterMayReturn(t, todo)
     /\ nIdle' = idle + 1
     /\ pc' = [p EXCEPT ![t] = "wait"]
     /\ nTotal' = total /\ result' = res
     /\ vChecks' = [vChecks EXCEPT ![t] = <<>>]
     /\ UNCHANGED <<queue, doWork, ret>>
  \/ /\ queue # <<>> /\ ~stop
     /\ Take(t, total, idle, res)
     /\ pc' = [p EXCEPT ![t] = "work"]
     /\ nTotal' = total /\ result' = res /\ nIdle' = idle
     /\ UNCHANGED ret
  \/ /\ stop
     /\ pc' = [p EXCEPT ![t] = "exited"]
     /\ nTotal' = total /\ result' = res /\ nIdle' = idle
     /\ UNCHANGED <<queue, vChecks, doWork, ret>>

\* Mutant: nobody tells the master.
MasterNotTold(t, todo) == pc

\* The last worker tells the master.
MasterTold(t, todo) ==
  IF todo = 0 /\ t # Master /\ pc[Master] = "wait" THEN [pc EXCEPT ![Master] = "woken"] ELSE pc

\* m_result after the clean-up
ResultAfter(t) == IF result = 0 THEN local[t] ELSE result

FirstIteration(t) ==
  /\ pc[t] = "loop" /\ vChecks[t] = <<>>
  /\ nTodo' = nTodo
  /\ UNCHANGED local
  /\ Decide(t, nTodo, result, nTotal + 1, nIdle, pc)
  /\ UNCHANGED <<stop, round, added>>

\* The clean-up of the previous iteration, and on
NextIteration(t) ==
  LET todo == nTodo - Len(vChecks[t])
  IN /\ pc[t] = "loop" /\ vChecks[t] # <<>>
     /\ nTodo' = todo
     /\ local' = [local EXCEPT ![t] = IF result = 0 THEN 0 ELSE @]
     /\ Decide(t, todo, ResultAfter(t), nTotal, nIdle, MasterTold(t, todo))
     /\ UNCHANGED <<stop, round, added>>

\* cond.wait returns
Woken(t) ==
  /\ pc[t] = "woken"
  /\ nTodo' = nTodo
  /\ Decide(t, nTodo, result, nTotal, nIdle - 1, pc)
  /\ UNCHANGED <<stop, local, round, added>>

\* The first error of a batch, 0 if there is none
FirstError(checks) ==
  IF \A i \in DOMAIN checks : checks[i] = 0 THEN 0
  ELSE checks[Min({i \in DOMAIN checks : checks[i] # 0})]

\* Mutant: a batch that passes leaves the last error in place.
WorkKeepsError(t) ==
  /\ pc[t] = "work"
  /\ local' = [local EXCEPT ![t] = IF doWork[t] /\ FirstError(vChecks[t]) # 0
                                   THEN FirstError(vChecks[t]) ELSE @]
  /\ pc' = [pc EXCEPT ![t] = "loop"]
  /\ UNCHANGED <<shared, vChecks, doWork, history>>

\* The checks run without the lock; after an error the rest of a block is skipped.
Work(t) ==
  /\ pc[t] = "work"
  /\ local' = [local EXCEPT ![t] = IF doWork[t] THEN FirstError(vChecks[t]) ELSE @]
  /\ pc' = [pc EXCEPT ![t] = "loop"]
  /\ UNCHANGED <<shared, vChecks, doWork, history>>

-----------------------------------------------------------------------------
(* From one block to the next, and the end of the pool *)

NextBlock ==
  /\ pc[Master] = "returned"
  /\ round' = round + 1
  /\ added' = <<>>
  /\ pc' = [pc EXCEPT ![Master] = "add"]
  /\ UNCHANGED <<shared, locals, ret>>

\* ~CCheckQueue, the part under m_mutex
RequestStop ==
  /\ pc[Master] = "add" /\ round > Rounds
  /\ stop' = TRUE
  /\ pc' = [pc EXCEPT ![Master] = "stop"]
  /\ UNCHANGED <<queue, nTodo, nIdle, nTotal, result, locals, history>>

\* Mutant: only one worker is told.
StopOne ==
  /\ pc[Master] = "stop"
  /\ NotifyOne([pc EXCEPT ![Master] = "join"])
  /\ UNCHANGED <<shared, locals, history>>

StopNotifies ==
  /\ pc[Master] = "stop"
  /\ NotifyAll([pc EXCEPT ![Master] = "join"])
  /\ UNCHANGED <<shared, locals, history>>

Joined ==
  /\ pc[Master] = "join"
  /\ \A w \in Workers : pc[w] = "exited"
  /\ pc' = [pc EXCEPT ![Master] = "exited"]
  /\ UNCHANGED <<shared, locals, history>>

LoopStep(t) == FirstIteration(t) \/ NextIteration(t) \/ Woken(t) \/ Work(t)

Checks == UNION {[1 .. n -> {0, round}] : n \in AddSizes}

MasterStep ==
  AddNotifies \/ Complete \/ NextBlock \/ RequestStop \/ StopNotifies \/ Joined

Next ==
  \/ \E checks \in Checks : Add(checks)
  \/ MasterStep
  \/ \E t \in Threads : LoopStep(t) \/ SpuriousWakeup(t)

Spec == Init /\ [][Next]_vars

\* Every thread that is not waiting is scheduled again.
FairSpec == Spec /\ WF_vars(MasterStep) /\ \A t \in Threads : WF_vars(LoopStep(t))

-----------------------------------------------------------------------------
(* Properties *)

\* Counters and results stay in range: no counter of the pool (nTodo, nIdle, nTotal) ever
\* drops below zero, which for the code's unsigned ints would be a wrap-around.
TypeOK ==
  /\ queue \in Seq({0} \cup 1 .. Rounds) /\ Len(queue) <= MaxTodo
  /\ nTodo \in 0 .. MaxTodo
  /\ nIdle \in 0 .. Cardinality(Threads) /\ nTotal \in 0 .. Cardinality(Threads)
  /\ result \in 0 .. Rounds /\ ret \in 0 .. Rounds /\ stop \in BOOLEAN
  /\ pc \in [Threads -> {"add", "notify_one", "notify_all", "loop", "wait", "woken", "work",
                         "returned", "stop", "join", "exited"}]
  /\ \A t \in Threads : Len(vChecks[t]) <= BatchSize /\ local[t] \in 0 .. Rounds
  /\ doWork \in [Threads -> BOOLEAN]
  /\ round \in 1 .. Rounds + 1 /\ Len(added) <= MaxTodo

\* The checks that a thread has taken and not yet given back
Held(t) == IF pc[t] \in {"work", "loop"} THEN Len(vChecks[t]) ELSE 0
HeldChecks == UNION {{t} \X (1 .. Held(t)) : t \in Threads}

\* The threads in cond.wait, and those that nTotal stands for: a worker counts from its first
\* iteration on for ever, the master until it returns.
Asleep == {t \in Threads : pc[t] \in {"wait", "woken"}}
InLoop == {t \in Threads : \/ pc[t] \in {"wait", "woken", "work"}
                           \/ pc[t] = "loop" /\ vChecks[t] # <<>>
                           \/ pc[t] = "exited" /\ t # Master}

\* nTodo counts the queued checks and those in the threads' batches, nIdle the threads in
\* cond.wait, nTotal the threads in the loop: a count off by one makes Complete return early
\* or wait for ever, and one below zero would wrap around.
CountsExact ==
  /\ nTodo = Len(queue) + Cardinality(HeldChecks)
  /\ nIdle = Cardinality(Asleep)
  /\ nTotal = Cardinality(InLoop)

\* Complete reports an error exactly if a check of this very block fails, and then one of this
\* block's errors, although threads keep local_result over blocks and skip checks on failure.
ResultOfThisBlock ==
  pc[Master] = "returned" =>
    ret = IF \E i \in DOMAIN added : added[i] # 0 THEN round ELSE 0

\* When Complete has returned no thread still runs a check of the block (the checks point into
\* the block's transactions), nothing is queued and the shared result is reset.
NothingLeftBehind ==
  pc[Master] = "returned" =>
    /\ queue = <<>> /\ nTodo = 0 /\ result = 0
    /\ \A w \in Workers : pc[w] # "work"

\* The master never waits for ever in Complete: no wake-up is lost.
CompleteReturns == pc[Master] = "loop" ~> pc[Master] = "returned"

\* The destructor's join ends: every worker sees m_request_stop, asleep or not.
PoolStops == stop ~> \A t \in Threads : pc[t] = "exited"
=============================================================================

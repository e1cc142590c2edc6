---------------------------- MODULE TaskScheduler ----------------------------
(***************************************************************************)
(* The task scheduler of one reactor (src/core/reactor.cc): task queues    *)
(* (scheduling groups) with shares and a virtual runtime, the list        *)
(* _active_task_queues kept sorted by virtual runtime, the list           *)
(* _activating_task_queues of queues that became non-empty, and           *)
(* run_some_tasks(), which repeatedly runs the queue with the lowest      *)
(* virtual runtime until the preemption flag g_need_preempt is set.  The  *)
(* flag is raised by the task-quota timer thread and by signal handlers.  *)
(*                                                                         *)
(* A task is abstracted to its queue; only the number of queued tasks is  *)
(* kept.  A task's body may add tasks to any queue (reactor::add_task).   *)
(*                                                                         *)
(* Virtual runtimes are kept relative to _last_vruntime: vruntime[q] is   *)
(* q._vruntime - _last_vruntime.  Every use of _vruntime in the code (the *)
(* comparisons of indirect_compare, the clamp in activate(), the max in   *)
(* run_some_tasks()) is invariant under adding the same constant to all   *)
(* of them, so this loses nothing and keeps the state space finite.  A    *)
(* queue in _activating_task_queues is not _active, and its _vruntime is  *)
(* read by insert_activating_task_queues(); it is kept exactly.  The      *)
(* _vruntime of any other queue that is not _active is only read by       *)
(* activate(), which replaces any value below _last_vruntime - advantage  *)
(* by that bound; since _last_vruntime only grows, such values are stored *)
(* as the bound.                                                           *)
(***************************************************************************)
EXTENDS Integers, Sequences, SequencesExt, FiniteSets

CONSTANTS
  Queues,          \* the task queues (scheduling groups)
  Shares,          \* Shares[q]: task_queue::_shares, already at least 1
  Shift,           \* bits of the fixed-point reciprocal (32 in the code)
  TaskQuota,       \* _task_quota, in the time unit of Runtimes
  Runtimes,        \* wall times one run_tasks() slice may take
  MaxTaskBacklog,  \* _max_task_backlog
  MaxQueued,       \* bound on the tasks queued in one task queue
  NoQueue          \* a value that is not a queue

ASSUME Shares \in [Queues -> Nat \ {0}] /\ NoQueue \notin Queues
ASSUME Runtimes \subseteq Nat /\ TaskQuota \in Nat /\ MaxQueued \in Nat \ {0}

VARIABLES
  tasks,           \* tasks[q]: number of tasks in q._q
  vruntime,        \* q._vruntime - _last_vruntime
  active,          \* q._active
  activeQueues,    \* _active_task_queues
  activating,      \* _activating_task_queues
  current,         \* the queue run_some_tasks() is running, or NoQueue
  needPreempt,     \* g_need_preempt
  pc               \* "loop", "pick", "run", "task" or "account"

vars == <<tasks, vruntime, active, activeQueues, activating, current,
          needPreempt, pc>>

MaxOf(a, b) == IF a >= b THEN a ELSE b

-----------------------------------------------------------------------------
(* task_queue::to_vruntime(): runtime * (2^Shift / shares), shifted back, *)
(* at least 0.                                                             *)
Reciprocal(q) == (2 ^ Shift) \div Shares[q]

to_vruntime(q, runtime) == MaxOf((runtime * Reciprocal(q)) \div (2 ^ Shift), 0)

(* The credit activate() grants: one task quota of virtual time.          *)
Advantage(q) == to_vruntime(q, TaskQuota)

(* indirect_compare on two queues.                                         *)
less(vrt, a, b) == vrt[a] < vrt[b]

(* The loop of insert_active_task_queue() after push_front(): swap the    *)
(* new queue forward while it is not less than its successor.  i is the   *)
(* 1-based position of the new queue.                                      *)
RECURSIVE Bubble(_, _, _)
Bubble(vrt, atq, i) ==
  IF i # Len(atq) /\ ~less(vrt, atq[i], atq[i + 1])
  THEN Bubble(vrt, [atq EXCEPT ![i] = atq[i + 1], ![i + 1] = atq[i]], i + 1)
  ELSE atq

(* Variant of insert_active_task_queue() without the swap loop.           *)
insert_front_only(vrt, atq, q) ==
  IF atq = <<>> \/ less(vrt, Last(atq), q) THEN Append(atq, q)
  ELSE <<q>> \o atq

(* reactor::insert_active_task_queue() on the list atq.                   *)
insert_active_task_queue(vrt, atq, q) ==
  IF atq = <<>> \/ less(vrt, Last(atq), q) THEN Append(atq, q)
  ELSE Bubble(vrt, <<q>> \o atq, 1)

(* reactor::insert_activating_task_queues(): insert each activating      *)
(* queue in order.                                                         *)
insert_activating_task_queues(vrt, atq, act) ==
  LET ins(s, q) == insert_active_task_queue(vrt, s, q)
  IN FoldLeft(ins, atq, act)

(* Variant of activate() without the early return for an active queue.   *)
activate_always(q) ==
  /\ vruntime' = [vruntime EXCEPT ![q] = MaxOf(-Advantage(q), @)]
  /\ activating' = Append(activating, q)

(* reactor::activate(): an inactive queue gets its vruntime clamped to    *)
(* _last_vruntime - advantage and is appended to the activating list.     *)
activate(q) ==
  IF active[q]
  THEN UNCHANGED <<vruntime, activating>>
  ELSE /\ vruntime' = [vruntime EXCEPT ![q] = MaxOf(-Advantage(q), @)]
       /\ activating' = Append(activating, q)

(* reactor::account_runtime(): tq._vruntime += tq.to_vruntime(runtime).   *)
account_runtime(vrt, q, runtime) ==
  [vrt EXCEPT ![q] = @ + to_vruntime(q, runtime)]

(* Variant of the _last_vruntime update that leaves it unchanged.          *)
last_vruntime_kept(vrt, q) == 0

(* _last_vruntime = max(tq->_vruntime, _last_vruntime): the amount by     *)
(* which _last_vruntime grows.                                             *)
last_vruntime_increase(vrt, q) == MaxOf(vrt[q], 0)

have_more_tasks == Len(activeQueues) + Len(activating) > 0

Running(q) == pc \in {"run", "task", "account"} /\ current = q

-----------------------------------------------------------------------------
Init ==
  /\ tasks = [q \in Queues |-> 0]
  /\ vruntime = [q \in Queues |-> 0]
  /\ active = [q \in Queues |-> FALSE]
  /\ activeQueues = <<>>
  /\ activating = <<>>
  /\ current = NoQueue
  /\ needPreempt = FALSE
  /\ pc = "loop"

(* reactor::add_task(): queue the task; activate the queue if it was      *)
(* empty.  Called by pollers from the loop and by tasks as they run.      *)
add_task(q) ==
  /\ pc \in {"loop", "task"}
  /\ tasks[q] < MaxQueued
  /\ tasks' = [tasks EXCEPT ![q] = @ + 1]
  /\ IF tasks[q] = 0 THEN activate(q) ELSE UNCHANGED <<vruntime, activating>>
  /\ UNCHANGED <<active, activeQueues, current, needPreempt, pc>>

(* run_some_tasks(), entry: return if there is nothing to run; otherwise  *)
(* clear g_need_preempt.                                                   *)
StartRunSomeTasks ==
  /\ pc = "loop"
  /\ have_more_tasks
  /\ needPreempt' = FALSE
  /\ pc' = "pick"
  /\ UNCHANGED <<tasks, vruntime, active, activeQueues, activating, current>>

(* run_some_tasks(), top of the loop: insert the activating queues, pop   *)
(* the front of the active list and mark it current.                      *)
Pick ==
  /\ pc = "pick"
  /\ LET atq == insert_activating_task_queues(vruntime, activeQueues, activating)
     IN /\ current' = Head(atq)
        /\ activeQueues' = Tail(atq)
  /\ active' = [q \in Queues |-> active[q] \/ q \in ToSet(activating)]
  /\ activating' = <<>>
  /\ pc' = "run"
  /\ UNCHANGED <<tasks, vruntime, needPreempt>>

(* run_tasks(): pop the front task of the current queue and run it.      *)
RunTask ==
  /\ pc = "run"
  /\ tasks[current] > 0
  /\ tasks' = [tasks EXCEPT ![current] = @ - 1]
  /\ pc' = "task"
  /\ UNCHANGED <<vruntime, active, activeQueues, activating, current, needPreempt>>

(* Variant of TaskDone that leaves the queue only once it is empty.       *)
TaskDoneNoPreempt ==
  /\ pc = "task"
  /\ pc' = IF tasks[current] = 0 THEN "account" ELSE "run"
  /\ UNCHANGED <<tasks, vruntime, active, activeQueues, activating, current, needPreempt>>

(* run_tasks(), end of an iteration: stop when the queue is empty, or     *)
(* when preemption is requested and the backlog is small enough.          *)
TaskDone ==
  /\ pc = "task"
  /\ pc' = IF tasks[current] = 0
              \/ (needPreempt /\ tasks[current] <= MaxTaskBacklog)
           THEN "account" ELSE "run"
  /\ UNCHANGED <<tasks, vruntime, active, activeQueues, activating, current, needPreempt>>

(* run_some_tasks(), after run_tasks(): account the slice's runtime,      *)
(* raise _last_vruntime, re-insert the queue if it still has tasks or     *)
(* mark it inactive, and loop while there is work and no preemption.  The *)
(* relative vruntimes of the active and the activating queues shift by    *)
(* the growth of _last_vruntime; those of the other queues are clamped.   *)
Account(runtime) ==
  /\ pc = "account"
  /\ LET q    == current
         vrt  == account_runtime(vruntime, q, runtime)
         d    == last_vruntime_increase(vrt, q)
         act  == [active EXCEPT ![q] = tasks[q] > 0]
         atq  == IF tasks[q] > 0
                 THEN insert_active_task_queue(vrt, activeQueues, q)
                 ELSE activeQueues
     IN /\ active' = act
        /\ activeQueues' = atq
        /\ vruntime' = [r \in Queues |->
                          IF act[r] \/ r \in ToSet(activating) THEN vrt[r] - d
                          ELSE MaxOf(vrt[r] - d, -Advantage(r))]
        /\ pc' = IF (Len(atq) + Len(activating) > 0) /\ ~needPreempt
                 THEN "pick" ELSE "loop"
  /\ current' = NoQueue
  /\ UNCHANGED <<tasks, activating, needPreempt>>

(* The task-quota timer thread (or a signal handler) sets                 *)
(* g_need_preempt.                                                         *)
Preempt ==
  /\ ~needPreempt
  /\ needPreempt' = TRUE
  /\ UNCHANGED <<tasks, vruntime, active, activeQueues, activating, current, pc>>

Next ==
  \/ \E q \in Queues : add_task(q)
  \/ StartRunSomeTasks \/ Pick \/ RunTask \/ TaskDone
  \/ \E r \in Runtimes : Account(r)
  \/ Preempt

(* The reactor thread always makes progress, and the task-quota timer     *)
(* fires every _task_quota while the reactor is awake.  Pollers and tasks *)
(* adding work are the environment and get no fairness.                   *)
Fairness ==
  /\ WF_vars(StartRunSomeTasks) /\ WF_vars(Pick) /\ WF_vars(RunTask)
  /\ WF_vars(TaskDone) /\ WF_vars(\E r \in Runtimes : Account(r))
  /\ WF_vars(Preempt)

Spec == Init /\ [][Next]_vars /\ Fairness

-----------------------------------------------------------------------------
TypeOK ==
  /\ tasks \in [Queues -> 0..MaxQueued]
  /\ vruntime \in [Queues -> Int] /\ \A q \in Queues : vruntime[q] <= 0
  /\ active \in [Queues -> BOOLEAN]
  /\ activeQueues \in Seq(Queues) /\ activating \in Seq(Queues)
  /\ current \in Queues \cup {NoQueue}
  /\ needPreempt \in BOOLEAN
  /\ pc \in {"loop", "pick", "run", "task", "account"}

(* _active_task_queues stays sorted by ascending virtual runtime through  *)
(* insert_active_task_queue(), activation clamps and re-insertion after   *)
(* each slice, so run_some_tasks() always runs the queue with the lowest  *)
(* virtual runtime (spec.md 2, task queue invariant).                     *)
ActiveSorted ==
  \A i \in 1..Len(activeQueues) - 1 :
    vruntime[activeQueues[i]] <= vruntime[activeQueues[i + 1]]

(* A queue is in the active or activating list, once, exactly when it has *)
(* tasks and is not being run; _active is set exactly for the queues in   *)
(* the active list and the one being run.  This relies on add_task()      *)
(* activating only an empty queue and activate() returning early for an  *)
(* _active queue, also for the running queue whose task refills it.       *)
QueueMembership ==
  /\ IsInjective(activeQueues \o activating)
  /\ \A q \in Queues :
       /\ (q \in ToSet(activeQueues \o activating)) <=> (tasks[q] > 0 /\ ~Running(q))
       /\ active[q] <=> (q \in ToSet(activeQueues) \/ Running(q))

(* A preemption request ends run_some_tasks(): once g_need_preempt is    *)
(* set, the reactor is eventually back in its loop, unless the queue it   *)
(* runs has more than _max_task_backlog tasks queued at the end of a task *)
(* (run_tasks() then keeps running it, reactor.cc:2449).  It needs        *)
(* run_tasks() to look at the flag after every task and the accounting    *)
(* after the slice to leave the loop instead of picking the next queue.   *)
PreemptionHonoured ==
  needPreempt ~> (pc = "loop" \/ (pc = "task" /\ tasks[current] > MaxTaskBacklog))

=============================================================================

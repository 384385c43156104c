------------------------------ MODULE Scheduler ------------------------------
(***************************************************************************)
(* The syncio scheduler's wake-up protocol (src/contrib/syncio/src/       *)
(* sched.cpp, wait.cpp, task.cpp; scheduler.h and wait.h in               *)
(* src/unnamed/part_013 and part_019), on worker threads running           *)
(* Scheduler::taskSwitch.                                                  *)
(*                                                                         *)
(* A coroutine steps down with a wait queue and/or a timeout; afterStepDown *)
(* then registers WaitItems carrying its stamp, and whoever schedules an   *)
(* item first (the queue's scheduleAll, ioWait's timeout, cancel) bumps    *)
(* the stamp, so the other items of that step-down become stale.           *)
(*                                                                         *)
(* Three coroutines play the pattern mongoz uses everywhere (fetchConfig,  *)
(* talk, MergeDatasource): the owner spawns a task, io::wait()s for it     *)
(* (with a deadline or, like join(), without) and then leaves the scope, so ~TaskBase cancels   *)
(* the task and waits for it with cancellation disabled.  The task sleeps  *)
(* with a timeout, then completes.  A third coroutine cancels the owner    *)
(* after a sleep of its own.                                               *)
(***************************************************************************)
EXTENDS Integers, Sequences, SequencesExt, FiniteSets

CONSTANTS
  Threads,     \* the engine's worker threads
  None,
  TimedWait    \* whether the owner's io::wait has a deadline (else task.join())

Owner == "owner"
Task == "task"
Canceller == "canceller"
Coroutines == {Owner, Task, Canceller}

VARIABLES
  thr,        \* per thread: the coroutine it switched to and where taskSwitch is
  pc,         \* per coroutine: where it runs or will resume
  stamp,      \* Coroutine::stamp_
  scheduled,  \* Coroutine::scheduled_
  result,     \* Coroutine::result_: "ok", "timedout" or "cancelled"
  cancelled,  \* stepDown_.cancelled_
  disabled,   \* cancellationDisabled_
  completed,  \* completed_
  sd,         \* stepDown_: the wait queue and whether the timeout is finite
  ready,      \* Scheduler::ready_
  timeouts,   \* Scheduler::timeouts_: WaitItems with a finite deadline
  q,          \* the task's waiters_ queue of WaitItems
  qlocked,    \* waiters_ is locked by the owner (across its step-down)
  ret         \* what the owner's last io::wait returned

vars == <<thr, pc, stamp, scheduled, result, cancelled, disabled, completed, sd,
          ready, timeouts, q, qlocked, ret>>

Item(c) == [c |-> c, st |-> stamp[c]]

Sched == [stamp |-> stamp, scheduled |-> scheduled, result |-> result, ready |-> ready]

SetSched(s) == stamp' = s.stamp /\ scheduled' = s.scheduled /\ result' = s.result /\ ready' = s.ready

\* Scheduler::doSchedule: a stale item (its stamp is not the coroutine's)
\* and a coroutine already in ready_ give -EALREADY; the stamp is bumped
\* either way once it matched.
DoSchedule(s, it, res) ==
  IF s.stamp[it.c] # it.st THEN s
  ELSE IF s.scheduled[it.c] THEN [s EXCEPT !.stamp[it.c] = it.st + 1]
  ELSE [s EXCEPT !.stamp[it.c] = it.st + 1, !.scheduled[it.c] = TRUE,
                 !.result[it.c] = res, !.ready = Append(@, it.c)]

\* WaitQueue::scheduleAll: every item of the queue, front first.
ScheduleAll(s, items, res) == FoldLeft(LAMBDA acc, it : DoSchedule(acc, it, res), s, items)

\* c->mutex_ is held by the thread that switched to c until afterStepDown
\* is over.
MutexFree(c) == \A t \in Threads : thr[t].c = c => thr[t].ph \in {"idle", "fetched"}

\* Scheduler::start(c) from the coroutine spawning it.
Start(c) == SetSched(DoSchedule(Sched, Item(c), "ok"))

\* Coroutine::cancel: under c->mutex_, nothing if c completed, else the
\* cancellation flag and a wake-up with -ECANCELED.
Cancel(c) ==
  IF completed[c] THEN UNCHANGED <<stamp, scheduled, result, ready, cancelled>>
  ELSE cancelled' = [cancelled EXCEPT ![c] = TRUE]
       /\ SetSched(DoSchedule(Sched, Item(c), "cancelled"))

Usage == Cardinality({c \in Coroutines : pc[c] \notin {"new", "end"}})

Running(t, c) == thr[t].c = c /\ thr[t].ph = "run"

\* Scheduler::stepDownCurrent: back to taskSwitch, with the wait queue and
\* timeout afterStepDown will register; `at` is where c resumes.
StepDown(t, c, queue, finite, at) ==
  /\ thr' = [thr EXCEPT ![t].ph = "after"]
  /\ sd' = [sd EXCEPT ![c] = [queue |-> queue, finite |-> finite]]
  /\ pc' = [pc EXCEPT ![c] = at]

\* Coroutine::cleanup's last stepDownCurrent: the custom step-down frees
\* the stack and derefs; the thread is free again.
Finish(t) == thr' = [thr EXCEPT ![t] = [c |-> None, ph |-> "idle"]]

Init ==
  /\ thr = [t \in Threads |-> [c |-> None, ph |-> "idle"]]
  /\ pc = [c \in Coroutines |-> CASE c = Owner -> "spawn" [] c = Task -> "new" [] OTHER -> "begin"]
  /\ stamp = [c \in Coroutines |-> IF c = Task THEN 1 ELSE 2]
  /\ scheduled = [c \in Coroutines |-> c # Task]
  /\ result = [c \in Coroutines |-> "ok"]
  /\ cancelled = [c \in Coroutines |-> FALSE]
  /\ disabled = [c \in Coroutines |-> FALSE]
  /\ completed = [c \in Coroutines |-> FALSE]
  /\ sd = [c \in Coroutines |-> [queue |-> FALSE, finite |-> FALSE]]
  /\ ready \in {<<Owner, Canceller>>, <<Canceller, Owner>>}
  /\ timeouts = {}
  /\ q = <<>>
  /\ qlocked = FALSE
  /\ ret = "none"

-----------------------------------------------------------------------------
(* Scheduler::taskSwitch and ioWait, per worker thread.                    *)

Fetch(t) ==
  /\ thr[t].ph = "idle" /\ ready # <<>>
  /\ thr' = [thr EXCEPT ![t] = [c |-> Head(ready), ph |-> "fetched"]]
  /\ ready' = Tail(ready)
  /\ UNCHANGED <<pc, stamp, scheduled, result, cancelled, disabled, completed, sd, timeouts, q, qlocked, ret>>

\* Variant: scheduled_ left set.
EnterKeepsScheduled(t) ==
  /\ thr[t].ph = "fetched" /\ MutexFree(thr[t].c)
  /\ thr' = [thr EXCEPT ![t].ph = "run"]
  /\ UNCHANGED <<pc, stamp, scheduled, result, cancelled, disabled, completed, sd, ready, timeouts, q, qlocked, ret>>

\* c->mutex_.lock(), scheduled_ = false, switch to c.
Enter(t) ==
  /\ thr[t].ph = "fetched" /\ MutexFree(thr[t].c)
  /\ thr' = [thr EXCEPT ![t].ph = "run"]
  /\ scheduled' = [scheduled EXCEPT ![thr[t].c] = FALSE]
  /\ UNCHANGED <<pc, stamp, result, cancelled, disabled, completed, sd, ready, timeouts, q, qlocked, ret>>

\* afterStepDown, first half: a finite timeout becomes a TimedWaitItem.
AfterTimeout(t) ==
  LET c == thr[t].c IN
  /\ thr[t].ph = "after"
  /\ timeouts' = IF sd[c].finite THEN timeouts \cup {Item(c)} ELSE timeouts
  /\ thr' = [thr EXCEPT ![t].ph = "push"]
  /\ UNCHANGED <<pc, stamp, scheduled, result, cancelled, disabled, completed, sd, ready, q, qlocked, ret>>

\* afterStepDown, second half: push onto the wait queue and unlock it;
\* then c->mutex_.unlock().
AfterPush(t) ==
  LET c == thr[t].c IN
  /\ thr[t].ph = "push"
  /\ q' = IF sd[c].queue THEN Append(q, Item(c)) ELSE q
  /\ qlocked' = IF sd[c].queue THEN FALSE ELSE qlocked
  /\ thr' = [thr EXCEPT ![t] = [c |-> None, ph |-> "idle"]]
  /\ UNCHANGED <<pc, stamp, scheduled, result, cancelled, disabled, completed, sd, ready, timeouts, ret>>

\* ioWait: fetch found nothing and tasks remain, so the thread waits in
\* poller_->wait until the earliest timeout or a wakeup.
IoWait(t) ==
  /\ thr[t].ph = "idle" /\ ready = <<>> /\ Usage > 0
  /\ thr' = [thr EXCEPT ![t].ph = "poll"]
  /\ UNCHANGED <<pc, stamp, scheduled, result, cancelled, disabled, completed, sd,
                 ready, timeouts, q, qlocked, ret>>

\* poller_->wait returns: under both locks, every expired timeout is
\* scheduled with -ETIMEDOUT, earliest first, and popped, whatever other
\* threads made ready meanwhile.  Which items have expired, and their
\* deadline order, is left open: any of them, in any order.  With none
\* expired, the wait ended by a wakeup (something was scheduled, or the
\* last task ended).
IoWake(t) ==
  /\ thr[t].ph = "poll"
  /\ \E fired \in SetToAllKPermutations(timeouts) :
       /\ fired # <<>> \/ ready # <<>> \/ Usage = 0
       /\ timeouts' = timeouts \ ToSet(fired)
       /\ SetSched(ScheduleAll(Sched, fired, "timedout"))
  /\ thr' = [thr EXCEPT ![t].ph = "idle"]
  /\ UNCHANGED <<pc, cancelled, disabled, completed, sd, q, qlocked, ret>>

\* No task is left (usage_ = 0): the thread leaves taskSwitch.
Exit(t) ==
  /\ thr[t].ph = "idle" /\ ready = <<>> /\ Usage = 0
  /\ thr' = [thr EXCEPT ![t].ph = "exit"]
  /\ UNCHANGED <<pc, stamp, scheduled, result, cancelled, disabled, completed, sd, ready, timeouts, q, qlocked, ret>>
-----------------------------------------------------------------------------
(* The owner: spawn the task, io::wait(task, timeout), then ~TaskBase.     *)

\* io::spawn -> Scheduler::start.
Spawn(t) ==
  /\ Running(t, Owner) /\ pc[Owner] = "spawn"
  /\ Start(Task)
  /\ pc' = [pc EXCEPT ![Owner] = "wait1", ![Task] = "begin"]
  /\ UNCHANGED <<thr, cancelled, disabled, completed, sd, timeouts, q, qlocked, ret>>

\* Coroutine::waitAll for the one task: lock its waiters_; return 0 if it
\* completed, else step down on that queue (finite: the caller's timeout).
WaitAll(t, at, finite, next) ==
  /\ Running(t, Owner) /\ pc[Owner] = at /\ ~qlocked
  /\ IF completed[Task]
     THEN /\ ret' = "ok" /\ pc' = [pc EXCEPT ![Owner] = next]
          /\ UNCHANGED <<thr, sd, qlocked>>
     ELSE /\ qlocked' = TRUE
          /\ StepDown(t, Owner, TRUE, finite, IF at = "wait1" THEN "resume1" ELSE "resume2")
          /\ UNCHANGED ret
  /\ UNCHANGED <<stamp, scheduled, result, cancelled, disabled, completed, ready, timeouts, q>>

\* doStepDownCurrent after the switch back: relock the queue, then
\* cancelIfNeed throws if cancelled and not disabled (the WaitQueue::Lock
\* unwinds); else waitAll returns result_.
Resume(t, at, next) ==
  /\ Running(t, Owner) /\ pc[Owner] = at /\ ~qlocked
  /\ IF cancelled[Owner] /\ ~disabled[Owner]
     THEN cancelled' = [cancelled EXCEPT ![Owner] = FALSE] /\ ret' = "thrown"
     ELSE UNCHANGED cancelled /\ ret' = result[Owner]
  /\ pc' = [pc EXCEPT ![Owner] = next]
  /\ UNCHANGED <<thr, stamp, scheduled, result, disabled, completed, sd, ready, timeouts, q, qlocked>>

\* TaskBase::~TaskBase: a task not completed is cancelled (under its
\* mutex_), then waited for with cancellation disabled.
Dtor(t) ==
  /\ Running(t, Owner) /\ pc[Owner] = "dtor"
  /\ IF completed[Task]
     THEN pc' = [pc EXCEPT ![Owner] = "done"] /\ UNCHANGED <<stamp, scheduled, result, ready, cancelled, disabled>>
     ELSE /\ MutexFree(Task)
          /\ Cancel(Task)
          /\ disabled' = [disabled EXCEPT ![Owner] = TRUE]
          /\ pc' = [pc EXCEPT ![Owner] = "wait2"]
  /\ UNCHANGED <<thr, completed, sd, timeouts, q, qlocked, ret>>

\* enableCancellation(), detach().
Enable(t) ==
  /\ Running(t, Owner) /\ pc[Owner] = "enable"
  /\ disabled' = [disabled EXCEPT ![Owner] = FALSE]
  /\ pc' = [pc EXCEPT ![Owner] = "done"]
  /\ UNCHANGED <<thr, stamp, scheduled, result, cancelled, completed, sd, ready, timeouts, q, qlocked, ret>>

\* The function returns: Coroutine::cleanup (no one waits for the owner).
OwnerEnd(t) ==
  /\ Running(t, Owner) /\ pc[Owner] = "done"
  /\ completed' = [completed EXCEPT ![Owner] = TRUE]
  /\ pc' = [pc EXCEPT ![Owner] = "end"]
  /\ Finish(t)
  /\ UNCHANGED <<stamp, scheduled, result, cancelled, disabled, sd, ready, timeouts, q, qlocked, ret>>
-----------------------------------------------------------------------------
(* The task: trampoline's cancelIfNeed, io::sleep(timeout), cleanup.       *)

\* Entering the trampoline: a pending cancellation unwinds at once (to
\* cleanup, which sets completed_); else io::sleep steps down with only
\* a timeout.
TaskBegin(t) ==
  /\ Running(t, Task) /\ pc[Task] = "begin"
  /\ IF cancelled[Task]
     THEN /\ cancelled' = [cancelled EXCEPT ![Task] = FALSE]
          /\ completed' = [completed EXCEPT ![Task] = TRUE]
          /\ pc' = [pc EXCEPT ![Task] = "notify"]
          /\ UNCHANGED <<thr, sd>>
     ELSE StepDown(t, Task, FALSE, TRUE, "wake") /\ UNCHANGED <<cancelled, completed>>
  /\ UNCHANGED <<stamp, scheduled, result, disabled, ready, timeouts, q, qlocked, ret>>

\* Back from the sleep, by its timeout or by the owner's cancel: either way
\* the function ends (cancelIfNeed unwinds) and cleanup sets completed_.
TaskWake(t) ==
  /\ Running(t, Task) /\ pc[Task] = "wake"
  /\ cancelled' = [cancelled EXCEPT ![Task] = FALSE]
  /\ completed' = [completed EXCEPT ![Task] = TRUE]
  /\ pc' = [pc EXCEPT ![Task] = "notify"]
  /\ UNCHANGED <<thr, stamp, scheduled, result, disabled, sd, ready, timeouts, q, qlocked, ret>>

\* cleanup: waiters_.scheduleAll(0) under the queue's lock, deref, and the
\* last step-down.
TaskNotify(t) ==
  /\ Running(t, Task) /\ pc[Task] = "notify" /\ ~qlocked
  /\ SetSched(ScheduleAll(Sched, q, "ok"))
  /\ q' = <<>>
  /\ pc' = [pc EXCEPT ![Task] = "end"]
  /\ Finish(t)
  /\ UNCHANGED <<cancelled, disabled, completed, sd, timeouts, qlocked, ret>>

-----------------------------------------------------------------------------
(* The canceller: io::sleep(timeout), then owner.cancel().                 *)

CancellerSleep(t) ==
  /\ Running(t, Canceller) /\ pc[Canceller] = "begin"
  /\ StepDown(t, Canceller, FALSE, TRUE, "cancel")
  /\ UNCHANGED <<stamp, scheduled, result, cancelled, disabled, completed, ready, timeouts, q, qlocked, ret>>

\* TaskBase::cancel -> Coroutine::cancel, which blocks on the owner's
\* mutex_ while a thread runs it; then the canceller's function ends.
CancelOwner(t) ==
  /\ Running(t, Canceller) /\ pc[Canceller] = "cancel"
  /\ MutexFree(Owner)
  /\ Cancel(Owner)
  /\ completed' = [completed EXCEPT ![Canceller] = TRUE]
  /\ pc' = [pc EXCEPT ![Canceller] = "end"]
  /\ Finish(t)
  /\ UNCHANGED <<disabled, sd, timeouts, q, qlocked, ret>>

-----------------------------------------------------------------------------

Terminated == \A t \in Threads : thr[t].ph = "exit"

Next ==
  \/ \E t \in Threads :
       \/ Fetch(t) \/ Enter(t) \/ AfterTimeout(t) \/ AfterPush(t) \/ IoWait(t) \/ IoWake(t) \/ Exit(t)
       \/ Spawn(t) \/ WaitAll(t, "wait1", TimedWait, "dtor") \/ Resume(t, "resume1", "dtor")
       \/ Dtor(t) \/ WaitAll(t, "wait2", FALSE, "enable") \/ Resume(t, "resume2", "enable")
       \/ Enable(t) \/ OwnerEnd(t)
       \/ TaskBegin(t) \/ TaskWake(t) \/ TaskNotify(t)
       \/ CancellerSleep(t) \/ CancelOwner(t)
  \/ Terminated /\ UNCHANGED vars

Spec == Init /\ [][Next]_vars

-----------------------------------------------------------------------------

Results == {"ok", "timedout", "cancelled"}

TypeOK ==
  /\ thr \in [Threads -> [c : Coroutines \cup {None},
                          ph : {"idle", "fetched", "run", "after", "push", "poll", "exit"}]]
  /\ stamp \in [Coroutines -> 1..6]
  /\ scheduled \in [Coroutines -> BOOLEAN]
  /\ result \in [Coroutines -> Results]
  /\ cancelled \in [Coroutines -> BOOLEAN] /\ disabled \in [Coroutines -> BOOLEAN]
  /\ completed \in [Coroutines -> BOOLEAN]
  /\ ready \in Seq(Coroutines)
  /\ \A it \in timeouts \cup ToSet(q) : it.c \in Coroutines /\ it.st <= stamp[it.c]
  /\ ret \in Results \cup {"none", "thrown"}
  \* scheduled_ is set exactly while c is in ready_ or fetched and not yet
  \* switched to.
  /\ \A c \in Coroutines :
       scheduled[c] <=> c \in ToSet(ready) \/ \E t \in Threads : thr[t].c = c /\ thr[t].ph = "fetched"

\* Each step-down is resumed once: whatever mix of the queue's
\* scheduleAll, expired timeouts (including stale ones of earlier
\* step-downs) and cancel targets a coroutine, it is in ready_ at most
\* once, never while a thread runs it, and never after it completed.
ScheduledOnce ==
  \A c \in Coroutines :
    /\ Len(SelectSeq(ready, LAMBDA x : x = c)) <= 1
    /\ c \in ToSet(ready) => ~completed[c] /\ ~\E t \in Threads : Running(t, c)

\* ~TaskBase returns only once its task has completed, so a task never
\* outlives the frame whose references it captured (the syncio test
\* dblcancel.cpp: cancelling a task while it waits for another must not
\* break top-to-bottom finalization).
DtorJoins ==
  pc[Owner] = "enable" => completed[Task]
=============================================================================
